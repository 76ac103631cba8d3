-------------------------- MODULE HistorianPassProofs --------------------------
(***************************************************************************)
(* Proofs about HistorianPass, for any quota, any number of retries and    *)
(* fallbacks and any length of a model chain.                              *)
(***************************************************************************)
EXTENDS HistorianPass, TLAPS

USE QuotaAssumption, PassAssumption
-----------------------------------------------------------------------------
(* The call of the subagent runner.                                        *)

(* The trees of children a call may already have behind it: one for the    *)
(* first form, one more for the isolated retry, one for the canonical      *)
(* form.                                                                   *)
Behind(c) ==
  IF c.isolated /\ c.form = "canonical" THEN 2 * c.models
  ELSE IF c.isolated \/ c.form = "canonical" THEN c.models ELSE 0

(* The children of the trees behind and of the chain up to this model.     *)
SpawnsCounted ==
  /\ call.model <= call.models
  /\ call.spawns <= Behind(call) + call.model
  /\ call.at = "spawn" => call.spawns < Behind(call) + call.model

CallInv == SubagentTypeOK /\ SpawnsCounted

LEMMA NoCallTyped == NoCall \in Call
BY DEF NoCall, Call, Form, Result

LEMMA FirstFormTyped ==
  ASSUME SubagentTypeOK, NEW ambiguous \in BOOLEAN
  PROVE  FirstForm(ambiguous) \in Form
BY DEF SubagentTypeOK, FirstForm, Form

LEMMA CallInitInv ==
  ASSUME SubagentInit
  PROVE  CallInv
<1>1. SubagentTypeOK
  BY NoCallTyped DEF SubagentInit, SubagentTypeOK, NewChild, Child, Final
<1>2. SpawnsCounted
  BY DEF SubagentInit, NoCall, SpawnsCounted, Behind
<1> QED BY <1>1, <1>2 DEF CallInv

(* A new call has no child yet.                                            *)
LEMMA StartInv ==
  ASSUME CallInv, NEW form \in Form, call' = NewCall(1, form), UNCHANGED <<child, formCache>>
  PROVE  CallInv'
<1>1. 1 \in 1 .. MaxModels /\ "none" \in Result
  BY DEF Result
<1>2. call' \in Call
  BY <1>1 DEF Call, NewCall
<1>3. child' \in Child /\ formCache' \in {"none", "translated", "canonical"}
  BY DEF CallInv, SubagentTypeOK
<1>4. SpawnsCounted'
  BY DEF SpawnsCounted, Behind, NewCall
<1> QED BY <1>2, <1>3, <1>4 DEF CallInv, SubagentTypeOK

LEMMA DroppedInv ==
  ASSUME CallInv, call' = NoCall, child' \in {child, NewChild}, formCache' \in {formCache, "none"}
  PROVE  CallInv'
<1>1. SubagentTypeOK'
  <2>1. NewChild \in Child
    BY DEF NewChild, Child, Final
  <2> QED BY <2>1, NoCallTyped DEF CallInv, SubagentTypeOK
<1>2. SpawnsCounted'
  BY DEF NoCall, SpawnsCounted, Behind
<1> QED BY <1>1, <1>2 DEF CallInv

LEMMA UnchangedCallInv ==
  ASSUME CallInv, UNCHANGED subagentVars
  PROVE  CallInv'
BY DEF CallInv, subagentVars, SubagentTypeOK, SpawnsCounted, Behind

(* Whatever a child comes to, what follows is within the count.            *)
LEMMA AfterResultInv ==
  ASSUME CallInv, NEW res \in Result, Settles(res)
  PROVE  CallInv'
<1> USE DEF CallInv
<1>1. /\ call.models \in 1 .. MaxModels
      /\ call.model \in 1 .. MaxModels
      /\ call.spawns \in Nat
      /\ call.isolated \in BOOLEAN
      /\ call.form \in Form
      /\ call.result \in Result
      /\ 1 \in 1 .. MaxModels
  BY DEF SubagentTypeOK, Call
<1>2. child' \in Child /\ formCache' \in {"none", "translated", "canonical"}
  BY <1>1 DEF Settles, CacheAfter, SubagentTypeOK, NewChild, Child, Final, Form
<1> DEFINE new(at, model, form, isolated, result) ==
             [at |-> at, models |-> call.models, model |-> model, form |-> form,
              isolated |-> isolated, spawns |-> call.spawns, result |-> result]
<1>3. call = new(call.at, call.model, call.form, call.isolated, call.result)
  BY DEF SubagentTypeOK, Call
<1>4. \/ call' = new("done", call.model, call.form, call.isolated, res)
      \/ /\ call.model < call.models
         /\ call' = new("spawn", call.model + 1, call.form, call.isolated, call.result)
      \/ /\ ~call.isolated
         /\ call' = new("spawn", 1, call.form, TRUE, call.result)
      \/ /\ call.form = "translated"
         /\ call' = new("spawn", 1, "canonical", call.isolated, call.result)
  <2> HIDE DEF new
  <2>1. call' = AfterResult(res)
    BY DEF Settles
  <2>2. CASE res = "ok"
    BY <2>1, <2>2, <1>3 DEF AfterResult, new
  <2>3. CASE res # "ok" /\ ChainGoesOn(res)
    BY <2>1, <2>3, <1>3 DEF AfterResult, ChainGoesOn, new
  <2>4. CASE res # "ok" /\ ~ChainGoesOn(res) /\ ~call.isolated /\ TriggersIsolation(res)
    BY <2>1, <2>4, <1>3 DEF AfterResult, new
  <2>5. CASE /\ res # "ok" /\ ~ChainGoesOn(res) /\ (call.isolated \/ ~TriggersIsolation(res))
             /\ CredentialFailure(res)
    BY <2>1, <2>5, <1>3 DEF AfterResult, CanonicalNext, CredentialFailure, new
  <2>6. CASE /\ res # "ok" /\ ~ChainGoesOn(res) /\ (call.isolated \/ ~TriggersIsolation(res))
             /\ ~CredentialFailure(res)
    BY <2>1, <2>6, <1>3 DEF AfterResult, new
  <2> QED BY <2>2, <2>3, <2>4, <2>5, <2>6
<1>5. call' \in Call
  <2>1. ASSUME NEW at \in {"spawn", "done"}, NEW model \in 1 .. MaxModels, NEW form \in Form,
               NEW isolated \in BOOLEAN, NEW result \in Result
        PROVE  new(at, model, form, isolated, result) \in Call
    BY <1>1 DEF Call
  <2>2. call.model < call.models => call.model + 1 \in 1 .. MaxModels
    BY <1>1
  <2>3. "canonical" \in Form
    BY DEF Form
  <2> HIDE DEF new
  <2> QED BY <1>1, <1>4, <2>1, <2>2, <2>3
<1>6. SpawnsCounted'
  BY <1>1, <1>4 DEF SpawnsCounted, Behind, Form
<1> QED BY <1>2, <1>5, <1>6 DEF SubagentTypeOK

(* Every step of a child, its timers and the runner keeps the count.       *)
LEMMA SubagentStepInv ==
  ASSUME CallInv, SubagentStep
  PROVE  CallInv'
<1>1. ASSUME NEW c \in Child, child' = c, UNCHANGED <<call, formCache>>
      PROVE  CallInv'
  BY <1>1 DEF CallInv, SubagentTypeOK, SpawnsCounted, Behind
<1>2. child \in Child /\ call \in Call
  BY DEF CallInv, SubagentTypeOK
<1>3. CASE Spawns
  <2>1. CASE Settles("spawn_failed")
    BY <2>1, AfterResultInv DEF Result, Failure
  <2>2. CASE ~Settles("spawn_failed")
    <3>1. /\ call.at = "spawn"
          /\ call' = [call EXCEPT !.at = "child", !.spawns = @ + 1]
          /\ child' = NewChild /\ formCache' = formCache
      BY <1>3, <2>2 DEF Spawns
    <3>2. call' = [at |-> "child", models |-> call.models, model |-> call.model,
                   form |-> call.form, isolated |-> call.isolated,
                   spawns |-> call.spawns + 1, result |-> call.result]
      BY <1>2, <3>1 DEF Call
    <3>3. call' \in Call
      BY <1>2, <3>2 DEF Call
    <3>4. SpawnsCounted'
      BY <1>2, <3>1, <3>2 DEF CallInv, SpawnsCounted, Behind, Call
    <3>5. child' \in Child /\ formCache' \in {"none", "translated", "canonical"}
      BY <3>1 DEF CallInv, SubagentTypeOK, NewChild, Child, Final
    <3> QED BY <3>3, <3>4, <3>5 DEF CallInv, SubagentTypeOK
  <2> QED BY <2>1, <2>2
<1>4. CASE ChildSpeaks
  <2>1. child' \in Child /\ UNCHANGED <<call, formCache>>
    BY <1>2, <1>4 DEF ChildSpeaks, Child
  <2> QED BY <2>1, <1>1
<1>5. ASSUME NEW f \in Final \ {"none"}, ChildFinishes(f) PROVE CallInv'
  <2>1. child' \in Child /\ UNCHANGED <<call, formCache>>
    BY <1>2, <1>5 DEF ChildFinishes, Child
  <2> QED BY <2>1, <1>1
<1>6. CASE DrainTimer
  <2>1. child' \in Child /\ UNCHANGED <<call, formCache>>
    BY <1>2, <1>6 DEF DrainTimer, Child
  <2> QED BY <2>1, <1>1
<1>7. CASE HardTimeout
  BY <1>7, AfterResultInv DEF HardTimeout, Result, Failure
<1>8. CASE ChildErrors
  BY <1>8, AfterResultInv DEF ChildErrors, Result, Failure
<1>9. CASE ChildCloses
  <2>1. PICK clean \in BOOLEAN : \E res \in CloseResult(clean) : Settles(res)
    BY <1>9 DEF ChildCloses
  <2>2. PICK res \in CloseResult(clean) : Settles(res)
    BY <2>1
  <2>3. res \in Result
    BY <2>2, <1>2 DEF CloseResult, Result, Failure, Child, Final
  <2> QED BY <2>2, <2>3, AfterResultInv
<1> QED BY <1>3, <1>4, <1>5, <1>6, <1>7, <1>8, <1>9 DEF SubagentStep
-----------------------------------------------------------------------------
(* The pass and its reservation.                                           *)

(* What makes the invariants inductive: an idle session has no             *)
(* reservation, what is spent and what is reserved are in the window's     *)
(* tokens, a failure the backoff has not outlived is in its column, and    *)
(* the validated output is the editor's draft until the editor's replaces  *)
(* it.                                                                     *)
OwnTypeOK ==
  /\ quota \in Quota
  /\ pass \in Pass
  /\ past \in [spent : Nat, failing : BOOLEAN, urgent : BOOLEAN]

IdleHoldsNothing == pass.at = "idle" => pass.granted = 0

SpentIsCounted == past.spent + pass.granted <= quota.tokens

FailureIsNoted == past.failing => quota.recent

DraftStands == pass.at = "validated" => pass.valid = pass.draft

OwnInv ==
  /\ OwnTypeOK
  /\ IdleHoldsNothing /\ SpentIsCounted /\ FailureIsNoted
  /\ DraftStands /\ EditorRefinesValidated

PassInv == CallInv /\ OwnInv

LEMMA StagesTyped ==
  /\ {None, First, Repair, Editor} \subseteq Stage
  /\ \A s \in Stage, invalid \in BOOLEAN : NextStage(s, invalid) \in Stage
<1>1. {None, First, Repair, Editor} \subseteq Stage
  BY DEF None, First, Repair, Editor, Stage
<1>2. ASSUME NEW s \in Stage, NEW invalid \in BOOLEAN
      PROVE  NextStage(s, invalid) \in Stage
  <2>1. CASE s[1] = "fallback" /\ s[2] < Fallbacks
    <3>1. s[2] \in 1 .. Fallbacks /\ s \notin {First, Repair}
      BY <2>1 DEF Stage, First, Repair
    <3>2. NextStage(s, invalid) = <<"fallback", s[2] + 1>>
      BY <2>1, <3>1 DEF NextStage
    <3>3. s[2] + 1 \in 1 .. Fallbacks
      BY <2>1, <3>1
    <3> QED BY <3>2, <3>3 DEF Stage
  <2>2. CASE ~(s[1] = "fallback" /\ s[2] < Fallbacks)
    <3>1. NextStage(s, invalid) \in {Repair, None}
          \/ (Fallbacks > 0 /\ NextStage(s, invalid) = <<"fallback", 1>>)
      BY <2>2 DEF NextStage
    <3>2. Fallbacks > 0 => <<"fallback", 1>> \in Stage
      <4>1. Fallbacks > 0 => 1 \in 1 .. Fallbacks
        OBVIOUS
      <4> QED BY <4>1 DEF Stage
    <3> QED BY <1>1, <3>1, <3>2
  <2> QED BY <2>1, <2>2
<1> QED BY <1>1, <1>2

LEMMA NoPassTyped == NoPass \in Pass
BY StagesTyped DEF NoPass, Pass

(* A reservation within the cap never exceeds the room that is left.       *)
LEMMA GrantFits ==
  ASSUME NEW q \in Quota, NEW u \in Usage, NEW n \in Nat
  PROVE  /\ Granted(q, u, n) \in Nat
         /\ InWindow(q) \in Nat
         /\ ~Bypass(q, u) /\ Granted(q, u, n) > 0 => InWindow(q) + Granted(q, u, n) <= Budget[u]
<1>1. Cap[u] \in Nat \ {0} /\ Budget[u] \in Nat
  OBVIOUS
<1>2. InWindow(q) \in Nat /\ q.tokens \in Nat
  BY DEF InWindow, Quota
<1>3. Room(q, u) \in Nat /\ (Room(q, u) > 0 => InWindow(q) + Room(q, u) = Budget[u])
  BY <1>1, <1>2 DEF Room
<1>4. ASSUME NEW a \in Nat, NEW b \in Nat
      PROVE  AtMost(a, b) \in Nat /\ AtMost(a, b) <= b
  BY DEF AtMost
<1>5. AtMost(n, Cap[u]) \in Nat
  BY <1>1, <1>4
<1>6. AtMost(AtMost(n, Cap[u]), Room(q, u)) \in Nat
      /\ AtMost(AtMost(n, Cap[u]), Room(q, u)) <= Room(q, u)
  BY <1>3, <1>4, <1>5
<1>7. CASE Bypass(q, u)
  BY <1>2, <1>5, <1>7 DEF Granted
<1>8. CASE ~Bypass(q, u)
  <2>1. Granted(q, u, n) = AtMost(AtMost(n, Cap[u]), Room(q, u))
    BY <1>8 DEF Granted
  <2> QED BY <1>1, <1>2, <1>3, <1>6, <2>1
<1> QED BY <1>7, <1>8

(* The operations on the row.                                              *)
LEMMA RollbackOperation ==
  ASSUME NEW q \in Quota, NEW n \in Nat
  PROVE  /\ RolledBack(q, n) \in Quota
         /\ RolledBack(q, n).recent = q.recent
         /\ n <= q.tokens => RolledBack(q, n).tokens = q.tokens - n
BY DEF RolledBack, Quota

LEMMA QuotaOperations ==
  ASSUME NEW q \in Quota
  PROVE  /\ \A r \in {LatchCleared(q), FailureNoted(q), FailureCleared(q), WindowOver(q),
                       LatchAged(q), BackoffOver(q)} :
              r \in Quota /\ r.tokens = q.tokens
         /\ FailureNoted(q).recent
         /\ LatchCleared(q).recent = q.recent
         /\ WindowOver(q).recent = q.recent
         /\ LatchAged(q).recent = q.recent
<1>1. /\ q.tokens \in Nat /\ q.over \in BOOLEAN /\ q.recent \in BOOLEAN
      /\ q.latch \in {"off", "on", "old"}
      /\ q = [tokens |-> q.tokens, over |-> q.over, latch |-> q.latch, recent |-> q.recent]
  BY DEF Quota
<1>3. LatchCleared(q) \in Quota /\ LatchCleared(q).tokens = q.tokens
      /\ LatchCleared(q).recent = q.recent
  BY <1>1 DEF LatchCleared, Quota
<1>4. FailureNoted(q) \in Quota /\ FailureNoted(q).tokens = q.tokens /\ FailureNoted(q).recent
  BY <1>1 DEF FailureNoted, Quota
<1>5. FailureCleared(q) \in Quota /\ FailureCleared(q).tokens = q.tokens
  BY <1>1 DEF FailureCleared, Quota
<1>6. WindowOver(q) \in Quota /\ WindowOver(q).tokens = q.tokens /\ WindowOver(q).recent = q.recent
  BY <1>1 DEF WindowOver, Quota
<1>7. LatchAged(q) \in Quota /\ LatchAged(q).tokens = q.tokens /\ LatchAged(q).recent = q.recent
  BY <1>1 DEF LatchAged, Quota
<1>8. BackoffOver(q) \in Quota /\ BackoffOver(q).tokens = q.tokens
  BY <1>1 DEF BackoffOver, Quota
<1> QED BY <1>3, <1>4, <1>5, <1>6, <1>7, <1>8

Past == [spent : Nat, failing : BOOLEAN, urgent : BOOLEAN]

LEMMA FieldsTyped ==
  ASSUME OwnTypeOK
  PROVE  /\ pass.granted \in Nat /\ pass.bypassed \in BOOLEAN /\ pass.retain \in BOOLEAN
         /\ pass.stage \in Stage /\ pass.tries \in Nat /\ pass.valid \in Stage /\ pass.draft \in Stage
         /\ quota.tokens \in Nat /\ quota.recent \in BOOLEAN
         /\ past.spent \in Nat /\ past.failing \in BOOLEAN /\ past.urgent \in BOOLEAN
BY DEF OwnTypeOK, Pass, Quota

(* Leaving the pass alone leaves what is said of it alone.                 *)
LEMMA OwnInvKept ==
  ASSUME OwnInv, UNCHANGED passVars
  PROVE  OwnInv'
BY DEF OwnInv, passVars, OwnTypeOK, IdleHoldsNothing, SpentIsCounted, FailureIsNoted,
       DraftStands, EditorRefinesValidated

(* A pass that ends leaves an idle session: only the tokens and the        *)
(* failure have to be looked at.                                           *)
LEMMA IdleInv ==
  ASSUME pass' = NoPass, quota' \in Quota, past' \in Past,
         past'.spent <= quota'.tokens, past'.failing => quota'.recent
  PROVE  OwnInv'
<1>1. OwnTypeOK'
  BY NoPassTyped DEF OwnTypeOK, Past
<1>2. IdleHoldsNothing' /\ DraftStands' /\ EditorRefinesValidated'
  BY DEF NoPass, First, Editor, IdleHoldsNothing, DraftStands, EditorRefinesValidated
<1>3. past'.spent \in Nat /\ pass'.granted = 0
  BY DEF NoPass, Past
<1> QED BY <1>1, <1>2, <1>3 DEF OwnInv, SpentIsCounted, FailureIsNoted

LEMMA EndsInv ==
  ASSUME OwnInv, EndsIncomplete
  PROVE  OwnInv'
<1> USE FieldsTyped DEF OwnInv
<1>0. quota \in Quota /\ past \in Past /\ past.spent + pass.granted <= quota.tokens
  BY DEF OwnTypeOK, Past, SpentIsCounted
<1>1. CASE pass.retain
  <2>1. quota' = FailureNoted(quota)
    BY <1>1 DEF EndsIncomplete, FinallyQuota
  <2>2. past' = [past EXCEPT !.spent = Charged(pass), !.failing = TRUE]
    BY <1>1 DEF EndsIncomplete
  <2>3. quota' \in Quota /\ quota'.tokens = quota.tokens /\ quota'.recent
    BY <1>0, <2>1, QuotaOperations
  <2>4. Charged(pass) \in Nat /\ Charged(pass) <= quota.tokens
    BY <1>0 DEF Charged
  <2>5. past' = [spent |-> Charged(pass), failing |-> TRUE, urgent |-> past.urgent]
    BY <1>0, <2>2 DEF Past
  <2>6. past' \in Past /\ past'.spent = Charged(pass)
    BY <2>4, <2>5 DEF Past
  <2> QED BY <2>3, <2>4, <2>6, IdleInv DEF EndsIncomplete
<1>2. CASE ~pass.retain
  <2>1. quota' = RolledBack(quota, pass.granted) /\ past' = past
    BY <1>2 DEF EndsIncomplete, FinallyQuota
  <2>2. /\ quota' \in Quota /\ quota'.recent = quota.recent
        /\ pass.granted <= quota.tokens => quota'.tokens = quota.tokens - pass.granted
    <3>1. pass.granted \in Nat
      OBVIOUS
    <3> QED BY <1>0, <2>1, <3>1, RollbackOperation
  <2>3. past'.spent <= quota'.tokens
    BY <1>0, <2>1, <2>2
  <2>4. past'.failing => quota'.recent
    BY <2>1, <2>2 DEF FailureIsNoted
  <2> QED BY <1>0, <2>1, <2>2, <2>3, <2>4, IdleInv DEF EndsIncomplete
<1> QED BY <1>1, <1>2

(* A pass that goes on with its reservation.                               *)
LEMMA GoesOnInv ==
  ASSUME OwnInv, quota' = quota, past' \in Past, past'.spent = past.spent,
         past'.failing = past.failing,
         pass'.granted = pass.granted, pass' \in Pass, pass'.at # "idle",
         pass'.at = "validated" => pass'.valid = pass'.draft,
         pass'.stage = Editor => pass'.valid \in {pass'.draft, Editor}
  PROVE  OwnInv'
BY DEF OwnInv, OwnTypeOK, IdleHoldsNothing, SpentIsCounted, FailureIsNoted,
       DraftStands, EditorRefinesValidated, Past

(* What a pass is granted: nothing when it asks for nothing.               *)
Asks(forced, n) == ~forced /\ n > 0

Got(u, forced, n) == IF Asks(forced, n) THEN Granted(quota, u, n) ELSE 0

LEMMA BeginsEffect ==
  ASSUME OwnInv, NEW u \in Usage, NEW forced \in BOOLEAN, NEW n \in 0 .. MaxEligible,
         Begins(u, forced, n)
  PROVE  /\ Got(u, forced, n) \in Nat
         /\ past' \in Past
         /\ past'.failing = past.failing
         /\ past'.spent = IF Asks(forced, n) /\ quota.over THEN 0 ELSE past.spent
         /\ quota' \in Quota
         /\ quota'.recent = quota.recent
         /\ quota'.tokens = IF Asks(forced, n) THEN InWindow(quota) + Got(u, forced, n)
                            ELSE quota.tokens
         /\ pass' \in Pass
         /\ pass'.at = "idle" => pass'.granted = 0
         /\ pass'.granted = Got(u, forced, n)
         /\ pass'.at # "validated"
         /\ \/ Asks(forced, n) /\ Got(u, forced, n) = 0 /\ pass' = pass
            \/ /\ pass'.stage = First
               /\ pass'.bypassed => Bypass(quota, u)
               /\ ~pass'.bypassed => ~(Asks(forced, n) /\ Bypass(quota, u))
<1> USE FieldsTyped DEF OwnInv
<1> DEFINE asks == Asks(forced, n)
           got  == Got(u, forced, n)
<1>0. quota \in Quota /\ pass \in Pass /\ past \in Past /\ pass.granted = 0 /\ n \in Nat
  BY DEF OwnTypeOK, Past, IdleHoldsNothing, Begins
<1>1. got \in Nat /\ InWindow(quota) \in Nat
  BY <1>0, GrantFits DEF Got
<1>2. /\ pass.at = "idle"
      /\ quota' = IF asks THEN Reserved(quota, u, n) ELSE quota
      /\ past' = [past EXCEPT !.spent = IF asks /\ quota.over THEN 0 ELSE @,
                             !.urgent = IF forced THEN @ ELSE u = "urgent"]
      /\ pass' = IF asks /\ got = 0 THEN pass
                 ELSE [NoPass EXCEPT !.at = IF asks \/ forced THEN "reserved" ELSE "blank",
                                     !.granted = got, !.bypassed = asks /\ Bypass(quota, u)]
  BY DEF Begins, Asks, Got
<1>3. past' \in Past /\ past'.failing = past.failing
      /\ past'.spent = IF asks /\ quota.over THEN 0 ELSE past.spent
  <2>1. past' = [spent |-> IF asks /\ quota.over THEN 0 ELSE past.spent,
                 failing |-> past.failing,
                 urgent |-> IF forced THEN past.urgent ELSE u = "urgent"]
    BY <1>0, <1>2 DEF Past
  <2>2. (IF forced THEN past.urgent ELSE u = "urgent") \in BOOLEAN
    BY Zenon
  <2> HIDE DEF asks
  <2> QED BY <2>1, <2>2 DEF Past
<1>4. quota' \in Quota /\ quota'.recent = quota.recent
      /\ quota'.tokens = IF asks THEN InWindow(quota) + got ELSE quota.tokens
  <2>1. CASE asks
    <3>0. quota' = [quota EXCEPT !.tokens = InWindow(quota) + got, !.over = FALSE,
                                 !.latch = Latch(quota, u)]
      BY <1>0, <1>2, <2>1 DEF Reserved, Asks, Got
    <3>1. quota' = [tokens |-> InWindow(quota) + got, over |-> FALSE, latch |-> Latch(quota, u),
                    recent |-> quota.recent]
      <4> HIDE DEF got
      <4> QED BY <1>0, <3>0 DEF Quota
    <3>2. Latch(quota, u) \in {"off", "on", "old"}
      BY <1>0 DEF Latch, Quota
    <3> HIDE DEF got
    <3> QED BY <1>1, <2>1, <3>1, <3>2 DEF Quota
  <2>2. CASE ~asks
    BY <1>0, <1>2, <2>2
  <2> QED BY <2>1, <2>2
<1>5. /\ pass' \in Pass
      /\ pass'.at = "idle" => pass'.granted = 0
      /\ pass'.granted = got
      /\ pass'.at # "validated"
      /\ \/ asks /\ got = 0 /\ pass' = pass
         \/ /\ pass'.stage = First
            /\ pass'.bypassed => Bypass(quota, u)
            /\ ~pass'.bypassed => ~(asks /\ Bypass(quota, u))
  <2>1. CASE asks /\ got = 0
    BY <1>0, <1>2, <2>1
  <2>2. CASE ~(asks /\ got = 0)
    <3>1. pass' = [at |-> IF asks \/ forced THEN "reserved" ELSE "blank", granted |-> got,
                   bypassed |-> asks /\ Bypass(quota, u), retain |-> FALSE, stage |-> First,
                   tries |-> 0, valid |-> None, draft |-> None]
      BY <1>2, <2>2 DEF NoPass
    <3>2. PICK b \in BOOLEAN : b = (asks /\ Bypass(quota, u))
      BY Zenon
    <3>3. PICK a \in {"reserved", "blank"} : a = IF asks \/ forced THEN "reserved" ELSE "blank"
      BY Zenon
    <3>4. First \in Stage /\ None \in Stage
      BY StagesTyped
    <3> HIDE DEF got, asks
    <3>5. pass' = [at |-> a, granted |-> got, bypassed |-> b, retain |-> FALSE, stage |-> First,
                   tries |-> 0, valid |-> None, draft |-> None]
      BY <3>1, <3>2, <3>3
    <3>6. pass' \in Pass
      BY <1>1, <3>5, <3>4 DEF Pass
    <3>7. pass'.bypassed = b
      BY <3>5
    <3>8. (pass'.bypassed => Bypass(quota, u)) /\ (~pass'.bypassed => ~(asks /\ Bypass(quota, u)))
      BY <3>2, <3>7, Zenon
    <3>9. pass'.stage = First /\ pass'.granted = got /\ pass'.at \notin {"idle", "validated"}
      BY <3>5
    <3> QED BY <3>6, <3>8, <3>9
  <2> QED BY <2>1, <2>2
<1> QED BY <1>1, <1>3, <1>4, <1>5

(* A reservation is taken from the room in the window, or the latch lets   *)
(* it pass.                                                                *)
LEMMA BeginsInv ==
  ASSUME OwnInv, NEW u \in Usage, NEW forced \in BOOLEAN, NEW n \in 0 .. MaxEligible,
         Begins(u, forced, n)
  PROVE  OwnInv'
<1> DEFINE asks == Asks(forced, n)
           got  == Got(u, forced, n)
<1>0. /\ quota \in Quota /\ past.spent \in Nat /\ past.spent <= quota.tokens
      /\ InWindow(quota) \in Nat
  <2>1. pass.granted = 0
    BY DEF OwnInv, IdleHoldsNothing, Begins
  <2> QED BY <2>1, FieldsTyped, GrantFits DEF OwnInv, OwnTypeOK, SpentIsCounted, InWindow
<1>1. /\ got \in Nat /\ past' \in Past /\ quota' \in Quota /\ pass' \in Pass
      /\ past'.failing = past.failing /\ quota'.recent = quota.recent
      /\ past'.spent = IF asks /\ quota.over THEN 0 ELSE past.spent
      /\ quota'.tokens = IF asks THEN InWindow(quota) + got ELSE quota.tokens
      /\ pass'.at = "idle" => pass'.granted = 0
      /\ pass'.granted = got
      /\ pass'.at # "validated"
      /\ pass' = pass \/ pass'.stage = First
  <2> HIDE DEF asks, got
  <2> QED BY BeginsEffect DEF asks, got
<1>2. OwnTypeOK' /\ IdleHoldsNothing' /\ DraftStands'
  BY <1>1 DEF OwnTypeOK, Past, IdleHoldsNothing, DraftStands
<1>3. SpentIsCounted'
  <2>1. quota.over \/ InWindow(quota) = quota.tokens
    BY DEF InWindow
  <2>2. ~asks => got = 0
    BY DEF Got
  <2> HIDE DEF got, asks
  <2> QED BY <1>0, <1>1, <2>1, <2>2 DEF SpentIsCounted
<1>4. FailureIsNoted'
  BY <1>1 DEF OwnInv, FailureIsNoted
<1>5. EditorRefinesValidated'
  <2>1. First # Editor
    BY DEF First, Editor
  <2> QED BY <1>1, <2>1 DEF OwnInv, EditorRefinesValidated
<1> QED BY <1>2, <1>3, <1>4, <1>5 DEF OwnInv

(* The row changes between passes, its tokens do not.                      *)
LEMMA KeptTokensInv ==
  ASSUME OwnInv, pass' = pass, quota' \in Quota, quota'.tokens = quota.tokens,
         past' \in Past, past'.spent = past.spent, past'.failing => quota'.recent
  PROVE  OwnInv'
BY DEF OwnInv, OwnTypeOK, IdleHoldsNothing, SpentIsCounted, FailureIsNoted,
       DraftStands, EditorRefinesValidated, Past

(* The next attempt, with the reservation of the pass; only a validated    *)
(* draft is given to the editor.                                           *)
LEMMA AttemptsInv ==
  ASSUME OwnInv, NEW s \in Stage, Attempts(s), pass.at \in {"attempt", "validated"},
         s = Editor => pass.at = "validated"
  PROVE  OwnInv'
<1>1. quota' = quota /\ past' = past /\ pass \in Pass /\ past \in Past
  BY DEF OwnInv, OwnTypeOK, Attempts, Past
<1>2. pass' = [pass EXCEPT !.at = "attempt", !.stage = s, !.tries = 0]
  BY DEF Attempts
<1>3. pass' = [at |-> "attempt", granted |-> pass.granted, bypassed |-> pass.bypassed,
               retain |-> pass.retain, stage |-> s, tries |-> 0, valid |-> pass.valid,
               draft |-> pass.draft]
  BY <1>1, <1>2 DEF Pass
<1>4. pass' \in Pass
  BY <1>1, <1>3 DEF Pass
<1>5. s = Editor => pass.valid = pass.draft
  BY DEF OwnInv, DraftStands
<1> QED BY <1>1, <1>3, <1>4, <1>5, GoesOnInv

LEMMA StageFailsInv ==
  ASSUME OwnInv, NEW invalid \in BOOLEAN, pass.at = "attempt",
         StageFails(NextStage(pass.stage, invalid))
  PROVE  OwnInv'
<1> DEFINE next == NextStage(pass.stage, invalid)
<1>1. pass \in Pass /\ past \in Past /\ pass.stage \in Stage
  BY DEF OwnInv, OwnTypeOK, Past, Pass
<1>2. next \in Stage /\ next # Editor
  <2>1. next \in Stage
    BY <1>1, StagesTyped
  <2>2. next # Editor
    <3>1. next \in {Repair, None} \/ next[1] = "fallback"
      BY DEF NextStage
    <3> QED BY <3>1 DEF Repair, None, Editor
  <2> QED BY <2>1, <2>2
<1> HIDE DEF next
<1>3. CASE /\ pass.stage = Editor
           /\ pass' = [pass EXCEPT !.at = "publish"]
           /\ UNCHANGED <<quota, past, child, formCache>>
  <2>1. pass' = [at |-> "publish", granted |-> pass.granted, bypassed |-> pass.bypassed,
                 retain |-> pass.retain, stage |-> pass.stage, tries |-> pass.tries,
                 valid |-> pass.valid, draft |-> pass.draft]
    BY <1>1, <1>3 DEF Pass
  <2>2. pass' \in Pass
    BY <1>1, <2>1 DEF Pass
  <2> QED BY <1>1, <1>3, <2>1, <2>2, GoesOnInv DEF OwnInv, EditorRefinesValidated
<1>4. CASE Attempts(next)
  BY <1>2, <1>4, AttemptsInv
<1>5. CASE EndsIncomplete
  BY <1>5, EndsInv
<1> QED BY <1>3, <1>4, <1>5 DEF StageFails, next

LEMMA PassStepInv ==
  ASSUME OwnInv, PassStep
  PROVE  OwnInv'
<1>1. /\ pass \in Pass /\ past \in Past /\ quota \in Quota /\ pass.granted \in Nat
      /\ past.spent \in Nat /\ quota.tokens \in Nat /\ pass.stage \in Stage
      /\ past.spent + pass.granted <= quota.tokens
      /\ past.failing => quota.recent
  BY FieldsTyped DEF OwnInv, OwnTypeOK, Past, SpentIsCounted, FailureIsNoted
<1>2. CASE ChunkEmpty
  <2>1. LatchCleared(quota) \in Quota /\ LatchCleared(quota).tokens = quota.tokens
        /\ LatchCleared(quota).recent = quota.recent
    BY <1>1, QuotaOperations
  <2>2. /\ quota' \in Quota /\ quota'.recent = quota.recent
        /\ quota'.tokens = quota.tokens - pass.granted
    <3> DEFINE q == LatchCleared(quota)
    <3>1. quota' = RolledBack(q, pass.granted) /\ pass.granted <= q.tokens /\ q \in Quota
      BY <1>1, <1>2, <2>1 DEF ChunkEmpty
    <3> HIDE DEF q
    <3>2. quota' \in Quota /\ quota'.recent = q.recent /\ quota'.tokens = q.tokens - pass.granted
      BY <1>1, <3>1, RollbackOperation
    <3> QED BY <2>1, <3>2 DEF q
  <2>3. past' = past /\ pass' = NoPass
    BY <1>2 DEF ChunkEmpty
  <2> QED BY <1>1, <2>2, <2>3, IdleInv
<1>3. CASE ChunkInvalid
  <2>1. quota' = RolledBack(quota, pass.granted) /\ past' = past /\ pass' = NoPass
    BY <1>3 DEF ChunkInvalid
  <2>2. /\ quota' \in Quota /\ quota'.recent = quota.recent
        /\ quota'.tokens = quota.tokens - pass.granted
    <3>1. pass.granted <= quota.tokens
      BY <1>1
    <3> QED BY <1>1, <2>1, <3>1, RollbackOperation
  <2> QED BY <1>1, <2>1, <2>2, IdleInv
<1>4. ASSUME NEW at \in {"attempt", "backoff", "publish"}, NEW retain \in BOOLEAN, NEW tries \in Nat,
             pass.at # "idle",
             pass' = [pass EXCEPT !.at = at, !.retain = retain, !.tries = tries],
             quota' = quota, past' = [past EXCEPT !.urgent = FALSE] \/ past' = past
      PROVE  OwnInv'
  <2>1. pass' = [at |-> at, granted |-> pass.granted, bypassed |-> pass.bypassed,
                 retain |-> retain, stage |-> pass.stage, tries |-> tries,
                 valid |-> pass.valid, draft |-> pass.draft]
    BY <1>1, <1>4 DEF Pass
  <2>2. pass' \in Pass
    BY <1>1, <2>1 DEF Pass
  <2>3. past' \in Past /\ past'.spent = past.spent /\ past'.failing = past.failing
    BY <1>1, <1>4 DEF Past
  <2> QED BY <1>4, <2>1, <2>2, <2>3, GoesOnInv DEF OwnInv, EditorRefinesValidated
<1>5. pass.retain \in BOOLEAN /\ pass.tries \in Nat
      /\ pass = [at |-> pass.at, granted |-> pass.granted, bypassed |-> pass.bypassed,
                 retain |-> pass.retain, stage |-> pass.stage, tries |-> pass.tries,
                 valid |-> pass.valid, draft |-> pass.draft]
  BY <1>1 DEF Pass
<1>6. CASE ChunkRead
  <2>1. pass' = [pass EXCEPT !.at = "attempt", !.retain = TRUE, !.tries = pass.tries]
    BY <1>5, <1>6 DEF ChunkRead
  <2>2. pass.at # "idle" /\ quota' = quota
        /\ (past' = [past EXCEPT !.urgent = FALSE] \/ past' = past)
    BY <1>6 DEF ChunkRead
  <2>3. TRUE \in BOOLEAN /\ "attempt" \in {"attempt", "backoff", "publish"}
    BY <1>5
  <2> QED BY <1>4, <1>5, <2>1, <2>2, <2>3
<1>7. CASE TransientFailure
  <2>1. pass' = [pass EXCEPT !.at = "backoff", !.retain = pass.retain, !.tries = pass.tries + 1]
    BY <1>5, <1>7 DEF TransientFailure
  <2>2. pass.at # "idle" /\ quota' = quota
        /\ (past' = [past EXCEPT !.urgent = FALSE] \/ past' = past)
    BY <1>7 DEF TransientFailure, CallFailed
  <2>3. pass.tries + 1 \in Nat
    BY <1>5
  <2> QED BY <1>4, <1>5, <2>1, <2>2, <2>3
<1>8. CASE BackoffEnds
  <2>1. pass' = [pass EXCEPT !.at = "attempt", !.retain = pass.retain, !.tries = pass.tries]
    BY <1>5, <1>8 DEF BackoffEnds
  <2>2. pass.at # "idle" /\ quota' = quota
        /\ (past' = [past EXCEPT !.urgent = FALSE] \/ past' = past)
    BY <1>8 DEF BackoffEnds
  <2>3. pass.tries \in Nat
    BY <1>5
  <2> QED BY <1>4, <1>5, <2>1, <2>2, <2>3
<1>9. CASE AttemptFails
  BY <1>9, StageFailsInv DEF AttemptFails, CallFailed
<1>10. CASE OutputInvalid
  BY <1>10, StageFailsInv DEF OutputInvalid
<1>11. CASE OutputValid
  <2>1. /\ quota' = quota /\ past' = past
        /\ pass' = IF pass.stage = Editor
                   THEN [pass EXCEPT !.at = "publish", !.valid = Editor]
                   ELSE [pass EXCEPT !.at = "validated", !.valid = pass.stage,
                                     !.draft = pass.stage, !.retain = FALSE]
    BY <1>11 DEF OutputValid, DraftOf
  <2>2. CASE pass.stage = Editor
    <3>1. pass' = [at |-> "publish", granted |-> pass.granted, bypassed |-> pass.bypassed,
                   retain |-> pass.retain, stage |-> pass.stage, tries |-> pass.tries,
                   valid |-> Editor, draft |-> pass.draft]
      BY <1>5, <2>1, <2>2
    <3>2. pass' \in Pass
      BY <1>1, <3>1, StagesTyped DEF Pass
    <3> QED BY <1>1, <2>1, <3>1, <3>2, GoesOnInv
  <2>3. CASE pass.stage # Editor
    <3>1. pass' = [at |-> "validated", granted |-> pass.granted, bypassed |-> pass.bypassed,
                   retain |-> FALSE, stage |-> pass.stage, tries |-> pass.tries,
                   valid |-> pass.stage, draft |-> pass.stage]
      BY <1>5, <2>1, <2>3
    <3>2. pass' \in Pass
      BY <1>1, <3>1 DEF Pass
    <3> QED BY <1>1, <2>1, <2>3, <3>1, <3>2, GoesOnInv
  <2> QED BY <2>2, <2>3
<1>12. CASE Edits
  BY <1>12, AttemptsInv, StagesTyped DEF Edits
<1>13. CASE SkipsEditor
  <2>1. pass' = [pass EXCEPT !.at = "publish", !.retain = pass.retain, !.tries = pass.tries]
    BY <1>5, <1>13 DEF SkipsEditor
  <2>2. pass.at # "idle" /\ quota' = quota
        /\ (past' = [past EXCEPT !.urgent = FALSE] \/ past' = past)
    BY <1>13 DEF SkipsEditor
  <2>3. pass.tries \in Nat
    BY <1>5
  <2> QED BY <1>4, <1>5, <2>1, <2>2, <2>3
<1>14. CASE PublishSkipped
  BY <1>14, EndsInv DEF PublishSkipped
<1>15. CASE Publishes
  <2>1. quota' \in Quota /\ quota'.tokens = quota.tokens
    BY <1>1, <1>15, QuotaOperations DEF Publishes
  <2>2. past' = [past EXCEPT !.spent = Charged(pass), !.failing = FALSE] /\ pass' = NoPass
    BY <1>15 DEF Publishes
  <2>3. Charged(pass) \in Nat /\ Charged(pass) <= quota.tokens
    BY <1>1 DEF Charged
  <2>4. past' \in Past /\ past'.spent = Charged(pass) /\ past'.failing = FALSE
    BY <1>1, <2>2, <2>3 DEF Past
  <2> QED BY <2>1, <2>2, <2>3, <2>4, IdleInv
<1> QED BY <1>2, <1>3, <1>6, <1>7, <1>8, <1>9, <1>10, <1>11, <1>12, <1>13, <1>14, <1>15 DEF PassStep

LEMMA OwnStepInv ==
  ASSUME OwnInv, [Next]_vars
  PROVE  OwnInv'
<1>1. /\ quota \in Quota /\ past \in Past /\ past.spent \in Nat /\ pass.granted \in Nat
      /\ quota.tokens \in Nat /\ past.spent + pass.granted <= quota.tokens
      /\ past.failing => quota.recent
  BY FieldsTyped DEF OwnInv, OwnTypeOK, Past, SpentIsCounted, FailureIsNoted
<1>2. CASE NoHead
  <2>1. quota' \in Quota /\ quota'.tokens = quota.tokens /\ quota'.recent = quota.recent
    BY <1>1, <1>2, QuotaOperations DEF NoHead
  <2> QED BY <1>1, <1>2, <2>1, KeptTokensInv DEF NoHead
<1>3. ASSUME NEW u \in Usage, NEW n \in 0 .. MaxEligible, Begins(u, FALSE, n) PROVE OwnInv'
  BY <1>3, BeginsInv
<1>4. CASE Begins("safe", TRUE, 0)
  <2>1. "safe" \in Usage /\ TRUE \in BOOLEAN /\ 0 \in 0 .. MaxEligible
    BY DEF Usage
  <2> QED BY <1>4, <2>1, BeginsInv
<1>5. CASE PassStep
  BY <1>5, PassStepInv
<1>6. CASE Subagent
  BY <1>6, OwnInvKept DEF Subagent
<1>7. CASE Crashes
  <2>1. past.spent <= quota.tokens
    BY <1>1
  <2> QED BY <1>1, <1>7, <2>1, IdleInv DEF Crashes
<1>8. CASE WindowPasses
  <2>1. quota' \in Quota /\ quota'.tokens = quota.tokens /\ quota'.recent = quota.recent
    BY <1>1, <1>8, QuotaOperations DEF WindowPasses
  <2> QED BY <1>1, <1>8, <2>1, KeptTokensInv DEF WindowPasses
<1>9. CASE LatchAges
  <2>1. quota' \in Quota /\ quota'.tokens = quota.tokens /\ quota'.recent = quota.recent
    BY <1>1, <1>9, QuotaOperations DEF LatchAges
  <2> QED BY <1>1, <1>9, <2>1, KeptTokensInv DEF LatchAges
<1>10. CASE BackoffPasses
  <2>1. quota' \in Quota /\ quota'.tokens = quota.tokens
    BY <1>1, <1>10, QuotaOperations DEF BackoffPasses
  <2>2. past' \in Past /\ past'.spent = past.spent /\ past'.failing = FALSE
    BY <1>1, <1>10 DEF BackoffPasses, Past
  <2> QED BY <1>10, <2>1, <2>2, KeptTokensInv DEF BackoffPasses
<1>11. CASE UNCHANGED vars
  BY <1>11, OwnInvKept DEF vars
<1> QED BY <1>2, <1>3, <1>4, <1>5, <1>6, <1>7, <1>8, <1>9, <1>10, <1>11 DEF Next, Triggers

(* The call is a fresh one, dropped, left alone or one step of the runner. *)
LEMMA CallStepInv ==
  ASSUME CallInv, [Next]_vars
  PROVE  CallInv'
<1>1. ASSUME NEW ambiguous \in BOOLEAN, CallStarts(1, ambiguous) PROVE CallInv'
  BY <1>1, StartInv, FirstFormTyped DEF CallStarts, CallInv
<1>2. ASSUME NEW s, Attempts(s) PROVE CallInv'
  <2>1. PICK ambiguous \in BOOLEAN : call' = NewCall(1, FirstForm(ambiguous))
    BY <1>2 DEF Attempts
  <2> QED BY <1>2, <2>1, StartInv, FirstFormTyped DEF Attempts, CallInv
<1>3. ASSUME NEW invalid \in BOOLEAN, StageFails(NextStage(pass.stage, invalid)) PROVE CallInv'
  <2>1. CASE Attempts(NextStage(pass.stage, invalid))
    BY <2>1, <1>2
  <2>2. CASE call' = NoCall /\ UNCHANGED <<child, formCache>>
    BY <2>2, DroppedInv
  <2> QED BY <1>3, <2>1, <2>2 DEF StageFails
<1>4. CASE PassStep
  <2>1. CASE ChunkEmpty \/ ChunkInvalid \/ SkipsEditor \/ PublishSkipped \/ Publishes
    BY <2>1, UnchangedCallInv DEF ChunkEmpty, ChunkInvalid, SkipsEditor, PublishSkipped, Publishes
  <2>2. CASE ChunkRead
    BY <2>2, <1>1 DEF ChunkRead
  <2>3. CASE BackoffEnds
    BY <2>3, <1>1 DEF BackoffEnds
  <2>4. CASE TransientFailure
    BY <2>4, DroppedInv DEF TransientFailure
  <2>5. CASE OutputValid
    BY <2>5, DroppedInv DEF OutputValid
  <2>6. CASE AttemptFails
    BY <2>6, <1>3 DEF AttemptFails
  <2>7. CASE OutputInvalid
    BY <2>7, <1>3 DEF OutputInvalid
  <2>8. CASE Edits
    BY <2>8, <1>2 DEF Edits
  <2> QED BY <1>4, <2>1, <2>2, <2>3, <2>4, <2>5, <2>6, <2>7, <2>8 DEF PassStep
<1>5. CASE Subagent
  BY <1>5, SubagentStepInv DEF Subagent
<1>6. CASE Crashes
  BY <1>6, DroppedInv DEF Crashes
<1>7. CASE NoHead \/ WindowPasses \/ LatchAges \/ BackoffPasses
  BY <1>7, UnchangedCallInv DEF NoHead, WindowPasses, LatchAges, BackoffPasses
<1>8. ASSUME NEW u, NEW forced, NEW n, Begins(u, forced, n) PROVE CallInv'
  BY <1>8, UnchangedCallInv DEF Begins
<1>9. CASE UNCHANGED vars
  BY <1>9, UnchangedCallInv DEF vars
<1> QED BY <1>4, <1>5, <1>6, <1>7, <1>8, <1>9 DEF Next, Triggers

LEMMA InitInv ==
  ASSUME Init
  PROVE  PassInv
<1>1. CallInv
  BY CallInitInv DEF Init
<1>2. NoQuota \in Quota /\ NoQuota.tokens = 0
  BY DEF NoQuota, Quota
<1>3. NoPass.granted = 0 /\ NoPass.at = "idle" /\ NoPass.stage # Editor
  BY DEF NoPass, First, Editor
<1>4. OwnInv
  BY <1>2, <1>3, NoPassTyped DEF Init, OwnInv, OwnTypeOK, IdleHoldsNothing, SpentIsCounted,
     FailureIsNoted, DraftStands, EditorRefinesValidated
<1> QED BY <1>1, <1>4 DEF PassInv

(* The inductive invariant of the pass.                                    *)
THEOREM PassInvariant == Spec => []PassInv
<1>1. Init => PassInv
  BY InitInv
<1>2. PassInv /\ [Next]_vars => PassInv'
  BY OwnStepInv, CallStepInv DEF PassInv
<1> QED BY <1>1, <1>2, PTL DEF Spec

(* Quota, pass and call keep their types.                                  *)
THEOREM PassTypes == Spec => []PassTypeOK
<1>1. PassInv => PassTypeOK
  BY DEF PassInv, CallInv, OwnInv, OwnTypeOK, PassTypeOK
<1> QED BY <1>1, PassInvariant, PTL

(* Whatever the children of a call come to, it starts at most three        *)
(* children for each model of its chain, for a chain of any length.        *)
THEOREM RetriesBounded == Spec => []RetryTreeBounded
<1>1. ASSUME PassInv PROVE RetryTreeBounded
  <2>1. call.model \in Nat /\ call.models \in Nat /\ call.spawns \in Nat
    BY <1>1 DEF PassInv, CallInv, SubagentTypeOK, Call
  <2>2. call.model <= call.models /\ call.spawns <= Behind(call) + call.model
    BY <1>1 DEF PassInv, CallInv, SpawnsCounted
  <2>3. Behind(call) \in Nat /\ Behind(call) <= 2 * call.models
    BY <2>1 DEF Behind
  <2> QED BY <2>1, <2>2, <2>3 DEF RetryTreeBounded
<1> QED BY <1>1, PassInvariant, PTL

(* With any number of fallbacks and retries, the editor works on the text  *)
(* of the attempt that validated.                                          *)
THEOREM EditorGetsValidated == Spec => []EditorRefinesValidated
<1>1. PassInv => EditorRefinesValidated
  BY DEF PassInv, OwnInv
<1> QED BY <1>1, PassInvariant, PTL

(* For any budget and cap, a pass is granted only what the window has left *)
(* of its budget after what earlier passes have spent.                     *)
THEOREM BudgetKept == Spec => QuotaIsKept
<1> DEFINE A == \A u \in Usage, n \in 1..MaxEligible :
                  Begins(u, FALSE, n) /\ pass'.granted > 0 /\ ~pass'.bypassed
                    => past'.spent + pass'.granted <= Budget[u]
<1>1. ASSUME PassInv, [Next]_vars PROVE [A]_vars
  <2> SUFFICES ASSUME NEW u \in Usage, NEW n \in 1..MaxEligible,
                      Begins(u, FALSE, n), pass'.granted > 0, ~pass'.bypassed
               PROVE  past'.spent + pass'.granted <= Budget[u]
    OBVIOUS
  <2>1. OwnInv /\ n \in 0..MaxEligible /\ n \in Nat /\ Asks(FALSE, n)
    BY <1>1 DEF PassInv, Asks
  <2>2. /\ past'.spent = IF quota.over THEN 0 ELSE past.spent
        /\ pass'.granted = Granted(quota, u, n)
        /\ pass' = pass \/ ~Bypass(quota, u)
    <3>1. /\ past'.spent = IF Asks(FALSE, n) /\ quota.over THEN 0 ELSE past.spent
          /\ pass'.granted = Got(u, FALSE, n)
          /\ \/ Asks(FALSE, n) /\ Got(u, FALSE, n) = 0 /\ pass' = pass
             \/ ~pass'.bypassed => ~(Asks(FALSE, n) /\ Bypass(quota, u))
      BY <2>1, BeginsEffect
    <3> QED BY <2>1, <3>1 DEF Got
  <2>3. pass.granted = 0 /\ past.spent <= quota.tokens /\ quota \in Quota /\ past.spent \in Nat
    <3>1. pass.granted = 0
      BY <2>1 DEF OwnInv, IdleHoldsNothing, Begins
    <3> QED BY <2>1, <3>1, FieldsTyped DEF OwnInv, OwnTypeOK, SpentIsCounted
  <2>4. ~Bypass(quota, u)
    BY <2>2, <2>3
  <2>5. InWindow(quota) + Granted(quota, u, n) <= Budget[u] /\ Granted(quota, u, n) \in Nat
        /\ InWindow(quota) \in Nat
    BY <2>1, <2>2, <2>3, <2>4, GrantFits
  <2>6. past'.spent \in Nat /\ past'.spent <= InWindow(quota)
    BY <2>2, <2>3 DEF InWindow
  <2>7. Budget[u] \in Nat
    OBVIOUS
  <2> QED BY <2>2, <2>5, <2>6, <2>7
<1> QED BY <1>1, PassInvariant, PTL DEF Spec, QuotaIsKept

(* The latch lets no pass begin while the last failure is in its backoff.  *)
THEOREM BypassBacksOff == Spec => FailureBacksOff
<1>1. ASSUME PassInv, [Next]_vars, pass'.bypassed, ~pass.bypassed PROVE ~past.failing
  <2>0. OwnInv /\ pass \in Pass /\ NoPass.bypassed = FALSE
    BY <1>1 DEF PassInv, OwnInv, OwnTypeOK, NoPass
  <2>1. ASSUME NEW u \in Usage, NEW forced \in BOOLEAN, NEW n \in 0..MaxEligible,
               Begins(u, forced, n)
        PROVE  ~past.failing
    <3>1. Bypass(quota, u)
      <4>1. \/ pass' = pass
            \/ pass'.bypassed => Bypass(quota, u)
        BY <2>0, <2>1, BeginsEffect
      <4> QED BY <1>1, <4>1
    <3> QED BY <2>0, <3>1 DEF Bypass, OwnInv, FailureIsNoted
  <2>2. CASE PassStep
    <3>1. pass' = NoPass \/ pass'.bypassed = pass.bypassed
      BY <2>0, <2>2 DEF PassStep, ChunkEmpty, ChunkInvalid, ChunkRead, TransientFailure,
         BackoffEnds, AttemptFails, OutputInvalid, OutputValid, Edits, SkipsEditor,
         PublishSkipped, Publishes, StageFails, Attempts, EndsIncomplete, Pass
    <3> QED BY <1>1, <2>0, <3>1
  <2>3. CASE pass' = pass \/ pass' = NoPass
    BY <1>1, <2>0, <2>3
  <2>4. CASE Begins("safe", TRUE, 0)
    <3>1. "safe" \in Usage /\ TRUE \in BOOLEAN /\ 0 \in 0 .. MaxEligible
      BY DEF Usage
    <3> QED BY <2>1, <2>4, <3>1
  <2> QED BY <1>1, <2>1, <2>2, <2>3, <2>4 DEF Next, Triggers, NoHead, Subagent, Crashes,
             WindowPasses, LatchAges, BackoffPasses, vars, passVars
<1> QED BY <1>1, PassInvariant, PTL DEF Spec, FailureBacksOff
=============================================================================
