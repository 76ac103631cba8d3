------------------------------- MODULE ContextPass -------------------------------
(***************************************************************************)
(* The context event: before each request to the model the extension      *)
(* rewrites the session's messages (context-handler.ts).  A pass takes the *)
(* native context, cuts it at the history it has rendered, and prepends    *)
(* that history as a cached pair m[0], m[1] (inject-compartments-pi.ts).   *)
(* It must show every message once, and serve the same bytes as the pass   *)
(* before it unless it has a reason to break the provider's prompt cache.  *)
(*                                                                         *)
(* One process runs the passes of the session; its historian and its       *)
(* commands publish between them, or while a pass waits, and the historian *)
(* of another process publishes at any moment.  An ordinal stands for a    *)
(* stretch of messages, a compartment is the ordinal it ends at, and as    *)
(* compartments follow one another from the first message on, a set of     *)
(* them covers all messages up to its last.                                *)
(***************************************************************************)
EXTENDS Integers, FiniteSets, FiniteSetsExt

CONSTANTS MaxMessage,   \* bound: ordinals; the last stands for the protected tail
          MaxRare,      \* bound: recomps, changes of the model or the system prompt,
                        \* crashes, failures and departures, together
          Retries,      \* materializeM0PiWithRetry's maxRetries
          Sibling       \* another process publishes too

ASSUME ContextAssumption ==
  /\ MaxMessage \in Nat \ {0} /\ MaxRare \in Nat /\ Retries \in Nat \ {0}
  /\ Sibling \in BOOLEAN

VARIABLES
  prompt,   \* the model and the system prompt requests are made with
  cut,      \* the ordinal the native compaction entry cuts the context after
  comps,    \* the published compartments
  muts,     \* the maximal m0 mutation id
  queued,   \* drops are queued for messages 1..queued ...
  dropped,  \* ... and applied to messages 1..dropped
  cleared,  \* the reasoning watermark is past the session's first messages
  cache,    \* the cached m[0], m[1] and what they were rendered from
  pending,  \* the pending native compaction marker, 0 if none
  answered, \* a response is newer than the cached m[0]
  signals,  \* the four refresh signals of the process
  live,     \* liveModelBySession
  historian, \* inFlightHistorian
  recomp,   \* a recomp has promoted its compartments and not yet finished
  pass,     \* the pass under way
  sent,     \* history: what the last pass sent, until another pass may differ
  due,      \* history: something has happened that a fold is the answer to
  unbuilt,  \* history: the ordinal the history reached before a recomp shortened it
  mishaps

session  == <<prompt, cut>>
database == <<comps, muts, queued, dropped, cleared, cache, pending, answered>>
memory   == <<signals, live, historian, recomp>>
past     == <<sent, due, unbuilt>>
vars     == <<session, database, memory, pass, past, mishaps>>
-----------------------------------------------------------------------------
Ordinal == 0 .. MaxMessage
Prompt  == [model : 0 .. MaxRare, hash : 0 .. MaxRare]

(* historyRefreshSessions, pendingMaterializationSessions and the deferred *)
(* two, deferredHistoryRefreshSessions and deferredMaterializationSessions. *)
Deferred == {"deferred history", "deferred drops"}
Signal   == {"history", "flush"} \cup Deferred

(* The cached row: the pair, the boundary the context is cut at, and the   *)
(* markers a fold is decided by.                                           *)
Cache == [there : BOOLEAN, m0 : SUBSET Ordinal, m1 : SUBSET Ordinal,
          boundary : Ordinal, muts : 0 .. MaxRare, prompt : Prompt]

(* What a pass sends: the pair if the injection worked, the messages from  *)
(* "from" on, less what is dropped, with reasoning cleared, and with what  *)
(* failed heuristics have changed of them, though it is rolled back.       *)
View == [injected : BOOLEAN, fallback : BOOLEAN, m0 : SUBSET Ordinal,
         m1 : SUBSET Ordinal, muts : 0 .. MaxRare, from : 1 .. MaxMessage + 1,
         dropped : Ordinal, cleared : BOOLEAN, unsaved : BOOLEAN]

Pass == [at       : {"idle", "begun", "fold", "frozen", "fresh", "refresh", "replay",
                     "drain", "clear"},
         waits    : BOOLEAN,   \* the emergency block awaits the historian
         early    : Ordinal,   \* the cached boundary the messages were cut at first
         quiet    : BOOLEAN,   \* history: the pass had no reason to change anything
         busting  : BOOLEAN,   \* isCacheBusting
         applied  : BOOLEAN,   \* executedWorkThisPass
         consumes : BOOLEAN,   \* deferredHistoryRefresh
         eligible : BOOLEAN,   \* deferredHistoryDrainEligible, once injected
         used     : BOOLEAN,   \* deferredMaterializationConsumedThisPass
         snap     : SUBSET Ordinal, \* currentCompartments
         frozen   : SUBSET Ordinal, \* readFrozenM0InputsPi
         tries    : Nat,
         drift    : BOOLEAN,
         view     : View,
         coverage : Ordinal,   \* m1RenderedCoverage
         boundary : Ordinal,   \* renderedBoundary
         marker   : Ordinal]   \* the marker read by the drain

NoCache == [there |-> FALSE, m0 |-> {}, m1 |-> {}, boundary |-> 0, muts |-> 0,
            prompt |-> [model |-> 0, hash |-> 0]]

NoView == [injected |-> FALSE, fallback |-> FALSE, m0 |-> {}, m1 |-> {}, muts |-> 0,
           from |-> 1, dropped |-> 0, cleared |-> FALSE, unsaved |-> FALSE]

NoPass == [at |-> "idle", waits |-> FALSE, early |-> 0, quiet |-> FALSE, busting |-> FALSE,
           applied |-> FALSE, consumes |-> FALSE, eligible |-> FALSE, used |-> FALSE, snap |-> {},
           frozen |-> {}, tries |-> 0, drift |-> FALSE, view |-> NoView,
           coverage |-> 0, boundary |-> 0, marker |-> 0]

ContextTypeOK ==
  /\ prompt \in Prompt /\ cut \in Ordinal
  /\ comps \in SUBSET Ordinal /\ muts \in 0 .. MaxRare
  /\ queued \in Ordinal /\ dropped \in Ordinal /\ cleared \in BOOLEAN
  /\ cache \in Cache /\ pending \in Ordinal /\ answered \in BOOLEAN
  /\ signals \in SUBSET Signal  /\ live \in 0 .. MaxRare
  /\ historian \in BOOLEAN /\ recomp \in BOOLEAN
  /\ pass \in Pass /\ sent \in View /\ due \in BOOLEAN /\ unbuilt \in Ordinal
  /\ mishaps \in 0 .. MaxRare

(* The last ordinal a set of compartments covers.                          *)
End(cs) == Max(cs \cup {0})

(* The compartments with a sequence number from n on.                      *)
Beyond(cs, n) == { e \in cs : Cardinality({ d \in cs : d <= e }) > n }

Init ==
  /\ prompt = NoCache.prompt /\ cut = 0
  /\ comps = {} /\ muts = 0 /\ queued = 0 /\ dropped = 0 /\ cleared = FALSE
  /\ cache = NoCache /\ pending = 0 /\ answered = FALSE
  /\ signals = {} /\ live = 0 /\ historian = FALSE /\ recomp = FALSE
  /\ pass = NoPass /\ sent = NoView /\ due = TRUE /\ unbuilt = 0
  /\ mishaps = 0
-----------------------------------------------------------------------------
(* The session between passes.                                             *)

Idle == pass.at = "idle"

RareLeft == muts + prompt.model + prompt.hash + mishaps < MaxRare

(* While the emergency block waits the process does other work too.        *)
Waiting == pass.at = "begun" /\ pass.waits

Free == Idle \/ Waiting

Rearmed == IF pending = 0 THEN {} ELSE Deferred

(* The user's next turn.  before_agent_start arms the deferred signals     *)
(* again for a durable marker; a changed system prompt flushes everything. *)
Turn ==
  /\ Idle
  /\ \E changed \in BOOLEAN :
       /\ changed => RareLeft
       /\ prompt' = IF changed THEN [prompt EXCEPT !.hash = @ + 1] ELSE prompt
       /\ signals' = signals \cup Rearmed \cup (IF changed THEN {"history", "flush"} ELSE {})
       /\ due' = (due \/ changed)
  /\ UNCHANGED <<cut, database, live, historian, recomp, pass, sent, unbuilt, mishaps>>

(* The user chooses another model.                                         *)
SwitchModel ==
  /\ Idle
  /\ RareLeft
  /\ prompt' = [prompt EXCEPT !.model = @ + 1]
  /\ due' = TRUE
  /\ UNCHANGED <<cut, database, memory, pass, sent, unbuilt, mishaps>>

(* A response ends: last_response_time is now.                             *)
Answer ==
  /\ Idle
  /\ answered' = TRUE
  /\ due' = TRUE
  /\ UNCHANGED <<session, comps, muts, queued, dropped, cleared, cache, pending, memory,
                 pass, sent, unbuilt, mishaps>>

(* /ctx-flush applies the queued drops in the database itself.             *)
Flush ==
  /\ Free
  /\ dropped' = queued
  /\ signals' = signals \cup {"history", "flush"}
  /\ UNCHANGED <<session, comps, muts, queued, cleared, cache, pending, answered, live,
                 historian, recomp, pass, past, mishaps>>

(* The publication transaction: compartments, drops, and the native marker *)
(* if a message with an id of its own follows (findFirstKeptEntryId).      *)
Published ==
  /\ \E e \in End(comps) + 1 .. MaxMessage - 1, kept \in BOOLEAN :
       /\ comps' = comps \cup {e}
       /\ queued' = Max({queued, e})
       /\ pending' = IF kept THEN e ELSE pending
  /\ UNCHANGED <<muts, dropped, cleared, cache, answered>>

(* The historian of this process, and onPublished right after the commit.  *)
Publish ==
  /\ Free
  /\ historian /\ ~recomp
  /\ Published
  /\ signals' = signals \cup Deferred
  /\ historian' = FALSE
  /\ UNCHANGED <<session,  live, recomp, pass, past, mishaps>>

HistorianEnds ==
  /\ Free
  /\ historian
  /\ historian' = FALSE
  /\ UNCHANGED <<session, database, signals, live, recomp, pass, past, mishaps>>

(* A historian elsewhere: this process hears of it at its next turn.       *)
SiblingPublish ==
  /\ Sibling /\ ~recomp
  /\ Published
  /\ UNCHANGED <<session, memory, pass, past, mishaps>>

(* promoteRecompStagingWithM0Mutation replaces the compartments and clears *)
(* the cached pair.  The rebuilt history is taken as one compartment; a    *)
(* recomp that stops early promotes what it has, which may end sooner.     *)
RecompPromotes ==
  /\ Idle
  /\ RareLeft /\ ~historian /\ ~recomp /\ comps # {}
  /\ \E e \in 1 .. MaxMessage - 1 : comps' = {e}
  /\ muts' = muts + 1
  /\ cache' = NoCache
  /\ recomp' = TRUE
  /\ due' = TRUE
  /\ unbuilt' = IF End(comps') < End(comps) THEN Max({unbuilt, End(comps)}) ELSE unbuilt
  /\ UNCHANGED <<session, queued, dropped, cleared, pending, answered, signals, live,
                 historian, pass, sent, mishaps>>

(* Later the drops are queued, the marker is staged (stagePiRecompMarker)  *)
(* if a message can head the kept tail, and the passes are told.           *)
RecompFinishes ==
  /\ Free
  /\ recomp
  /\ queued' = Max({queued, End(comps)})
  /\ pending' \in {pending, End(comps)}
  /\ signals' = signals \cup Deferred
  /\ recomp' = FALSE
  /\ UNCHANGED <<session, comps, muts, dropped, cleared, cache, answered, live, historian,
                 pass, past, mishaps>>

(* A pass under way when the process leaves sends nothing to compare with; *)
(* nor does the last one once a flush, whose drops are in the database, is *)
(* no longer announced: the next pass shows them whatever it is.           *)
Forgotten == IF Idle /\ "flush" \notin signals THEN sent ELSE NoView

(* clearContextHandlerSession: another session becomes the active one.     *)
Leave ==
  /\ Idle
  /\ RareLeft /\ mishaps' = mishaps + 1
  /\ signals' = {} /\ live' = prompt.model
  /\ sent' = Forgotten
  /\ UNCHANGED <<session, database, historian, recomp, pass, due, unbuilt>>

(* The process ends and another one resumes the session: the deferred      *)
(* signals are armed from the durable marker, the model is the branch's.   *)
Crash ==
  /\ RareLeft /\ mishaps' = mishaps + 1
  /\ signals' = Rearmed /\ live' = prompt.model
  /\ historian' = FALSE /\ recomp' = FALSE
  /\ pass' = NoPass /\ sent' = Forgotten
  /\ UNCHANGED <<session, database, due, unbuilt>>
-----------------------------------------------------------------------------
(* The pass.  From the end of the wait to its return it does not await, so *)
(* only other processes come between its database transactions.            *)

\* Mutant: an expired cache is a reason to fold as long as it is expired.
FoldWhileExpired(expired) ==
  ~cache.there \/ cache.prompt # prompt \/ expired \/ cache.muts # muts

(* mustMaterializePi.  New compartments are not a reason to fold m[0].     *)
MustFold(expired) ==
  \/ ~cache.there
  \/ cache.prompt # prompt
  \/ expired /\ answered
  \/ cache.muts # muts

(* trimPiMessagesToCachedBoundary                                          *)
EarlyTrim == IF cache.there /\ cache.boundary \in comps THEN cache.boundary ELSE 0

\* Mutant: pressure is enough to execute in the middle of a turn.
AlwaysExecutes(now) == TRUE

(* applyMidTurnDeferral and detectMidTurnBypassReason                      *)
NotDeferred(now) ==
  \/ ~now.midTurn
  \/ now.usage = "force"
  \/ "history" \in signals

(* The start of the handler.  At 95% of the context, or with an emergency   *)
(* recovery armed, it waits for a historian in flight.  Another model than *)
(* the last pass's resets the reasoning watermark.                         *)
Begin(emergency) ==
  /\ Idle
  /\ pass' = [NoPass EXCEPT !.at = "begun", !.waits = emergency /\ historian,
                            !.early = EarlyTrim]
  /\ cleared' = (cleared /\ live = prompt.model)
  /\ live' = prompt.model
  /\ UNCHANGED <<session, comps, muts, queued, dropped, cache, pending, answered, signals,
                 historian, recomp, past, mishaps>>

(* Pressure is below the execute threshold, at it, or at 85% and more; the *)
(* provider's cache has expired or not; a turn is in the middle or not, and *)
(* heuristics have run in it or not (lastHeuristicsTurnIdBySession).  The   *)
(* last two are asked only of a pass that they can hold back.              *)
Situation ==
  { now \in [usage : {"low", "execute", "force"}, expired : BOOLEAN,
             midTurn : BOOLEAN, first : BOOLEAN] :
      /\ now.usage = "force" => ~now.midTurn /\ now.first
      /\ now.usage = "low" /\ ~now.expired => ~now.midTurn /\ now.first }

(* findCompartmentBoundaryForSnapshot: none while m[0] has no compartment. *)
BoundaryOf(c) == IF c.m0 = {} THEN 0 ELSE c.boundary

(* The view of a pair: the messages are cut at its boundary, too.          *)
Shown(p, c, fallback) ==
  [p.view EXCEPT !.injected = TRUE, !.fallback = fallback, !.m0 = c.m0, !.m1 = c.m1,
                 !.muts = c.muts, !.from = Max({cut, p.early, BoundaryOf(c)}) + 1]

(* The injection returns the pair c; a history refresh has had its effect. *)
(* renderedBoundary has an ordinal only if the snapshot knows it.          *)
Injects(p, c, fallback, coverage) ==
  /\ pass' = [p EXCEPT !.at = "drain", !.view = Shown(p, c, fallback), !.coverage = coverage,
                       !.boundary = BoundaryOf(c), !.frozen = {}, !.tries = 0, !.drift = FALSE,
                       !.busting = FALSE, !.consumes = FALSE]
  /\ signals' = IF p.busting THEN signals \ {"history"} ELSE signals

\* Mutant: m[1] is rendered again only when history was announced.
RefreshIfAnnounced(p) == p.busting \/ p.consumes

\* Mutant: m[1] is rendered again only for a refresh that was asked for.
RefreshIfBusting(p) == p.busting

(* recomputeM1ThisPass                                                     *)
Recomputes(p) == p.busting \/ p.consumes \/ p.applied

Forced(now) == now.usage = "force"

(* The scheduler's decision, after the mid-turn deferral.                  *)
Executes(now) == (now.usage # "low" \/ now.expired) /\ NotDeferred(now)

(* canConsumeDeferredLate                                                  *)
Consumes(now) == Executes(now) \/ Forced(now)

(* A historian in flight holds everything back that can be held back.      *)
NotVetoed(now) == ~historian \/ Forced(now) \/ MustFold(now.expired)

(* Reasons to change the context that are not the scheduler's.             *)
Asked(now) ==
  \/ Forced(now) \/ MustFold(now.expired)
  \/ "flush" \in signals
  \/ Consumes(now) /\ "deferred drops" \in signals

(* shouldApplyPendingOps                                                   *)
AppliesDrops(now) == NotVetoed(now) /\ (Executes(now) \/ Asked(now))

(* shouldRunHeuristics                                                     *)
RunsHeuristics(now) == NotVetoed(now) /\ ((Executes(now) /\ now.first) \/ Asked(now))

(* deferredMaterializationConsumedThisPass                                 *)
DropsConsumed(now, ok) ==
  /\ Consumes(now) /\ "deferred drops" \in signals
  /\ AppliesDrops(now)
  /\ RunsHeuristics(now) => ok

(* What may throw and be passed over: the heuristics, before they change   *)
(* a message or midway, when the transaction takes back the rows but not   *)
(* the messages; the reasoning clearing, which takes back both.            *)
Failure == {"nothing", "heuristics", "midway", "reasoning"}

(* The rest of the handler before the injection: what this pass may do to  *)
(* the context, the queued drops, the heuristics, and the reasoning        *)
(* clearing; the signals they were asked by are consumed when they worked. *)
(* Queued drops on the newest tags, which wait, are taken as applied.      *)
Decide(now, fails) ==
  LET consumes == Consumes(now) /\ "deferred history" \in signals
      busting  == "history" \in signals
      runs     == RunsHeuristics(now)
      ok       == runs /\ fails \notin {"heuristics", "midway"}
      used     == DropsConsumed(now, ok)
      p        == [NoPass EXCEPT
                    !.early = pass.early,
                    !.quiet = /\ ~Forced(now) /\ ~MustFold(now.expired)
                              /\ signals \cap {"history", "flush"} = {}
                              /\ now.midTurn \/ (now.usage = "low" /\ ~now.expired),
                    !.busting = busting,
                    !.applied = AppliesDrops(now),
                    !.consumes = consumes,
                    !.eligible = /\ AppliesDrops(now) /\ (busting \/ consumes)
                                 /\ signals \cap {"flush", "deferred history"} # {},
                    !.used = used,
                    !.snap = comps,
                    !.view = [NoView EXCEPT !.dropped = dropped', !.cleared = cleared',
                                              !.unsaved = (fails = "midway")]]
  IN /\ pass.at = "begun"
     /\ pass.waits => Forced(now)
     /\ fails # "nothing" => runs /\ RareLeft
     /\ mishaps' = IF fails = "nothing" THEN mishaps ELSE mishaps + 1
     /\ dropped' = IF AppliesDrops(now) THEN queued ELSE dropped
     /\ cleared' = (cleared \/ (runs /\ fails # "reasoning"))
     /\ signals' = signals \ ((IF ok THEN {"flush"} ELSE {})
                              \cup (IF used THEN {"deferred drops"} ELSE {}))
     /\ sent' = IF p.quiet THEN sent ELSE NoView
     /\ pass' = [p EXCEPT !.at = IF MustFold(now.expired) THEN "fold"
                                 ELSE IF Recomputes(p) THEN "refresh" ELSE "replay"]
     /\ UNCHANGED <<session, comps, muts, queued, cache, pending, answered, live, historian,
                    recomp, due, unbuilt>>

(* applyPendingOperations throws: Pi proceeds with its own messages.       *)
DropsFail ==
  /\ pass.at = "begun"
  /\ RareLeft /\ mishaps' = mishaps + 1
  /\ pass' = NoPass /\ sent' = NoView
  /\ UNCHANGED <<session, database, memory, due, unbuilt>>

(* replayCachedM1Pi                                                        *)
Replay ==
  /\ pass.at = "replay"
  /\ Injects(pass, cache, FALSE, 0)
  /\ UNCHANGED <<session, database, live, historian, recomp, past, mishaps>>

(* materializeM0Pi renders what it has read ...                            *)
Freeze ==
  /\ pass.at = "fold"
  /\ pass' = [pass EXCEPT !.at = "frozen", !.frozen = comps]
  /\ UNCHANGED <<session, database, memory, past, mishaps>>

\* Mutant: the mutation id the next recomp will have is cached.
NextMutation(frozen, now) ==
  [there |-> TRUE, m0 |-> frozen, m1 |-> Beyond(now, Cardinality(frozen)),
   boundary |-> End(frozen), muts |-> muts + 1, prompt |-> prompt]

(* The pair rendered from the compartments frozen in m[0] and those now.   *)
Rendered(frozen, now) ==
  [there |-> TRUE, m0 |-> frozen, m1 |-> Beyond(now, Cardinality(frozen)),
   boundary |-> End(frozen), muts |-> muts, prompt |-> prompt]

(* ... and persists it if nothing was published or replaced meanwhile.     *)
Stale == Cardinality(comps) # Cardinality(pass.frozen)

Persist ==
  /\ pass.at = "frozen"
  /\ ~Stale
  /\ cache' = Rendered(pass.frozen, comps)
  /\ answered' = FALSE /\ due' = FALSE
  /\ Injects(pass, cache', FALSE, 0)
  /\ UNCHANGED <<session, comps, muts, queued, dropped, cleared, pending, live, historian,
                 recomp, sent, unbuilt, mishaps>>

RetryFold ==
  /\ pass.at = "frozen"
  /\ Stale
  /\ pass.tries + 1 < Retries
  /\ pass' = [pass EXCEPT !.at = "fold", !.tries = @ + 1]
  /\ UNCHANGED <<session, database, memory, past, mishaps>>

(* The retries are exhausted.  A drift fold keeps the pair it was to fold; *)
(* else the cached pair serves, or one is rendered for this pass only.     *)
Contention ==
  /\ pass.at = "frozen"
  /\ Stale
  /\ pass.tries + 1 = Retries
  /\ \/ /\ pass.drift
        /\ Injects(pass, cache, FALSE, pass.coverage)
     \/ /\ ~pass.drift /\ cache.there
        /\ Injects(pass, cache, TRUE, 0)
     \/ /\ ~pass.drift /\ ~cache.there
        /\ pass' = [pass EXCEPT !.at = "fresh", !.frozen = comps]
        /\ UNCHANGED signals
  /\ UNCHANGED <<session, database, live, historian, recomp, past, mishaps>>

(* renderFreshM0PiNonPersisted, and m[1] from the compartments there are   *)
(* by then.                                                                *)
RenderFresh ==
  /\ pass.at = "fresh"
  /\ Injects(pass, Rendered(pass.frozen, comps), TRUE, 0)
  /\ UNCHANGED <<session, database, live, historian, recomp, past, mishaps>>

\* Mutant: the boundary moves to the last compartment there is by now.
LiveBoundary(c, snap) == [c EXCEPT !.m1 = Beyond(snap, Cardinality(c.m0)),
                                   !.boundary = IF comps = {} THEN @ ELSE End(comps)]

\* Mutant: the boundary stays where m[0] ends.
StillBoundary(c, snap) == [c EXCEPT !.m1 = Beyond(snap, Cardinality(c.m0))]

(* What softRefreshCachedM1Pi persists: m[1] with the compartments of the  *)
(* snapshot that m[0] lacks, and the boundary after the last of them.      *)
Refreshed(c, snap) ==
  [c EXCEPT !.m1 = Beyond(snap, Cardinality(c.m0)),
            !.boundary = IF snap = {} THEN @ ELSE End(snap)]

(* m[1] is rendered again; when it has grown too large beside m[0] the     *)
(* pair is folded (drift).                                                 *)
SoftRefresh(drift) ==
  LET c == Refreshed(cache, pass.snap)
      coverage == IF c.m1 = {} THEN 0 ELSE End(c.m1)
  IN /\ pass.at = "refresh"
     /\ cache' = c
     /\ IF drift
        THEN /\ c.m1 # {}
             /\ pass' = [pass EXCEPT !.at = "fold", !.drift = TRUE, !.coverage = coverage]
             /\ UNCHANGED signals
        ELSE Injects(pass, c, FALSE, coverage)
     /\ UNCHANGED <<session, comps, muts, queued, dropped, cleared, pending, answered, live,
                    historian, recomp, past, mishaps>>

(* The injection throws: the pass goes on without history.                 *)
InjectionFails ==
  /\ pass.at \in {"fold", "frozen", "refresh", "replay"}
  /\ RareLeft /\ mishaps' = mishaps + 1
  /\ pass' = [pass EXCEPT !.at = "drain", !.coverage = 0,
                          !.view.from = Max({cut, pass.early}) + 1]
  /\ UNCHANGED <<session, database, memory, past>>
-----------------------------------------------------------------------------
(* The drain of the native marker, and the return.                         *)

(* After the pipeline a historian may be started (maybeFireHistorian).     *)
Sends ==
  /\ sent' = pass.view
  /\ pass' = NoPass
  /\ historian' \in {historian} \cup (IF recomp THEN {} ELSE {TRUE})

\* Mutant: compartments rendered into m[1] count without the m[0] boundary's check.
AnyCovered(p) == p.view.injected

\* Mutant: what m[1] covers does not count.
BaselineCovered(p) ==
  /\ p.view.injected /\ ~p.view.fallback
  /\ pending = p.boundary \/ (p.boundary \in p.snap /\ pending <= p.boundary)

(* pendingPiMarkerCoveredByRenderedBoundary                                *)
Covered(p) ==
  /\ p.view.injected /\ ~p.view.fallback
  /\ \/ pending = p.boundary
     \/ p.boundary \in p.snap /\ pending <= p.boundary
     \/ pending <= p.coverage

(* deferredHistoryDrainEligible                                            *)
Eligible(p) == p.view.injected /\ p.eligible

(* Nothing to drain, or not by this pass: when the history that was        *)
(* announced has not been shown, the signal for its drops is armed again.  *)
ReturnUndrained ==
  /\ pass.at = "drain"
  /\ ~Eligible(pass) \/ pending = 0 \/ ~Covered(pass)
  /\ LET kept == pending # 0 \/ pass.view.fallback
     IN signals' = IF ~Eligible(pass) THEN signals
                   ELSE IF kept THEN signals \cup (IF pass.used THEN {"deferred drops"} ELSE {})
                   ELSE signals \ {"deferred history"}
  /\ Sends
  /\ UNCHANGED <<session, database, live, recomp, due, unbuilt, mishaps>>

(* applyDeferredPiCompactionMarker: a marker whose compartment is gone, or *)
(* whose cut has been made, is just cleared.                               *)
ApplyMarker ==
  /\ pass.at = "drain"
  /\ Eligible(pass) /\ pending # 0 /\ Covered(pass)
  /\ cut' = IF pending \in comps THEN Max({cut, pending}) ELSE cut
  /\ pass' = [pass EXCEPT !.at = "clear", !.marker = pending]
  /\ UNCHANGED <<prompt, database, memory, past, mishaps>>

(* appendCompaction returns no id: marker and signals stay.                *)
MarkerFails ==
  /\ pass.at = "drain"
  /\ Eligible(pass) /\ pending # 0 /\ Covered(pass)
  /\ RareLeft /\ mishaps' = mishaps + 1
  /\ Sends
  /\ UNCHANGED <<session, database, signals, live, recomp, due, unbuilt>>

\* Mutant: whatever marker is there is cleared.
ClearedAnyway(marker) == 0

(* clearPendingPiCompactionMarkerStateIf                                   *)
ClearedIf(marker) == IF pending = marker THEN 0 ELSE pending

ClearMarker ==
  /\ pass.at = "clear"
  /\ pending' = ClearedIf(pass.marker)
  /\ signals' = IF pending = pass.marker THEN signals \ {"deferred history"} ELSE signals
  /\ Sends
  /\ UNCHANGED <<session, comps, muts, queued, dropped, cleared, cache, answered, live,
                 recomp, due, unbuilt, mishaps>>


Next ==
  \/ Turn \/ SwitchModel \/ Answer \/ Flush
  \/ Publish \/ HistorianEnds \/ SiblingPublish \/ RecompPromotes \/ RecompFinishes
  \/ Leave \/ Crash
  \/ \E emergency \in BOOLEAN : Begin(emergency)
  \/ \E now \in Situation, fails \in Failure : Decide(now, fails)
  \/ DropsFail \/ Replay \/ Freeze \/ Persist \/ RetryFold \/ Contention \/ RenderFresh
  \/ \E drift \in BOOLEAN : SoftRefresh(drift)
  \/ InjectionFails \/ ReturnUndrained \/ ApplyMarker \/ MarkerFails \/ ClearMarker

Spec == Init /\ [][Next]_vars

Ordinary(usage) == [usage |-> usage, expired |-> FALSE, midTurn |-> FALSE, first |-> TRUE]

(* Pass after pass begins, and goes on, under whatever pressure.           *)
Onward ==
  \/ Begin(FALSE) \/ Decide(Ordinary("force"), "nothing")
  \/ Replay \/ Freeze \/ Persist \/ RetryFold \/ Contention \/ RenderFresh
  \/ SoftRefresh(FALSE)
  \/ ReturnUndrained \/ ApplyMarker \/ ClearMarker

(* A historian ends or publishes, or a recomp finishes, between passes if  *)
(* not during one.  The user goes on as well: turns begin again and again, *)
(* and at times a pass may execute with no historian at work.              *)
FairSpec ==
  /\ Spec
  /\ WF_vars(Onward) /\ SF_vars(HistorianEnds \/ RecompFinishes) /\ SF_vars(Turn)
  /\ SF_vars(~historian /\ Decide(Ordinary("execute"), "nothing"))
-----------------------------------------------------------------------------
(* Safety.                                                                 *)

(* What a pass has sent as the history.                                    *)
History(v) == v.m0 \cup v.m1

(* What has been cut off the messages is in the history sent with them:    *)
(* the two cached halves, the early trim, the boundary and the native cut  *)
(* agree, whatever was published, folded or lost in between.  A recomp     *)
(* that ended sooner than the history before it is the known exception.    *)
WholeContext ==
  sent.injected => sent.from - 1 <= Max({End(History(sent)), unbuilt})

(* The cached pair is always the history of some moment since the last     *)
(* recomp, and its boundary is where that history ends.                    *)
CacheCoherent ==
  cache.there => /\ History(cache) \subseteq comps
                 /\ cache.muts = muts
                 /\ cache.boundary = End(History(cache))

(* The native context is cut only by a pass that shows, from the database, *)
(* the history of everything it cuts off.                                  *)
CutWasShown ==
  [][cut' > cut => /\ pass.view.injected /\ ~pass.view.fallback
                   /\ cut' <= End(History(pass.view))]_vars

(* A pending native marker goes only when its cut has been made or its     *)
(* compartment is gone; one staged while another was applied stays.        *)
MarkerNotLost ==
  [][pending' # pending => \/ pending' > pending
                           \/ pending <= cut
                           \/ pending \notin comps]_vars

(* A pass returns.                                                         *)
Returns == pass.at \in {"drain", "clear"} /\ pass'.at = "idle" /\ mishaps' = mishaps

(* Drops of messages that are cut off anyway are not seen.                 *)
Bytes(v) == [v EXCEPT !.fallback = FALSE, !.dropped = IF @ < v.from THEN 0 ELSE @]

(* A pass that defers and has no reason to change anything sends what the  *)
(* pass before it sent, byte for byte: publications, of this or another    *)
(* process, restarts and a native cut in between do not break the          *)
(* provider's prompt cache.  Two kinds of pass before it are exempt, as    *)
(* the code breaks the cache after them: one that sent messages twice, and *)
(* one whose heuristics failed after they had changed the messages it went *)
(* on to send ("every mutation persists to the DB", heuristic-cleanup-pi). *)
QuietPassIsStable ==
  [][Returns /\ pass.quiet /\ pass.view.injected
       /\ sent.injected /\ sent.from > End(History(sent)) /\ ~sent.unsaved
     => Bytes(sent') = Bytes(sent)]_vars

(* m[0] is folded only when something that asks for a fold has happened    *)
(* since the last fold was persisted: a cause is consumed by its fold.     *)
FoldsAreCaused ==
  [][pass.at = "begun" /\ pass'.at = "fold" => due]_vars

(* A pass that drops messages from the context sends the history they are  *)
(* summarised in: whatever applies the queued drops renders their          *)
(* compartments, too.                                                      *)
AppliedDropsShown ==
  [][Returns /\ pass.applied /\ pass.view.injected /\ ~pass.view.fallback
     => pass.view.dropped <= Max({End(History(pass.view)), unbuilt})]_vars

(* The announcement of new history is withdrawn only by a pass that sends  *)
(* it: all of it, as far as this process has been told.                    *)
DrainedIsShown ==
  [][Returns /\ "deferred history" \in signals /\ "deferred history" \notin signals'
     => /\ pass.view.injected /\ ~pass.view.fallback
        /\ pass.snap \subseteq History(pass.view)]_vars

(* No message is sent twice, in the history and as itself: what is in the  *)
(* history is cut off the messages, or has been dropped from them.         *)
NothingTwice ==
  sent.injected /\ ~sent.fallback => End(History(sent)) <= Max({sent.from - 1, sent.dropped})
-----------------------------------------------------------------------------
(* Liveness.                                                               *)

(* A pending marker becomes the native cut, or its compartment is gone.    *)
MarkerDrains == []<>(pending = 0 \/ pending \notin comps)

(* Published history reaches the model: again and again a pass sends all   *)
(* of it.                                                                  *)
LatestShown == []<>(sent.injected /\ comps = History(sent))
=============================================================================
