# Verification of Mini Magic Context

TLA+ models of the session-history compaction in this repository (the Pi extension in
`packages/pi-plugin` on the shared core in `packages/plugin`), TLC configurations that check
them, and TLAPS proofs. Paths below are relative to `src/packages/`; `plugin/` stands for
`plugin/src/` and `pi/` for `pi-plugin/src/`.

## The system

The extension keeps a long session within the model's context window. Old messages are
summarised by a *historian* (a child process that runs a model) into *compartments*; the
compartments stand in the prompt for the messages they cover, whose tags are queued to be
dropped. Everything shared lies in one SQLite database that several Pi processes open.

| component | state | operations | interacts with |
|---|---|---|---|
| compartment lease (`plugin/.../compartment-lease.ts`) | one row per session: holder id, expiry | acquire, renew, release, is-held | every writer of compartments |
| historian trigger (`pi/context-handler.ts`) | in-flight map, first-pass set, provider map (memory); in-progress flag, failure count, recovery flag (rows) | context pass, spawn, renewal timer, switch of session | lease, wrapup marker, historian |
| historian run (`pi/pi-historian-runner.ts`) | boundary snapshot, chunk, attempts | validate, read, call the model, retry/repair/fallback, recheck, publish | lease, drain quota, subagent runner, drop queue |
| `/ctx-wrapup` (`pi/commands/ctx-wrapup.ts`) | wrapup marker row, frozen source, target | mark, plan, wait for the lease, run a chunk, release | the same |
| recomp, partial recomp (`plugin/.../compartment-runner-*recomp.ts`) | staging rows, range row, active-run map | stage a pass, resume, promote, clear | lease, published history |
| published history (`plugin/.../compartment-storage.ts`) | compartments, sequence numbers | append, replace by staging | drop queue, injection, search |
| drain quota and recovery (`plugin/.../storage-meta-persisted.ts`) | reservation per window, backoff, latch, floor | reserve, roll back, record failure, exit | trigger, historian |
| protected-tail boundary (`plugin/.../protected-tail-boundary.ts`) | none (pure) | resolve, validate a snapshot | trigger, historian, wrapup |
| native compaction marker (`pi/compaction-marker-manager-pi.ts`) | pending-marker row | publish, drain, compare-and-clear | publication, context pass |
| tags and drops (`plugin/.../tagger.ts`, `storage-ops.ts`, `apply-operations.ts`) | tag rows, counters, pending operations | assign, adopt, queue, apply, emergency drop | context pass, publication |
| history injection (`pi/inject-compartments-pi.ts`) | cached m0 prefix, mutation log | render, reuse, invalidate | publication, drops |
| message index, search (`plugin/.../message-index*.ts`) | FTS rows, watermark, scheduled jobs | schedule, reconcile, delete | turns |
| embeddings (`plugin/.../project-embedding-registry.ts`) | registrations, generation, vectors | register, backfill, re-embed, release | publication, search |
| subagent runner (`pi/subagent-runner.ts`) | child process, timers | spawn, timeout, abort, settle | historian, recomp |
| clone, fail-closed guard, configuration, CLI | rows; none | copy; block; parse | |

Hard behaviours: runs of several processes interleave on the same rows, and a model call of
minutes lies between the snapshot a run takes and the transaction in which it publishes; leases
and markers expire under live but suspended owners; processes are killed between any two
steps; the user edits the branch while a model reads it; quotas, backoffs and latches meet at
window boundaries; staged work is resumed by a run that did not start it. `PROJECT.json`
lists them as hazards, each at its line.

What makes the components correct: only one run writes the history at a time, and it continues
the history that is there; history, drops and floor never disagree; a summary is of the
messages it replaces; flags that mute the trigger are cleared again; every command ends;
staged work that is promoted is what was validated; quota never goes negative or over its
bound; a tag number means one message; the cached prefix changes only when it may.

## Modules

| module | models | built on |
|---|---|---|
| `CompartmentLease` | the lease row and its operations (constant level) | |
| `HistoryLog` | the abstract promise: a log of ranges that covers 1..n, grows at its end, with drop queue and floor moving in the same step | |
| `HistorianPublication` | trigger, historian and wrapup on one session | `CompartmentLease`, implements `HistoryLog` |
| `StagedHistory` | the abstract promise of a rebuild: staged work only grows at its end, and takes the history's place, or is thrown away, whole | |
| `RecompStaging` | `/ctx-recomp`, full and partial, over the same lease and history | `CompartmentLease`, implements `StagedHistory` |
| `SubagentRun` | one call of the subagent runner: child, timers, retry tree | |
| `DrainQuota` | the throttle columns: window, latch, backoff (constant level) | |
| `HistorianPass` | one historian run after another: reservation, attempts, repair, fallback, editor, finally | `SubagentRun`, `DrainQuota` |
| `ContextPass` | the context event: early trim, drops, fold or refresh of the cached pair, cut, native marker | |
| `TagStore` | tag numbers of two processes: lookup, propose, insert, collision, reload | |
| `MC*` | the instances for TLC | |
| `HistorianPublicationProofs`, `HistorianSummaryProofs`, `RecompStagingProofs`, `HistorianPassProofs`, `ContextPassProofs`, `TagStoreProofs`, `TagOrderProofs` | the theorems | |
| `NumberLemmas` | the least and the greatest of a bounded set of numbers, for `ContextPass` and `TagStore` | |

`HistorianPublication` and `RecompStaging` instantiate the one `CompartmentLease`. Each has the
other's writers only as what they do to the shared rows: the lease is what keeps them apart.
In the same way the model call is one step in `HistorianPublication` and the whole of
`HistorianPass`, and a publication is one step in `ContextPass`. In the lease, time is one bit: the
renewal timer runs in the holder's event loop, so a holder that is suspended loses the TTL at
any moment. `isCompartmentLeaseHeld` does not read the expiry, and neither does `IsHeld`.

### HistorianPublication

A step is a stretch of code without an `await`, or one transaction; other runs' steps fall
between any two. `pc[r]` names the places where a run may be interrupted:

| pc | place in the code |
|---|---|
| `idle` | no run |
| `fired` | `spawnPiHistorianRun` before the lease |
| `leased` | lease acquired, marker not looked at again |
| `run` | before the snapshot is validated in `runPiHistorian` |
| `model` | awaiting the model and its retries |
| `publish` | answer validated and snapshot rechecked |
| `published`, `unpublished` | before `onPublished` and the finally blocks |
| `loop`, `after` | the wrapup loop before its first chunk, after a chunk |
| `wait` | `acquireCompartmentLeaseEventually` |

Database variables are rows (`lease`, `marker`, `compartments`, `dropped`, `floor`, `pending`,
`recovery`, `failed`, `inProgress`), `fresh` is the process's first-pass set, `seen` what the
run's raw provider serves, `snap`, `text`, `out` the run's snapshot, chunk and output, `loop` the
wrapup's target, last end and whether it has had the lease. A message is its ordinal and the
number of the branch it was written on; that is all that fingerprints and ids tell apart.

Choices that stand for data: where the protected tail starts (token counts), how far the chunk
reaches (token budget), how the model splits it into one or two compartments, whether the model
answers, whether the pass is under pressure. The code's conditions on them stay: a window is
nonempty, at least one message is protected, valid output covers the chunk from its start, and
the last compartment is discarded near the chunk's end unless the window is exhausted.

Two restrictions. The branch lives in the memory of the process whose runs these are, so it
changes only while runs wait for a model or a lease (`AllWait`): one process runs until it
awaits. And processes that hold different branches of one session at the same time are out of
scope; what is shared between processes here is the database.

### RecompStaging

A command reads a chunk, awaits the model, stages the pass, and goes on until its range is read;
then it saves all of its candidates once more and promotes: one transaction replaces the live
compartments by the staging rows. `pc[c]`:

| pc | place in the code |
|---|---|
| `idle` | no command |
| `leased` | lease acquired; the marker is looked at again, staging is examined |
| `seed`, `mark` | a fresh partial recomp before it stages the compartments before its range, before it writes the range row |
| `next` | head of the loop |
| `model` | awaiting the model for `job[c].chunk` |
| `save`, `promote` | validated; before the final `saveRecompStagingPass`, before the promotion |
| `promoted` | before the drops are queued or the range is cleared |
| `refused`, `end` | before the finally blocks |

`live`, `staging`, `range`, `lease` and `dropped` are rows; `job[c]` holds a command's locals. A
compartment is its range and the run that summarised it (`by`), which is what tells one
summary of a message from another. A staged row's pass number is reduced to whether it is past
0, the only thing the code asks of it. `Saved` replaces rows by sequence number and leaves those
past the candidates, as `INSERT OR REPLACE` does; `Promote` takes whatever is staged.

Choices that stand for data: where the protected tail starts, how far a chunk reaches, whether a
chunk can be represented, whether the model gives a valid answer, and one or two compartments
in it. The raw history does not change here (branch edits are `HistorianPublication`'s subject).
`HistorianPublishes` stands for every other publication under the lease. `LiveExpiry` says
whether a command's renewal may come too late; a crashed command's row always expires. The code
does not exclude a late renewal (a failed one is logged and the command goes on), so `LiveExpiry = FALSE`
is an assumption: what `recomp` checks and the theorems below say holds as long as renewals come
in time. `recomp_ousted` sets it to `TRUE`; the observations give a second consequence.

### HistorianPass, SubagentRun, DrainQuota

A pass is `runPiHistorian` seen from its attempts. `pass.at`:

| at | place in the code |
|---|---|
| `idle` | no run; triggers and time go on |
| `blank`, `reserved` | a head without tokens, a granted reservation, before the chunk is read |
| `attempt` | awaiting a call of the runner |
| `backoff` | the pause before a transient failure is tried again |
| `validated` | an output validated, before the editor |
| `publish` | before the publication and the finally block |

`pass.stage` is the attempt: first, repair, a fallback model, the editor. `call` and `child` are the
runner's: the place in the model chain, the provider form, whether extensions are disabled by the
isolated retry; what the child has said, and whether it has been told to stop. A run of a child
settles once, by spawn error, close, timeout or drain timer; its later events reach nobody, so
only the current child is state. The callers in this repository pass no abort signal.

`quota` is the row of `DrainQuota` with each time stamp reduced to what the code asks of it:
whether the window is over, the latch older than its backstop, the failure within its backoff.
Usage is one of four levels, `Cap` and `Budget` any functions of it. `past` is history: what
passes of the window have spent, whether one has failed since, whether usage is at the level
that holds the latch.

Choices that stand for data: how much of the tail is eligible, whether the chunk is empty or
represents its range, every event of a child, whether an output validates, whether `two_pass`
is set, whether the recheck and the transaction succeed.

### ContextPass

The handler runs without an `await` except for the emergency wait, so steps of its own process
come between passes or while `pass.waits`; another process's historian (`SiblingPublish`)
comes between any two of its database transactions, which is why the fold is `Freeze`,
`Persist` or `RetryFold` or `Contention`, and the marker `ApplyMarker`, `ClearMarker`. `pass.at`:

| at | place in the code |
|---|---|
| `begun` | after the early trim, before or in the emergency wait |
| `fold`, `frozen` | `materializeM0PiWithRetry`, before the freeze, after it |
| `fresh` | contention without a cached pair: rendered for this pass only |
| `refresh`, `replay` | `softRefreshCachedM1Pi`, `replayCachedM1Pi` |
| `drain`, `clear` | the deferred native marker, before the cut, before compare-and-clear |

An ordinal stands for a stretch of messages and a compartment for the ordinal it ends at; the last
ordinal is the protected tail, which no compartment reaches. `cache` is the persisted pair, its
boundary and its markers; `signals` the four refresh sets; `sent` what the last pass gave to the
model, forgotten when the next pass may differ for a reason; its `unsaved` says that a cleanup which threw
midway (`Failure`) had changed messages whose rows were then rolled back. Pressure, cache expiry and the place
in a turn are the choices `Situation` enumerates; the decisions made from them (mid-turn
deferral, historian veto, force, hard fold) are the code's. `MaxRare` is one budget for recomps,
changes of model or prompt, crashes, failures and departures.

### TagStore

`pass[p].at`: `load` (between the floor and the reload), `tag` (the walk), `propose`, `insert`,
`recheck` (after a collision): the statements of `assignTag` between which another connection
can commit. `changed` is SQLite's `data_version`. A part is a message text or a tool call: only
the second has a unique index besides the number's. `Recognises` are the processes whose driver
reports a collision with the code `isUniqueConstraintError` asks for.

## Runs

| run | instance | shows |
|---|---|---|
| `publication_race` | two triggered historians, one wrapup, three messages, one crash, overflows, changes of model | `TypeOK`, `PublisherIsCurrent`, `WrapupOwnsPublication`, and that the system implements `HistoryLog` |
| `branch_edits` | one historian, one wrapup, one tree navigation, session switches, marker drains, under `FairSpec` | a wrapup summarises the branch as it is, a triggered run what its provider serves; every wrapup ends, the in-progress flag never stays set |
| `frozen_view` | one historian, one navigation | violation: the recheck sees a frozen copy of the branch |
| `recovery_disarmed` | one historian, one wrapup, overflows | violation: a triggered run disarms recovery under a live wrapup |
| `crashed_wrapup` | one crash, under `FairSpec` | violation: the in-progress flag of a crashed wrapup mutes the trigger for good |
| `recomp` | two commands of any kind, historians between them, three messages, one crash, renewal in time, under `FairSpec` | the history stays contiguous, staged work survives a crash and is promoted as it was validated, every command ends, and the whole implements `StagedHistory` |
| `recomp_refused` | one command, one crash | violation: a partial recomp refused because a full one is staged deletes that staging |
| `recomp_ousted` | two commands, renewal may fail | violation: a recomp that lost its lease goes on staging over its successor's rows, and the promotion publishes a gap |
| `historian_pass` | passes of one token with one retry, one fallback, the editor; windows of one or two tokens; crashes anywhere; under `FairSpec` | at most three children a model, the editor refines what validated, the window's budget holds, a failing historian backs off, passes and latch end |
| `context_pass` | three ordinals, one rare event, a sibling historian, under `FairSpec` | the context is whole, the cache coherent and stable, folds have a cause, drops and the native cut come with their summary, markers and history are delivered |
| `repeated_context` | no rare event, no sibling | violation: the first compartment is sent beside its own messages |
| `tags` | two processes, one of them without collision codes, branches of three parts that differ in the last, one restart, moved head or refused write, under `FairSpec` | a number names one part, no process numbers a part twice, numbers follow the branch, the floor covers the wire, bindings converge, everything comes to be tagged |

Bounds. `MaxMessage = 3` gives histories of up to two compartments published by two different
runs with a protected message left, which is what a lost race needs: one run publishes, another
still holds a snapshot of the same offset. `MaxEdits = 1` and `MaxCrashes = 1` suffice because
each property compares a run with one event since its last check. `Slack = 0` makes both
outcomes of discard-last reachable with three messages. `Events` leaves out of a run the
events its properties do not depend on. The proofs have no bounds but those of the constants.
For `RecompStaging`, three messages give a partial recomp compartments before, in and after its
range, and two commands a successor that resumes what the first left; one crash is what it
takes to leave something.
For `HistorianPass`, a cap of one token and budgets of one (two at 95 percent) make a window that one
pass exhausts and that the latch exceeds; `MaxTokens = 2` is the bound that ends it. One retry, one
fallback and the editor give every order of attempts once; chains longer than one model are
left to the proofs.
For `ContextPass`, two publishable ordinals are a compartment in `m[0]` and one in `m[1]`, and
a publication between two steps of a fold; two retries are one retry and the contention fallback.
One rare event is what each property compares a pass with; two at once are not explored.
For `TagStore`, two processes race for a message and a tool call they share and differ in another message;
two retries are a collision and the loop that gives up.
Deadlock is not checked: a session in which nobody does anything any more, with its bounds
used up, is at rest.

Fairness (`FairSpec`), `HistorianPublication`: weak fairness of each run's own steps, because a
model call has a timeout and finitely many attempts (`historian_pass` shows that it ends) and
everything else is sequential code; of the expiry of a row whose owner is gone, because time passes;
of the context passes that fire, because a session in use has turns. Nothing is assumed of the
user, of crashes, or of the expiry of a live owner's row. `RecompStaging`: weak fairness of a
command's own steps; that it ends is not in the fairness, a failed pass must retry with less.
`HistorianPass`: weak fairness of the pass's own steps, of the runner's timers, of the spawn and of a
killed child's close, since SIGKILL follows; not of a child's answers or of its exit. Strong
fairness of triggered passes and of the window's end, as both meet passes under way again and
again; weak fairness of the latch's age. `ContextPass`: weak fairness of a pass's steps; strong
fairness of turns, of historians and recomps ending, and of an execute pass with no historian at
work: a session in use has idle moments. `TagStore`: weak fairness of tagging, strong fairness of
a turn between passes; none of restarts or of writes being refused.

## Proofs

`HistorianPublicationProofs` proves, for any sets of processes and wrapups and any bounds, from
`RunAssumption` (runs are distinct from each other and from the two marks) and
`BoundAssumption`:

* `TypeCorrect`. `TypeOK` is not inductive: what a run publishes is typed only if its chunk lies in
  its window, its window in the messages it was resolved on, and a wrapup's target in its source.
  `TypeInv` adds these (`ViewsBounded`, `TargetInView`, `WindowFits`, `ChunkFits`, `OutputFits`).
* `WrapupOwns`. Inductive given the types: a triggered run that holds the lease beside a wrapup
  that has had it must have acquired after, and so stands at `leased`.
* `PublisherCurrent`. Inductive given the types: the recheck establishes it, only a holder of the
  lease changes the history, and a run that loses the lease acquires it again only for a new
  snapshot check.
* `PublicationImplementsLog`. The refinement of `HistoryLog` under
  `log <- Ranges(compartments)`: a publication under the lease is one step of the log
  (`OutputIsPublish`, from `OutputFits` and `PublisherIsCurrent`), every other step stutters
  (`OthersStutter`), and the followers agree with the log (`FollowersAgree`).

`HistorianSummaryProofs` goes on from the types to what a summary is a summary of, although
minutes of model work lie between the messages a run reads and its publication, and the user may
edit the branch meanwhile. `SummaryInv` says, of every run, that its chunk is the stretch
of its snapshot that starts at the snapshot's offset, that a window of a wrapup ends at its target,
and that what is about to be published summarises what the run's provider serves and, in a wrapup,
the branch. The last part is claimed at `publish` only: while the model works the branch may change,
and the answer is taken only if every message up to the end of the window is still the one that
was read; the publication follows in the same turn of the event loop.

* `WrapupPublishesBranch`: the provider of a wrapup throws unless the branch still has its messages.
* `HistorianPublishesServed`: a triggered run is protected only as far as its process has seen.

`RecompStagingProofs` proves, for any commands and bounds, from `CmdAssumption` and
`RecompBoundAssumption`, that types are inductive as they stand (`RecompTypeCorrect`), and under
the further assumption `LiveExpiry = FALSE` (renewal in time), which the code does not guarantee
and `recomp_ousted` shows to be needed:

* `LiveIsContiguous`, `WorkStaged`, `PromotedValidated`. None of the properties is inductive:
  `RecompInv` adds that a command past acquisition has a live row of its own
  (`Exclusive`, so at most one works), that staging is exactly the candidates of the one at work
  and what it is about to promote is contiguous (`StagedInv`), and that a promoted history
  stands until its drops are queued (`PromotedInv`). A command's own steps keep the second
  (`StagedOwnStep`); everybody else's do by the first (`StagedStep`).
* `RecompImplementsStagedHistory`. The refinement of `StagedHistory` under `history <- live`,
  `staged <- StagedRows`. The code replaces staging rows by number, so that a pass appends is not
  in the statement it executes: it follows because the candidates of the command at work begin
  with what is staged, also between the promotion's validation and its save (`save` in `Staged`).
  A clean-up maps to `Abandon`, the one of `recomp_refused` too.

`HistorianPassProofs` proves, for any retries, fallbacks, chain lengths, caps and budgets, from the
assumptions of `DrainQuota` and `HistorianPass`, that `PassInv` is inductive (`PassInvariant`) and:

* `PassTypes`, `RetriesBounded`. `RetryTreeBounded` is not inductive: `SpawnsCounted` bounds the
  children so far by the models behind the call's place in its retry tree (`Behind`) and the
  one it is at.
* `EditorGetsValidated`. It needs that what is validated is its attempt's own draft until the
  editor is done.
* `BudgetKept`. What is spent in the window and what the pass holds never exceed the row's
  tokens while the window stands: then what is granted without the latch fits the budget,
  and no rollback takes from another pass's share.
* `BypassBacksOff`. A failure since the last backoff is recorded in the row.

`ContextPassProofs` proves, for any number of messages, mishaps and retries, with and without
another process, from `ContextAssumption`:

* `ContextTypes`; the types are inductive as they stand.
* `ContextIsWhole`, `CacheIsCoherent`, `CutsAreShown`, `MarkersAreKept`, `FoldsHaveCauses`, from
  `CtxInv` (`ContextInvariant`). Neither of the first two is inductive: a pass renders what it read
  some steps ago and compares counts, not contents. That suffices because everything rendered is
  an initial segment of the history (`Segment`, in `CacheInv` and `RenderInv`): then `m[1]`, chosen
  by sequence number, is exactly what `m[0]` lacks (`BeyondSegment`), an equal count means an equal
  set (`FrozenIsAll`), and publications keep segments (`SegmentKept`). `CutInv` says the native cut
  is within what the next pass can show at the least, so whatever it shows covers it; `ShownInv`
  that a pass past its injection shows what is cached, which makes a covered marker one whose
  history is shown (`CoveredIsShown`); `MarkerInv` that between the cut and the clearing
  compartments only come after the marker; `DueInv` that without a cause no fold is due.
* `DropsAreShown`, `DrainsAreShown`, from `DropsInv` on top of it (`DropsInvariant`): drops are
  queued for no message past the history, and a pass that applies them refreshes or folds.

* `QuietIsStable`, from `QuietInv` (`QuietInvariant`), which compares a pass with the one before it.
  Two kinds of pass are exempt as the one before: one that sent messages beside their summary
  (`repeated_context`), and one whose heuristic cleanup threw after it had changed messages
  (`unsaved`, see the observations). After either the next quiet pass does send other bytes.
  The property speaks of two passes with anything in between; the invariant says what is
  remembered of the first: as long as no decision but a quiet one has come since, what was sent last
  is what the row and the drops say (`LastInv`, `Serves`), or the cached pair is not of the prompt in
  use and the next pass folds. `ViewInv` says the same of a pass that has injected and not yet
  sent, with the cut: a replay cuts at the native cut, at the early trim or at the boundary, and
  none is past the row's (`TrimIsBoundary`, `InjectedServes`). `ReasonInv` says a pass that
  has decided quietly is still on the row it was decided on, and `PromptInv` that a change of model
  this process has not noticed is one the cached pair is not of: what resets the reasoning
  watermark also folds.

`TagStoreProofs` proves, for any processes, branches, drivers and retries, from `TagAssumption`, that
`TagInv` is inductive (`TagInvariant`), and from it `TagTypes` and `NumbersNameOne`. It adds
that the wire lies on the branch (`WireOnBranch`), so that the part a
pass is at exists; that the stored counter bounds the numbers of the table (`NumbersCounted`), so
that the least and greatest number exist; and that a pass past its look-up stands at a part and
inserts no zero (`Poised`). `RowsStayFew` is not inductive: two processes look a message up, find no row
and both insert one. `RowsInv` counts, beside the rows of a part, the processes that are past
their look-up of it and have still to insert (`Pending`): an insert takes its process out of them,
and nobody joins once there is a row, so the sum never exceeds the number of processes.

`TagOrderProofs` proves `NumbersFollow` and `FloorCovers`, from `TagAssumption` and
`TreeAssumption`: branches are paths of one tree, so a part has one place and the same parts before
it on every branch that has it (`getBranch` returns the path from the root to a leaf, and entry ids
are unique in a session). Without it two branches could order two parts differently and no
numbering would follow both. `OrderInv` adds that a part is numbered only when all before it are
(`PrefixTagged`, `HeadTagged`); that a number about to be inserted is above those before it although
other processes have written since it was proposed (`NextAbove`: they can only have numbered parts
from there on, and a number already taken is refused); and that a floor that was read is below the
number of every message of the wire, also of one that another process numbers between the
reading and the load (`FloorRead`, `PoisedFloor`).

`SummaryInv`, `CtxInv`, `DropsInv`, `QuietInv`, `TagInv`, `RowsInv` and `OrderInv` were model-checked before
they were proved, `QuietInv` with two rare events.

So every invariant and every action property of the passing runs is proved. Model-checked only is
liveness (`WrapupTerminates`, `TriggerNotMuted`, `RecompEnds`, `PassEnds`, `LatchEnds`,
`MarkerDrains`, `LatestShown`, `BindingsConverge`, `WireIsTagged`), which under fairness is out of
the prover's reach. The properties of the runs that expect a violation do not hold of the code.
Nothing proved here is about a recursive definition.

## Observations

Read in the code while modelling; no run of their own.

* `isUniqueConstraintError` (`plugin/.../tagger.ts:345-351`) asks for bun's `SQLITE_CONSTRAINT_UNIQUE`;
  `node:sqlite` reports another code, so under it a collision ends the pass, the messages go out
  untouched and the next pass goes on. The constant `Recognises`; `WireIsTagged` holds with it.
* Two processes can insert two rows for one message (no unique index covers message tags). The
  binding moves to the higher at the next reload; a drop recorded under the lower is then lost on
  that process. `BindingsConverge` holds.
* Nested `setRawMessageProvider` registrations (historian, `/ctx-wrapup`, recomp, ctx-expand) unregister
  to no provider, not to the context pass's, until the next context pass.
* After a partial recomp that stopped early and staged no marker, an older pending marker past the
  new end is never covered by a rendered boundary (exempt in `MarkerDrains`), and the messages
  between are in neither the history nor the context (`unbuilt`), although README.md:14 of the
  repository says the context is never lost.
* A crash between the application of drops and the refresh of `m[1]` leaves dropped messages
  without a summary until the next recompute (`Forgotten`).
* `findLastModelKeyFromBranch` (`pi/read-session-pi.ts:262-301`) seeds the live model from the last
  `model_change` entry: a switch followed by a restart before any pass does not reset the
  reasoning watermark.
* Heuristic cleanup (`pi/context-handler.ts:3900-3958`) changes its targets in memory inside a
  transaction; when that throws midway the rows roll back, the pass goes on with the changed targets, and
  the next quiet pass sends them whole again, although `heuristic-cleanup-pi.ts:8-12` says every
  mutation persists and bytes "stay stable across passes". The model has it (`Decide` with `midway`
  sets `unsaved` in what is sent) and `QuietPassIsStable` exempts it; without the conjunct
  `~sent.unsaved` TLC finds the property violated: a folding pass, a pass whose cleanup throws, a
  quiet replay. The reasoning clearing after it (4002-4048) does roll back.
* A full recomp awaits its promotion (`compartment-runner-recomp.ts:258-270`) and queues its drops
  afterwards (491) without a look at the lease. With `LiveExpiry = TRUE` the statement that drops
  are queued only for messages a compartment covers is violated: one command promotes 1..2 and
  loses its lease, another acquires it, stops short and promotes 1..1, and the first then queues
  drops up to 2, which no summary stands for. `compartment-runner.ts:101` says "A missed renewal is
  safe because the compartment lease has a five-minute TTL."; the window is shorter than that of
  `recomp_ousted`, which refutes the same sentence. With renewal in time nobody can come between.
* The message index: a `SQLITE_BUSY` in `markMessageIndexDirty` for an ordinal below the watermark leaves
  no dirty floor, so no reconciliation repairs that row, while `message-index-async.ts:20-21` calls any
  such conflict recoverable; and no Pi handler calls `scheduleClearAndReindex`, so after a tree
  navigation rows of the abandoned branch stay.

## Plan

Done: publication, recomp, the historian pass with its runner and quota, the context pass with its
cache and markers, tag numbers, the theorems about all their safety properties, and the two
refinements. Left, in this order:

1. `MessageIndex`: rows, watermark and dirty floor against jobs that run later on another branch.
2. The range row that a full recomp leaves behind when it has resumed a partial one's staging:
   whose rows a later partial recomp then resumes, and what becomes of the compartments before its
   range (`StagedHistory` lets a rebuild change them).
3. An abstract specification of `TagStore`: a table in which numbers are only added, along a tree.

## Not modelled

* Message index and embeddings: background work that only searches read.
* Session clone: one transaction into a session without rows. Fail-closed guard: a condition
  without state.
* Configuration, CLI, search and expand tools, rendering and formatting: sequential code without
  shared state that unit tests reach.
* The OpenCode entry points of the incremental runner have no caller in this repository; the Pi
  runner with the same protocol is modelled. The same holds for OpenCode's tagging walk.
* In the context pass: what a drop does to a message's text, size and age reclaim, placeholders,
  images, decayed rendering of old compartments, project memory and its epochs, the passes of a
  second process, and branch edits. In tagging: texts that drift under one id, and token accounting.
* A context pass during a wrapup replaces the wrapup's provider in the shared map until the chunk
  ends; each run has its own view here.
* Processes that hold different branches of one session, but for tagging.

