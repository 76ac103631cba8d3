------------------------- MODULE HistorianPublication -------------------------
(***************************************************************************)
(* One session's history being compacted by several runs at once: the      *)
(* trigger-fired historian of every process that has the session open      *)
(* (maybeFireHistorian, spawnPiHistorianRun, runPiHistorian) and the       *)
(* /ctx-wrapup commands, which run the same historian in a loop            *)
(* (runPiWrapup).  They share the session's rows in the database and       *)
(* nothing else; every step below is a stretch of code without an await,   *)
(* or one database transaction, so other runs' steps fall between any two. *)
(*                                                                         *)
(* A message is its ordinal plus the branch it was written on: navigating  *)
(* the session tree cuts the branch and later messages carry a new number. *)
(* A compartment holds the range it covers and, for its summary, the       *)
(* messages the summary was written from.                                  *)
(***************************************************************************)
EXTENDS Integers, Sequences, FiniteSets

CONSTANTS Hist,         \* one trigger-fired historian per process
          Wrap,         \* /ctx-wrapup commands
          Orphan, NoHolder,
          InitialCount, \* messages of the session when the plugin first sees it
          MaxMessage,   \* bound: ordinals
          MaxEdits,     \* bound: tree navigations
          MaxCrashes,   \* bound: crashes
          Slack,        \* BOUNDARY_HEALING_SLACK
          Events        \* bound: what else happens to the session, out of AllEvents

Run == Hist \cup Wrap

AllEvents == {"overflow", "model change", "switch", "drain", "no entry"}

ASSUME RunAssumption ==
  /\ Hist \cap Wrap = {}
  /\ Orphan \notin Run /\ NoHolder \notin Run \cup {Orphan}
ASSUME BoundAssumption ==
  /\ MaxMessage \in Nat \ {0} /\ MaxEdits \in Nat /\ MaxCrashes \in Nat /\ Slack \in Nat
  /\ InitialCount \in 0 .. MaxMessage
  /\ Events \subseteq AllEvents

VARIABLES
  raw,          \* the session's branch: raw[i] is the branch number of message i
  edits, crashes,
  lease,        \* compartment_state_lease
  marker,       \* wrapup_in_progress_state: its holder, NoHolder once expired
  compartments, \* the published compartments, in sequence order
  dropped,      \* drops are queued for the tags of messages 1..dropped
  floor,        \* the protected-tail publication floor
  pending,      \* ordinal of the pending native compaction marker, 0 if none
  recovery,     \* needs_emergency_recovery
  failed,       \* historian_failure_count > 0
  inProgress,   \* compartment_in_progress
  fresh,        \* fresh[h]: the process of h has had no context pass yet
  pc,           \* where each run is
  snap,         \* snap[r]: its boundary snapshot
  seen,         \* seen[r]: the messages its process's raw provider serves
  text,         \* text[r]: the chunk it read, from ordinal snap[r].offset on
  out,          \* out[r]: the compartments it is about to publish
  loop          \* loop[w]: the state of the wrapup loop

database == <<lease, marker, compartments, dropped, floor, pending, recovery,
              failed, inProgress>>
branch   == <<raw, edits, crashes>>
locals   == <<fresh, pc, snap, seen, text, out, loop>>
vars     == <<database, branch, locals>>

CL == INSTANCE CompartmentLease
-----------------------------------------------------------------------------
Branch   == Seq(0 .. MaxEdits)
Ordinal  == 1 .. MaxMessage

Compartment == [first : Ordinal, last : Ordinal, of : Branch]
Snapshot    == [offset : Ordinal, end : Ordinal, ids : Branch]
LoopState   == [target : 0 .. MaxMessage, lastEnd : 0 .. MaxMessage, owned : BOOLEAN]

NoSnapshot == [offset |-> 1, end |-> 1, ids |-> <<>>]
NoLoop     == [target |-> 0, lastEnd |-> 0, owned |-> FALSE]

PC == {"idle", "fired", "leased", "run", "model", "publish", "published",
       "unpublished", "loop", "after", "wait"}

(* getLastCompartmentEndMessage, with 0 for the code's "no compartments"   *)
(* value of -1: it is read as max(1, end + 1) or compared with itself.     *)
End(cs) == IF cs = <<>> THEN 0 ELSE cs[Len(cs)].last

Offset == End(compartments) + 1

\* Mutant: no message is protected.
UnprotectedSnapshots(view, limit) ==
  { [offset |-> Offset, end |-> e, ids |-> view] : e \in Offset + 1 .. limit + 1 }

(* resolveProtectedTailBoundary and resolveWrapupProtectedTailBoundary     *)
(* take the messages offset .. end - 1, and always protect at least one    *)
(* message.  Where the tail starts depends on token counts, so any end is  *)
(* possible; hasRunnableCompartmentWindow demands a nonempty window.       *)
Snapshots(view, limit) ==
  { [offset |-> Offset, end |-> e, ids |-> view] : e \in Offset + 1 .. limit }

(* The messages validateBoundarySnapshot compares: the last one, the first *)
(* one and, by id and fingerprint, the window.                             *)
Checked(s) == { i \in {s.offset, Len(s.ids)} \cup (s.offset .. s.end - 1) :
                  i \in 1 .. Len(s.ids) }

\* Mutant: whether the last compartment moved is not checked.
MessagesValid(s, view) ==
  Len(s.ids) <= Len(view) /\ \A i \in Checked(s) : view[i] = s.ids[i]

\* Mutant: the messages themselves are not compared.
CountValid(s, view) == Len(s.ids) <= Len(view) /\ s.offset = Offset

SnapshotValid(s, view) ==
  /\ Len(s.ids) <= Len(view)
  /\ \A i \in Checked(s) : view[i] = s.ids[i]
  /\ s.offset = Offset

SamePrefix(a, b, n) ==
  /\ n <= Len(a) /\ n <= Len(b)
  /\ SubSeq(a, 1, n) = SubSeq(b, 1, n)

\* Mutant: the prefix ends one message early.
ShortSourceChanged(r) == r \in Wrap /\ ~SamePrefix(raw, seen[r], loop[r].target - 2)

(* runPiWrapup's provider serves the messages read at the start and throws *)
(* once the history before the target is not the one it started from.      *)
SourceChanged(r) == r \in Wrap /\ ~SamePrefix(raw, seen[r], loop[r].target - 1)
-----------------------------------------------------------------------------
Init ==
  /\ raw = [i \in 1 .. InitialCount |-> 0] /\ edits = 0 /\ crashes = 0
  /\ lease = CL!NoRow /\ marker = NoHolder
  /\ compartments = <<>> /\ dropped = 0 /\ floor = 1 /\ pending = 0
  /\ recovery = FALSE /\ failed = FALSE /\ inProgress = FALSE
  /\ fresh = [h \in Hist |-> TRUE]
  /\ pc = [r \in Run |-> "idle"]
  /\ snap = [r \in Run |-> NoSnapshot]
  /\ seen = [r \in Run |-> <<>>]
  /\ text = [r \in Run |-> <<>>]
  /\ out = [r \in Run |-> <<>>]
  /\ loop = [w \in Wrap |-> NoLoop]
-----------------------------------------------------------------------------
(* The user and the provider.                                              *)

(* The branch is in the memory of the processes whose runs these are, so   *)
(* it changes only while every run waits: for its model, or for the lease. *)
AllWait == \A r \in Run : pc[r] \in {"idle", "model", "wait"}

(* A turn adds a message to the branch.                                    *)
AppendMessage ==
  /\ Len(raw) < MaxMessage /\ AllWait
  /\ raw' = Append(raw, edits)
  /\ UNCHANGED <<edits, crashes, database, locals>>

(* The user navigates the tree to an earlier message.                      *)
NavigateTree ==
  /\ edits < MaxEdits /\ AllWait
  /\ edits' = edits + 1
  /\ \E k \in 0 .. Len(raw) - 1 : raw' = SubSeq(raw, 1, k)
  /\ UNCHANGED <<crashes, database, locals>>

(* message_end reports an overflow: recordOverflowDetected.                *)
Overflow ==
  /\ "overflow" \in Events
  /\ recovery' = TRUE
  /\ UNCHANGED <<lease, marker, compartments, dropped, floor, pending, failed,
                 inProgress, branch, locals>>

(* The context handler sees another model: its reset.                      *)
ModelChange ==
  /\ "model change" \in Events
  /\ recovery' = FALSE /\ failed' = FALSE
  /\ UNCHANGED <<lease, marker, compartments, dropped, floor, pending,
                 inProgress, branch, locals>>

(* The TTL of a row passes.  Its owner may be alive but suspended.         *)
LeaseExpires ==
  /\ lease.live
  /\ lease' = CL!Expired(lease)
  /\ UNCHANGED <<marker, compartments, dropped, floor, pending, recovery, failed,
                 inProgress, branch, locals>>

MarkerExpires ==
  /\ marker # NoHolder
  /\ marker' = NoHolder
  /\ UNCHANGED <<lease, compartments, dropped, floor, pending, recovery, failed,
                 inProgress, branch, locals>>
-----------------------------------------------------------------------------
(* Context passes: the trigger side of a process (maybeFireHistorian).     *)

(* A run starts with the boundary resolved in the pass, and reads messages *)
(* through the raw provider that pass registered: a copy of the branch.    *)
Spawn(h) ==
  /\ pc' = [pc EXCEPT ![h] = "fired"]
  /\ \E s \in Snapshots(raw, Len(raw)) : snap' = [snap EXCEPT ![h] = s]
  /\ seen' = [seen EXCEPT ![h] = raw]

(* The first context pass after a restart clears a stale in-progress flag  *)
(* and retries a failed historian; the trigger itself still looks at the   *)
(* flag as it was read before the clear.  A pass that spawns nothing may   *)
(* disarm recovery, as in DisarmRecovery.                                  *)
FirstPass(h) ==
  /\ fresh[h] /\ pc[h] = "idle" /\ marker = NoHolder
  /\ fresh' = [fresh EXCEPT ![h] = FALSE]
  /\ inProgress' = FALSE
  /\ \/ (failed \/ ~inProgress) /\ Spawn(h) /\ UNCHANGED recovery
     \/ recovery' \in {recovery, FALSE} /\ UNCHANGED <<pc, snap, seen>>
  /\ UNCHANGED <<lease, marker, compartments, dropped, floor, pending,
                 failed, branch, text, out, loop>>

(* maybeFireHistorian returns early, because a run is in flight, because   *)
(* /ctx-wrapup is active or because there is no usage yet.  The handler    *)
(* has already noted that the session had its first pass.                  *)
FirstPassSkipped(h) ==
  /\ fresh[h]
  /\ fresh' = [fresh EXCEPT ![h] = FALSE]
  /\ UNCHANGED <<database, branch, pc, snap, seen, text, out, loop>>

(* Any later pass whose trigger fires: checkCompartmentTrigger does not    *)
(* while the flag is set.                                                  *)
LaterPass(h) ==
  /\ ~fresh[h] /\ pc[h] = "idle" /\ marker = NoHolder /\ ~inProgress
  /\ Spawn(h)
  /\ UNCHANGED <<database, branch, fresh, text, out, loop>>

(* A pass disarms emergency recovery when the real pressure is low: either *)
(* no trigger fired and no window is runnable, or nothing lies beyond the  *)
(* last compartment.  Only the first looks at the wrapup marker.           *)
DisarmRecovery(h) ==
  /\ recovery /\ ~fresh[h] /\ pc[h] = "idle"
  /\ marker = NoHolder \/ Offset > Len(raw)
  /\ recovery' = FALSE
  /\ UNCHANGED <<lease, marker, compartments, dropped, floor, pending, failed,
                 inProgress, branch, locals>>

(* A pass while the run waits for its model replaces the raw provider.     *)
PassDuringRun(h) ==
  /\ pc[h] = "model"
  /\ seen[h] # raw \/ fresh[h]
  /\ seen' = [seen EXCEPT ![h] = raw]
  /\ fresh' = [fresh EXCEPT ![h] = FALSE]
  /\ UNCHANGED <<database, branch, pc, snap, text, out, loop>>

(* session_before_switch forgets the session's first pass and unregisters  *)
(* its provider; a run in flight goes on, and reads no messages from now.  *)
SwitchSession(h) ==
  /\ "switch" \in Events
  /\ pc[h] \in {"idle", "model"} /\ ~fresh[h]
  /\ fresh' = [fresh EXCEPT ![h] = TRUE]
  /\ seen' = [seen EXCEPT ![h] = <<>>]
  /\ UNCHANGED <<database, branch, pc, snap, text, out, loop>>

(* The deferred drain applies the pending compaction marker and clears it, *)
(* unless a newer publication replaced it (compare and clear).             *)
DrainMarker ==
  /\ "drain" \in Events
  /\ pending # 0
  /\ pending' = 0
  /\ UNCHANGED <<lease, marker, compartments, dropped, floor, recovery, failed,
                 inProgress, branch, locals>>
-----------------------------------------------------------------------------
(* spawnPiHistorianRun: the lease, then a second look at the marker.       *)

Forgotten(r) ==
  /\ snap' = [snap EXCEPT ![r] = NoSnapshot]
  /\ text' = [text EXCEPT ![r] = <<>>]
  /\ out' = [out EXCEPT ![r] = <<>>]

AcquireLease(h) ==
  /\ pc[h] = "fired"
  /\ IF CL!CanAcquire(lease, h)
       THEN /\ lease' = CL!Acquired(h)
            /\ pc' = [pc EXCEPT ![h] = "leased"]
            /\ UNCHANGED <<snap, seen, text, out>>
       ELSE /\ pc' = [pc EXCEPT ![h] = "idle"]
            /\ seen' = [seen EXCEPT ![h] = <<>>]
            /\ Forgotten(h)
            /\ UNCHANGED lease
  /\ UNCHANGED <<marker, compartments, dropped, floor, pending, recovery, failed,
                 inProgress, branch, fresh, loop>>

\* Mutant: no second look at the marker.
NoRecheckMarker(h) ==
  /\ pc[h] = "leased"
  /\ pc' = [pc EXCEPT ![h] = "run"]
  /\ UNCHANGED <<database, branch, fresh, snap, seen, text, out, loop>>

RecheckMarker(h) ==
  /\ pc[h] = "leased"
  /\ IF marker = NoHolder
       THEN /\ pc' = [pc EXCEPT ![h] = "run"]
            /\ UNCHANGED <<lease, snap, seen, text, out>>
       ELSE /\ lease' = CL!Released(lease, h)
            /\ pc' = [pc EXCEPT ![h] = "idle"]
            /\ seen' = [seen EXCEPT ![h] = <<>>]
            /\ Forgotten(h)
  /\ UNCHANGED <<marker, compartments, dropped, floor, pending, recovery, failed,
                 inProgress, branch, fresh, loop>>
-----------------------------------------------------------------------------
(* runPiHistorian, for a triggered run and for a wrapup chunk alike.       *)

WindowLimit(r) == IF r \in Wrap THEN loop[r].target ELSE Len(seen[r])

(* The snapshot is validated, and resolved once more if it is stale.       *)
UsableSnapshots(r) ==
  IF SnapshotValid(snap[r], seen[r]) THEN {snap[r]} ELSE Snapshots(seen[r], WindowLimit(r))

(* The run reads a chunk, as much of the window as its token budget takes, *)
(* and calls the model.                                                    *)
ReadChunk(r) ==
  /\ pc[r] = "run" /\ ~SourceChanged(r)
  /\ inProgress' = TRUE
  /\ \E s \in UsableSnapshots(r) : \E last \in s.offset .. s.end - 1 :
       /\ snap' = [snap EXCEPT ![r] = s]
       /\ text' = [text EXCEPT ![r] = SubSeq(seen[r], s.offset, last)]
  /\ pc' = [pc EXCEPT ![r] = "model"]
  /\ UNCHANGED <<lease, marker, compartments, dropped, floor, pending, recovery,
                 failed, branch, fresh, seen, out, loop>>

(* It returns before that: the snapshot is stale with nothing to replace   *)
(* it, the drain quota is used up, or the chunk is empty after filtering.  *)
(* In the last case recovery has nothing left to do at low pressure.       *)
NothingToRead(r) ==
  /\ pc[r] = "run" /\ ~SourceChanged(r)
  /\ inProgress' = TRUE
  /\ recovery' \in IF UsableSnapshots(r) # {} /\ marker = NoHolder
                     THEN {recovery, FALSE} ELSE {recovery}
  /\ pc' = [pc EXCEPT ![r] = "unpublished"]
  /\ UNCHANGED <<lease, marker, compartments, dropped, floor, pending, failed,
                 branch, fresh, snap, seen, text, out, loop>>

(* incrementHistorianFailure: the source is gone, the model and all its    *)
(* retries fail or answer nothing valid, or the process meets an error.    *)
Fails(r) ==
  /\ \/ pc[r] = "run" /\ SourceChanged(r) /\ inProgress' = TRUE
     \/ pc[r] = "model" /\ UNCHANGED inProgress
  /\ failed' = TRUE
  /\ pc' = [pc EXCEPT ![r] = "unpublished"]
  /\ UNCHANGED <<lease, marker, compartments, dropped, floor, pending, recovery,
                 branch, fresh, snap, seen, text, out, loop>>

(* The compartment for the messages i .. j of the chunk.                   *)
Summary(r, i, j) ==
  [first |-> snap[r].offset + i - 1,
   last  |-> snap[r].offset + j - 1,
   of    |-> SubSeq(text[r], i, j)]

(* Discard-last: the last of several compartments that reaches within      *)
(* Slack of the end of the chunk was cut without lookahead.  It is kept in *)
(* an emergency, and by a wrapup whose chunk ends its window.              *)
DiscardLast(r, k) ==
  /\ ~recovery
  /\ ~(r \in Wrap /\ snap[r].offset + Len(text[r]) = snap[r].end)
  /\ Len(text[r]) - k <= Slack

(* Valid output covers the chunk from its start, with up to two            *)
(* compartments here: 1 .. j, and j + 1 .. k if j < k.                     *)
Output(r, j, k) ==
  IF j = k \/ DiscardLast(r, k) THEN <<Summary(r, 1, j)>>
                                ELSE <<Summary(r, 1, j), Summary(r, j + 1, k)>>

(* The model answers, and the snapshot is checked again before publishing. *)
Answer(r) ==
  /\ pc[r] = "model" /\ ~SourceChanged(r)
  /\ IF SnapshotValid(snap[r], seen[r])
       THEN /\ \E j \in 1 .. Len(text[r]) : \E k \in j .. Len(text[r]) :
                 out' = [out EXCEPT ![r] = Output(r, j, k)]
            /\ pc' = [pc EXCEPT ![r] = "publish"]
       ELSE /\ pc' = [pc EXCEPT ![r] = "unpublished"]
            /\ UNCHANGED out
  /\ UNCHANGED <<database, branch, fresh, snap, seen, text, loop>>

\* Mutant: the transaction does not look at the lease.
UnguardedPublish(r) ==
  /\ pc[r] = "publish"
  /\ compartments' = compartments \o out[r]
  /\ dropped' = End(out[r])
  /\ floor' = IF floor < End(out[r]) + 1 THEN End(out[r]) + 1 ELSE floor
  /\ pc' = [pc EXCEPT ![r] = "published"]
  /\ UNCHANGED <<lease, marker, pending, recovery, failed, inProgress, branch, fresh,
                 snap, seen, text, out, loop>>

(* The publish transaction.  The native marker is queued only when a       *)
(* replay-safe entry heads the kept tail.                                  *)
Publish(r) ==
  /\ pc[r] = "publish"
  /\ IF CL!IsHeld(lease, r)
       THEN /\ compartments' = compartments \o out[r]
            /\ dropped' = End(out[r])
            /\ floor' = IF floor < End(out[r]) + 1 THEN End(out[r]) + 1 ELSE floor
            /\ \/ pending' = End(out[r])
               \/ "no entry" \in Events /\ UNCHANGED pending
            /\ failed' = FALSE
            /\ recovery' = (recovery /\ marker # NoHolder)
            /\ pc' = [pc EXCEPT ![r] = "published"]
       ELSE /\ pc' = [pc EXCEPT ![r] = "unpublished"]
            /\ UNCHANGED <<compartments, dropped, floor, pending, failed, recovery>>
  /\ UNCHANGED <<lease, marker, inProgress, branch, fresh, snap, seen, text, out, loop>>

\* Mutant: the flag is cleared on the published path only.
FinishKeepsFlag(r) ==
  /\ pc[r] \in {"published", "unpublished"}
  /\ inProgress' = (inProgress /\ pc[r] = "unpublished")
  /\ lease' = CL!Released(lease, r)
  /\ pc' = [pc EXCEPT ![r] = IF r \in Wrap THEN "after" ELSE "idle"]
  /\ UNCHANGED <<marker, compartments, dropped, floor, pending, recovery, failed, branch,
                 fresh, snap, seen, text, out, loop>>

(* onPublished (a triggered run disarms recovery there once more), the     *)
(* finally blocks, and the lease.                                          *)
Finish(r) ==
  /\ pc[r] \in {"published", "unpublished"}
  /\ recovery' = (recovery /\ ~(pc[r] = "published" /\ r \in Hist))
  /\ inProgress' = FALSE
  /\ lease' = CL!Released(lease, r)
  /\ pc' = [pc EXCEPT ![r] = IF r \in Wrap THEN "after" ELSE "idle"]
  /\ seen' = [seen EXCEPT ![r] = IF r \in Wrap THEN @ ELSE <<>>]
  /\ Forgotten(r)
  /\ UNCHANGED <<marker, compartments, dropped, floor, pending, failed, branch,
                 fresh, loop>>
-----------------------------------------------------------------------------
(* /ctx-wrapup (runPiWrapup).                                              *)

(* The command reads its source once, picks its target and, unless another *)
(* wrapup's marker is live, sets its own.                                  *)
WrapupStarts(w) ==
  /\ pc[w] = "idle" /\ marker = NoHolder
  /\ \E target \in Offset + 1 .. Len(raw) :
       loop' = [loop EXCEPT ![w] = [target |-> target, lastEnd |-> End(compartments),
                                    owned |-> FALSE]]
  /\ seen' = [seen EXCEPT ![w] = raw]
  /\ marker' = w
  /\ pc' = [pc EXCEPT ![w] = "loop"]
  /\ UNCHANGED <<lease, compartments, dropped, floor, pending, recovery, failed,
                 inProgress, branch, fresh, snap, text, out>>

\* Mutant: a chunk that published nothing counts as progress.
AnyProgress(w) == pc[w] = "after" /\ End(compartments) < loop[w].lastEnd

NoProgress(w) == pc[w] = "after" /\ End(compartments) <= loop[w].lastEnd

AtLoopTop(w) == pc[w] \in {"loop", "after"} /\ ~NoProgress(w) /\ marker = w

TargetReached(w) == Offset >= loop[w].target

(* releaseWrapupInProgress, in the command's finally.                      *)
WrapupEnds(w) ==
  /\ marker' = IF marker = w THEN NoHolder ELSE marker
  /\ pc' = [pc EXCEPT ![w] = "idle"]
  /\ loop' = [loop EXCEPT ![w] = NoLoop]
  /\ seen' = [seen EXCEPT ![w] = <<>>]
  /\ Forgotten(w)

(* The keep watermark is reached: recovery is disarmed.                    *)
WrapupCompletes(w) ==
  /\ AtLoopTop(w) /\ TargetReached(w)
  /\ recovery' = FALSE
  /\ WrapupEnds(w)
  /\ UNCHANGED <<lease, compartments, dropped, floor, pending, failed,
                 inProgress, branch, fresh>>

(* The next chunk is planned on the remaining window; the marker is        *)
(* renewed before and after.                                               *)
WrapupPlans(w) ==
  /\ AtLoopTop(w) /\ ~TargetReached(w) /\ ~SourceChanged(w)
  /\ \E s \in Snapshots(seen[w], loop[w].target) : snap' = [snap EXCEPT ![w] = s]
  /\ loop' = [loop EXCEPT ![w].lastEnd = End(compartments)]
  /\ pc' = [pc EXCEPT ![w] = "wait"]
  /\ UNCHANGED <<database, branch, fresh, seen, text, out>>

(* The loop ends early: the chunk brought no progress, the marker is       *)
(* somebody else's, or the provider throws.                                *)
WrapupStops(w) ==
  /\ pc[w] \in {"loop", "after"}
  /\ \/ NoProgress(w)
     \/ marker # w
     \/ ~TargetReached(w) /\ SourceChanged(w)
  /\ WrapupEnds(w)
  /\ UNCHANGED <<lease, compartments, dropped, floor, pending, recovery, failed,
                 inProgress, branch, fresh>>

(* acquireCompartmentLeaseEventually tries with a fresh holder id every    *)
(* second, and looks at the marker only after a try that failed.           *)
WrapupAcquires(w) ==
  /\ pc[w] = "wait" /\ CL!CanAcquire(lease, w)
  /\ lease' = CL!Acquired(w)
  /\ loop' = [loop EXCEPT ![w].owned = TRUE]
  /\ pc' = [pc EXCEPT ![w] = "run"]
  /\ UNCHANGED <<marker, compartments, dropped, floor, pending, recovery, failed,
                 inProgress, branch, fresh, snap, seen, text, out>>

(* The wait is over (at most ten minutes), or the marker was lost.         *)
WrapupGivesUp(w) ==
  /\ pc[w] = "wait"
  /\ WrapupEnds(w)
  /\ UNCHANGED <<lease, compartments, dropped, floor, pending, recovery, failed,
                 inProgress, branch, fresh>>
-----------------------------------------------------------------------------
(* The process of a run is killed.  Its rows stay, with an id that is      *)
(* nobody's; a process that has the session open starts again later.       *)
Crash(r) ==
  /\ crashes < MaxCrashes /\ (r \in Hist \/ pc[r] # "idle")
  /\ crashes' = crashes + 1
  /\ lease' = CL!Orphaned(lease, r)
  /\ marker' = IF marker = r THEN Orphan ELSE marker
  /\ fresh' = [h \in Hist |-> fresh[h] \/ h = r]
  /\ pc' = [pc EXCEPT ![r] = "idle"]
  /\ seen' = [seen EXCEPT ![r] = <<>>]
  /\ loop' = [w \in Wrap |-> IF w = r THEN NoLoop ELSE loop[w]]
  /\ Forgotten(r)
  /\ UNCHANGED <<raw, edits, compartments, dropped, floor, pending, recovery, failed,
                 inProgress>>

Pass(h) ==
  \/ FirstPass(h) \/ FirstPassSkipped(h) \/ LaterPass(h)
  \/ DisarmRecovery(h) \/ PassDuringRun(h) \/ SwitchSession(h)

Trigger(h) == AcquireLease(h) \/ RecheckMarker(h)

Historian(r) ==
  ReadChunk(r) \/ NothingToRead(r) \/ Fails(r) \/ Answer(r) \/ Publish(r) \/ Finish(r)

Wrapup(w) ==
  \/ WrapupCompletes(w) \/ WrapupPlans(w) \/ WrapupStops(w)
  \/ WrapupAcquires(w) \/ WrapupGivesUp(w)

Environment ==
  \/ AppendMessage \/ NavigateTree \/ Overflow \/ ModelChange
  \/ LeaseExpires \/ MarkerExpires \/ DrainMarker

Next ==
  \/ Environment
  \/ \E h \in Hist : Pass(h) \/ Trigger(h)
  \/ \E w \in Wrap : WrapupStarts(w) \/ Wrapup(w)
  \/ \E r \in Run : Historian(r) \/ Crash(r)

Spec == Init /\ [][Next]_vars

(* What is fair: a run's own steps (the model call has a timeout and a     *)
(* bounded number of retries), the TTL of a row nobody is left to renew,   *)
(* and, because a session in use has turns, its context passes.            *)
OrphanExpires ==
  \/ lease.holder = Orphan /\ LeaseExpires
  \/ marker = Orphan /\ MarkerExpires

Fairness ==
  /\ WF_vars(OrphanExpires)
  /\ \A h \in Hist : WF_vars(Trigger(h)) /\ WF_vars(FirstPass(h)) /\ WF_vars(LaterPass(h))
  /\ \A w \in Wrap : WF_vars(Wrapup(w))
  /\ \A r \in Run : WF_vars(Historian(r))

FairSpec == Spec /\ Fairness
-----------------------------------------------------------------------------
(* Properties.                                                             *)

(* Every variable has its type.                                            *)
TypeOK ==
  /\ raw \in Branch /\ Len(raw) <= MaxMessage
  /\ edits \in 0 .. MaxEdits /\ crashes \in 0 .. MaxCrashes
  /\ lease \in CL!LeaseRow
  /\ marker \in Wrap \cup {Orphan, NoHolder}
  /\ compartments \in Seq(Compartment)
  /\ dropped \in 0 .. MaxMessage /\ floor \in Ordinal
  /\ pending \in 0 .. MaxMessage
  /\ recovery \in BOOLEAN /\ failed \in BOOLEAN /\ inProgress \in BOOLEAN
  /\ fresh \in [Hist -> BOOLEAN]
  /\ pc \in [Run -> PC]
  /\ snap \in [Run -> Snapshot]
  /\ seen \in [Run -> Branch]
  /\ text \in [Run -> Branch]
  /\ out \in [Run -> Seq(Compartment)]
  /\ loop \in [Wrap -> LoopState]

(* What the compartments cover, as the abstract log sees it.               *)
Ranges(cs) == [i \in 1 .. Len(cs) |-> [first |-> cs[i].first, last |-> cs[i].last]]

HL == INSTANCE HistoryLog WITH log <- Ranges(compartments)

(* However runs, crashes and expiries interleave, the stored history is a  *)
(* log without gap or overlap that only grows, and the drop queue and the  *)
(* tail floor move with it in one step (the publish transaction).          *)
HistoryIsLog == HL!Spec

(* A run that is about to publish and still holds the lease continues the  *)
(* history as it is stored now: nobody published since its last recheck,   *)
(* although the lease may have expired meanwhile.                          *)
PublisherIsCurrent ==
  \A r \in Run :
    pc[r] = "publish" /\ CL!IsHeld(lease, r) => snap[r].offset = Offset

(* From the moment a wrapup has had the lease under a live marker of its   *)
(* own, no triggered historian works under the lease: one that wins it     *)
(* finds the marker before it starts (spawnPiHistorianRun's second look).  *)
WrapupOwnsPublication ==
  \A w \in Wrap : marker = w /\ loop[w].owned =>
    \A h \in Hist : CL!IsHeld(lease, h) => pc[h] = "leased"

PublishedBy(r) == pc[r] = "publish" /\ pc'[r] = "published"

NewCompartments == SubSeq(compartments', Len(compartments) + 1, Len(compartments'))

SummarisesFrom(cs, view) ==
  \A i \in 1 .. Len(cs) :
    /\ cs[i].last <= Len(view)
    /\ cs[i].of = SubSeq(view, cs[i].first, cs[i].last)

(* A wrapup publishes summaries only of messages that are on the branch at *)
(* that moment: navigating away while its model works makes its provider   *)
(* throw, however many messages the new branch has.                        *)
WrapupSummarisesBranch ==
  [][\A w \in Wrap : PublishedBy(w) => SummarisesFrom(NewCompartments, raw)]_vars

(* A triggered run publishes summaries only of messages its process still  *)
(* serves: the recheck catches every change a context pass has seen.       *)
HistorianSummarisesServed ==
  [][\A h \in Hist : PublishedBy(h) => SummarisesFrom(NewCompartments, seen[h])]_vars

(* What the recheck is there for: "The model call can outlive a branch     *)
(* edit or a competing publication.  Recheck immediately before            *)
(* publishing" (pi-historian-runner.ts).                                   *)
HistorianSummarisesBranch ==
  [][\A h \in Hist : PublishedBy(h) => SummarisesFrom(NewCompartments, raw)]_vars

(* "Normal runs also clear overflow recovery; wrapup keeps it armed until  *)
(* the loop reaches the keep watermark": a triggered run that ends under a *)
(* live wrapup marker leaves emergency recovery armed.                     *)
WrapupKeepsRecovery ==
  [][\A h \in Hist :
       pc[h] \in {"publish", "published"} /\ pc'[h] # pc[h] /\ marker \in Wrap
         => recovery' = recovery]_vars

(* Every /ctx-wrapup that starts comes to its end, whatever its chunks     *)
(* bring and whoever takes its marker or its lease.                        *)
WrapupTerminates == \A w \in Wrap : (pc[w] # "idle") ~> (pc[w] = "idle")

(* Without crashes no run leaves the flag behind that mutes the trigger,   *)
(* on whatever path it returns.                                            *)
TriggerNotMuted == []<>(~inProgress)

(* "a crashed wrapup self-expires instead of suppressing trigger-fired     *)
(* historian runs forever": some time after a wrapup crashed, nothing of   *)
(* it keeps the trigger from firing.                                       *)
CrashedWrapupReleasesTrigger ==
  (marker = Orphan) ~> (marker # Orphan /\ ~inProgress)
=============================================================================
