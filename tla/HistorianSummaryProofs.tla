------------------------ MODULE HistorianSummaryProofs ------------------------
(***************************************************************************)
(* What the published summaries are summaries of: proofs of the two action *)
(* properties of HistorianPublication that relate what a run publishes to  *)
(* the messages it was given before its model worked.                      *)
(***************************************************************************)
EXTENDS HistorianPublicationProofs

(* The chunk a run sends to its model is the stretch of its snapshot that  *)
(* starts at the snapshot's offset: whether the snapshot was still valid   *)
(* when the chunk was read, or resolved anew from the same messages.       *)
ChunkFollowsSnapshot(r) ==
  pc[r] = "model" =>
    /\ snap[r].end <= Len(snap[r].ids)
    /\ \A i \in 1 .. Len(text[r]) : text[r][i] = snap[r].ids[snap[r].offset + i - 1]

(* What a run is about to publish summarises messages its provider serves. *)
OutputServed(r) == pc[r] = "publish" => SummarisesFrom(out[r], seen[r])

(* The window of a wrapup ends at its target; what it is about to publish  *)
(* summarises messages of the branch.                                      *)
WindowInTarget(w) == pc[w] \in {"wait", "run", "model"} => snap[w].end <= loop[w].target

OutputOnBranch(w) == pc[w] = "publish" => SummarisesFrom(out[w], raw)

RunSummaries(r) ==
  /\ ChunkFollowsSnapshot(r) /\ OutputServed(r)
  /\ r \in Wrap => WindowInTarget(r) /\ OutputOnBranch(r)

SummaryInv == \A r \in Run : RunSummaries(r)

(* A step of one run leaves the branch and every other run's locals.       *)
OthersKept(q) ==
  /\ raw' = raw
  /\ \A r \in Run \ {q} :
       /\ pc'[r] = pc[r] /\ snap'[r] = snap[r] /\ seen'[r] = seen[r]
       /\ text'[r] = text[r] /\ out'[r] = out[r]
       /\ r \in Wrap => loop'[r] = loop[r]

LEMMA OthersKeptStep ==
  ASSUME TypeOK, NEW q \in Run,
         \/ q \in Hist /\ (Pass(q) \/ Trigger(q))
         \/ q \in Wrap /\ (WrapupStarts(q) \/ Wrapup(q))
         \/ Historian(q) \/ Crash(q)
  PROVE  OthersKept(q)
<1>1. CASE Pass(q)
  BY <1>1 DEF Pass, FirstPass, FirstPassSkipped, LaterPass, DisarmRecovery, PassDuringRun,
     SwitchSession, Spawn, OthersKept, TypeOK, branch, locals
<1>2. CASE Trigger(q)
  BY <1>2 DEF Trigger, AcquireLease, RecheckMarker, Forgotten, OthersKept, TypeOK, branch
<1>3. CASE q \in Wrap /\ (WrapupStarts(q) \/ Wrapup(q))
  BY <1>3 DEF WrapupStarts, Wrapup, WrapupCompletes, WrapupPlans, WrapupStops, WrapupAcquires,
     WrapupGivesUp, WrapupEnds, Forgotten, OthersKept, TypeOK, branch
<1>4. CASE Historian(q)
  BY <1>4 DEF Historian, ReadChunk, NothingToRead, Fails, Answer, Publish, Finish, Forgotten,
     OthersKept, TypeOK, branch
<1>5. CASE Crash(q)
  BY <1>5 DEF Crash, Forgotten, OthersKept, TypeOK
<1> QED BY <1>1, <1>2, <1>3, <1>4, <1>5

LEMMA OthersKeepSummaries ==
  ASSUME NEW q \in Run, OthersKept(q), NEW r \in Run, r # q, RunSummaries(r)
  PROVE  RunSummaries(r)'
BY DEF OthersKept, RunSummaries, ChunkFollowsSnapshot, OutputServed, WindowInTarget,
   OutputOnBranch, SummarisesFrom

(* Equal stretches of two sequences of messages.                           *)
LEMMA EqualStretches ==
  ASSUME NEW a \in Branch, NEW b \in Branch, NEW m \in Nat \ {0}, NEW n \in Nat,
         NEW k \in Nat \ {0},
         n <= Len(a), k + (n - m) <= Len(b),
         \A i \in m .. n : a[i] = b[k + (i - m)]
  PROVE  SubSeq(a, m, n) = SubSeq(b, k, k + (n - m))
<1>1. a \in Seq(0 .. MaxEdits) /\ b \in Seq(0 .. MaxEdits) /\ Len(a) \in Nat /\ Len(b) \in Nat
  BY LenProperties DEF Branch
<1>2. SubSeq(a, m, n) = [i \in 1 .. n - m + 1 |-> a[i + m - 1]]
  OBVIOUS
<1>3. SubSeq(b, k, k + (n - m)) = [i \in 1 .. n - m + 1 |-> b[i + k - 1]]
  <2>1. k + (n - m) - k + 1 = n - m + 1
    OBVIOUS
  <2> QED BY <2>1
<1>4. ASSUME NEW i \in 1 .. n - m + 1 PROVE a[i + m - 1] = b[i + k - 1]
  <2>1. i + m - 1 \in m .. n /\ k + ((i + m - 1) - m) = i + k - 1
    OBVIOUS
  <2> QED BY <2>1
<1> QED BY <1>2, <1>3, <1>4
-----------------------------------------------------------------------------
(* The chunk lies in a view of the branch, message by message.             *)
ChunkIn(r, view) ==
  /\ snap[r].offset + Len(text[r]) - 1 <= Len(view)
  /\ \A i \in 1 .. Len(text[r]) : text[r][i] = view[snap[r].offset + i - 1]

(* A summary of a stretch of such a chunk is one of messages of the view.  *)
LEMMA SummaryIn ==
  ASSUME NEW r \in Run, snap[r] \in Snapshot, text[r] \in Branch, NEW view \in Branch,
         ChunkIn(r, view), NEW i \in Nat \ {0}, NEW j \in i .. Len(text[r])
  PROVE  /\ Summary(r, i, j).last <= Len(view)
         /\ Summary(r, i, j).of = SubSeq(view, Summary(r, i, j).first, Summary(r, i, j).last)
<1>1. /\ Len(text[r]) \in Nat /\ Len(view) \in Nat
      /\ snap[r].offset \in Nat \ {0}
  BY LenProperties, BoundAssumption DEF Snapshot, Branch, Ordinal
<1> DEFINE o == snap[r].offset
           k == o + i - 1
<1>2. k \in Nat \ {0} /\ k + (j - i) = o + j - 1 /\ k + (j - i) <= Len(view)
  <2>1. o + Len(text[r]) - 1 <= Len(view)
    BY DEF ChunkIn
  <2>2. i \in Nat \ {0} /\ j \in Nat /\ i <= j /\ j <= Len(text[r])
    BY <1>1
  <2> HIDE DEF o
  <2>3. o \in Nat \ {0}
    BY <1>1 DEF o
  <2> QED BY <1>1, <2>1, <2>2, <2>3
<1>3. ASSUME NEW m \in i .. j PROVE text[r][m] = view[k + (m - i)]
  <2>1. m \in 1 .. Len(text[r]) /\ k + (m - i) = o + m - 1
    BY <1>1
  <2> QED BY <2>1 DEF ChunkIn
<1>4. SubSeq(text[r], i, j) = SubSeq(view, k, k + (j - i))
  <2>1. j \in Nat /\ j <= Len(text[r])
    BY <1>1
  <2> HIDE DEF k
  <2> QED BY <1>2, <1>3, <2>1, EqualStretches
<1> QED BY <1>2, <1>4 DEF Summary

LEMMA OutputIn ==
  ASSUME NEW r \in Run, snap[r] \in Snapshot, text[r] \in Branch, NEW view \in Branch,
         ChunkIn(r, view), NEW j \in 1 .. Len(text[r]), NEW k \in j .. Len(text[r])
  PROVE  SummarisesFrom(Output(r, j, k), view)
<1>1. Len(text[r]) \in Nat
  BY LenProperties DEF Branch
<1>2. /\ Summary(r, 1, j).last <= Len(view)
      /\ Summary(r, 1, j).of = SubSeq(view, Summary(r, 1, j).first, Summary(r, 1, j).last)
  BY <1>1, SummaryIn
<1>3. CASE Output(r, j, k) = <<Summary(r, 1, j)>>
  BY <1>2, <1>3 DEF SummarisesFrom
<1>4. CASE j < k /\ Output(r, j, k) = <<Summary(r, 1, j), Summary(r, j + 1, k)>>
  <2>1. j + 1 \in Nat \ {0} /\ k \in j + 1 .. Len(text[r])
    BY <1>1, <1>4
  <2>2. /\ Summary(r, j + 1, k).last <= Len(view)
        /\ Summary(r, j + 1, k).of
             = SubSeq(view, Summary(r, j + 1, k).first, Summary(r, j + 1, k).last)
    BY <2>1, SummaryIn
  <2> QED BY <1>2, <1>4, <2>2 DEF SummarisesFrom
<1> QED BY <1>1, <1>3, <1>4 DEF Output

(* A chunk that ends in its window ends in every view that holds it.       *)
LEMMA BelowBoth ==
  ASSUME NEW o \in Nat, NEW l \in Nat, NEW e \in Nat, NEW m \in Nat, NEW n \in Nat,
         o + l <= e, e <= m, m - 1 <= n
  PROVE  o + l - 1 <= n
OBVIOUS

(* The recheck before publishing compares every message of the window, so  *)
(* a chunk whose snapshot is still valid lies in what the provider serves. *)
LEMMA RecheckedChunk ==
  ASSUME TypeInv, NEW r \in Run, pc[r] = "model", ChunkFollowsSnapshot(r),
         SnapshotValid(snap[r], seen[r])
  PROVE  ChunkIn(r, seen[r])
<1>1. /\ snap[r].offset \in Nat \ {0} /\ snap[r].end \in Nat
      /\ Len(text[r]) \in Nat /\ Len(snap[r].ids) \in Nat /\ Len(seen[r]) \in Nat
  BY LenProperties, BoundAssumption DEF TypeInv, TypeOK, Snapshot, Branch, Ordinal
<1>2. /\ snap[r].offset + Len(text[r]) <= snap[r].end
      /\ snap[r].end <= Len(snap[r].ids) /\ Len(snap[r].ids) <= Len(seen[r])
  BY DEF TypeInv, ChunkFits, ChunkFollowsSnapshot, SnapshotValid
<1>3. ASSUME NEW i \in 1 .. Len(text[r])
      PROVE  text[r][i] = seen[r][snap[r].offset + i - 1]
  <2>1. snap[r].offset + i - 1 \in Checked(snap[r])
    BY <1>1, <1>2 DEF Checked
  <2> QED BY <2>1 DEF SnapshotValid, ChunkFollowsSnapshot
<1>4. snap[r].offset + Len(text[r]) - 1 <= Len(seen[r])
  <2>1. Len(snap[r].ids) - 1 <= Len(seen[r])
    BY <1>1, <1>2
  <2> QED BY <1>1, <1>2, <2>1, BelowBoth
<1> QED BY <1>3, <1>4, Zenon DEF ChunkIn

(* A wrapup whose provider does not throw reads messages of the branch.    *)
LEMMA UnchangedSource ==
  ASSUME TypeInv, NEW w \in Wrap, pc[w] = "model", ChunkFollowsSnapshot(w),
         WindowInTarget(w), ~SourceChanged(w), ChunkIn(w, seen[w])
  PROVE  ChunkIn(w, raw)
<1> DEFINE n == loop[w].target - 1
<1>0. /\ w \in Run /\ snap[w] \in Snapshot /\ loop[w] \in LoopState
      /\ raw \in Branch /\ seen[w] \in Branch /\ text[w] \in Branch
  BY DEF TypeInv, TypeOK, Run
<1>1. /\ snap[w].offset \in Nat \ {0} /\ snap[w].end \in Nat \ {0}
      /\ loop[w].target \in Nat
      /\ Len(text[w]) \in Nat /\ Len(raw) \in Nat /\ Len(seen[w]) \in Nat
  BY <1>0, LenProperties, BoundAssumption DEF Snapshot, Branch, Ordinal, LoopState
<1>2. /\ snap[w].offset + Len(text[w]) <= snap[w].end /\ snap[w].end <= loop[w].target
  BY <1>0 DEF TypeInv, ChunkFits, WindowInTarget
<1>3. n \in Nat /\ n <= Len(raw) /\ n <= Len(seen[w]) /\ SubSeq(raw, 1, n) = SubSeq(seen[w], 1, n)
  BY <1>1, <1>2 DEF SourceChanged, SamePrefix
<1>4. ASSUME NEW i \in 1 .. n PROVE raw[i] = seen[w][i]
  <2>1. SubSeq(raw, 1, n) = [k \in 1 .. n |-> raw[k]]
    BY <1>3
  <2>2. SubSeq(seen[w], 1, n) = [k \in 1 .. n |-> seen[w][k]]
    BY <1>3
  <2> QED BY <1>3, <2>1, <2>2
<1>5. ASSUME NEW i \in 1 .. Len(text[w])
      PROVE  text[w][i] = raw[snap[w].offset + i - 1]
  <2>1. snap[w].offset + i - 1 \in 1 .. n
    <3>1. i \in Nat \ {0} /\ i <= Len(text[w])
      BY <1>1
    <3> QED BY <1>1, <1>2, <3>1
  <2> QED BY <1>4, <2>1 DEF ChunkIn
<1>6. snap[w].offset + Len(text[w]) - 1 <= Len(raw)
  BY <1>1, <1>2, <1>3, BelowBoth
<1> QED BY <1>5, <1>6, Zenon DEF ChunkIn
-----------------------------------------------------------------------------
(* Each step of a run keeps what is said of that run.                      *)

(* At any other stage nothing is said of it.                               *)
LEMMA NoClaim ==
  ASSUME NEW r \in Run,
         \/ pc'[r] \notin {"wait", "run", "model", "publish"}
         \/ r \in Hist /\ pc'[r] = "run"
  PROVE  RunSummaries(r)'
BY RunAssumption DEF RunSummaries, ChunkFollowsSnapshot, OutputServed, WindowInTarget,
   OutputOnBranch

LEMMA PassSummaries ==
  ASSUME TypeInv, NEW h \in Hist, RunSummaries(h), Pass(h) \/ Trigger(h)
  PROVE  RunSummaries(h)'
<1>0. h \in Run /\ h \notin Wrap
  BY RunAssumption DEF Run
<1>1. CASE pc' = [pc EXCEPT ![h] = "fired"] \/ Trigger(h)
  <2>1. pc'[h] \in {"fired", "leased", "idle", "run"}
    BY <1>0, <1>1 DEF Trigger, AcquireLease, RecheckMarker, TypeInv, TypeOK
  <2> QED BY <1>0, <2>1, NoClaim
<1>2. CASE UNCHANGED <<raw, pc, snap, seen, text, out>>
  BY <1>0, <1>2 DEF RunSummaries, ChunkFollowsSnapshot, OutputServed
<1>3. CASE PassDuringRun(h) \/ SwitchSession(h)
  BY <1>0, <1>3 DEF PassDuringRun, SwitchSession, RunSummaries, ChunkFollowsSnapshot,
     OutputServed
<1> QED BY <1>1, <1>2, <1>3 DEF Pass, FirstPass, FirstPassSkipped, LaterPass, DisarmRecovery,
     Spawn, branch, locals

(* The chunk is read from a snapshot that agrees with it: the one that is  *)
(* valid on what the provider serves, or one resolved from just that.      *)
LEMMA ReadSummaries ==
  ASSUME TypeInv, NEW r \in Run, RunSummaries(r), ReadChunk(r)
  PROVE  RunSummaries(r)'
<1>1. PICK s \in UsableSnapshots(r) : \E last \in s.offset .. s.end - 1 :
        /\ snap' = [snap EXCEPT ![r] = s]
        /\ text' = [text EXCEPT ![r] = SubSeq(seen[r], s.offset, last)]
  BY DEF ReadChunk
<1>2. PICK last \in s.offset .. s.end - 1 :
        /\ snap' = [snap EXCEPT ![r] = s]
        /\ text' = [text EXCEPT ![r] = SubSeq(seen[r], s.offset, last)]
  BY <1>1
<1>3. /\ pc[r] = "run" /\ pc' = [pc EXCEPT ![r] = "model"] /\ loop' = loop
  BY DEF ReadChunk
<1>4. /\ pc'[r] = "model" /\ snap'[r] = s /\ text'[r] = SubSeq(seen[r], s.offset, last)
  BY <1>2, <1>3 DEF TypeInv, TypeOK
<1>5. /\ seen[r] \in Branch /\ Len(seen[r]) \in Nat /\ Len(seen[r]) <= MaxMessage
      /\ End(compartments) \in 0 .. MaxMessage
  BY LenProperties, EndType DEF TypeInv, TypeOK, ViewsBounded, Branch
<1>6. CASE SnapshotValid(snap[r], seen[r])
  <2>1. s = snap[r] /\ s \in Snapshot
    BY <1>1, <1>6 DEF UsableSnapshots, TypeInv, TypeOK
  <2>2. /\ s.offset \in Nat \ {0} /\ s.end \in Nat /\ Len(s.ids) \in Nat
        /\ s.end <= Len(s.ids) /\ Len(s.ids) <= Len(seen[r])
    BY <1>3, <1>6, <2>1, LenProperties, BoundAssumption
       DEF TypeInv, WindowFits, SnapshotValid, Snapshot, Branch, Ordinal
  <2>3. ASSUME NEW i \in 1 .. last - s.offset + 1
        PROVE  /\ SubSeq(seen[r], s.offset, last)[i] = seen[r][s.offset + i - 1]
               /\ seen[r][s.offset + i - 1] = s.ids[s.offset + i - 1]
    <3>1. s.offset + i - 1 = i + s.offset - 1 /\ s.offset + i - 1 \in s.offset .. s.end - 1
      BY <2>2
    <3>2. s.offset + i - 1 \in Checked(s)
      BY <2>2, <3>1 DEF Checked
    <3>3. SubSeq(seen[r], s.offset, last)[i] = seen[r][s.offset + i - 1]
      BY <2>2, <3>1
    <3> QED BY <1>6, <2>1, <3>2, <3>3 DEF SnapshotValid
  <2>4. Len(text'[r]) = last - s.offset + 1
    <3>1. last \in Nat /\ s.offset <= last /\ last <= Len(seen[r])
      BY <1>5, <2>2
    <3> QED BY <1>4, <1>5, <2>2, <3>1, Stretch
  <2>5. ChunkFollowsSnapshot(r)'
    BY <1>4, <2>2, <2>3, <2>4 DEF ChunkFollowsSnapshot
  <2>6. r \in Wrap => s.end <= loop[r].target
    BY <1>3, <2>1 DEF RunSummaries, WindowInTarget
  <2> QED BY <1>3, <1>4, <2>5, <2>6
     DEF RunSummaries, OutputServed, WindowInTarget, OutputOnBranch
<1>7. CASE ~SnapshotValid(snap[r], seen[r])
  <2>1. s \in Snapshots(seen[r], WindowLimit(r))
    BY <1>1, <1>7 DEF UsableSnapshots
  <2>2. /\ WindowLimit(r) \in Nat /\ WindowLimit(r) <= Len(seen[r])
        /\ r \in Wrap => WindowLimit(r) = loop[r].target
    BY <1>5 DEF WindowLimit, TypeInv, TypeOK, TargetInView, LoopState
  <2>3. /\ s.ids = seen[r] /\ s.offset \in Nat \ {0} /\ s.end \in Nat
        /\ s.end <= WindowLimit(r)
    BY <1>5, <2>1, <2>2 DEF Snapshots, Offset
  <2>4. s.end <= Len(seen[r])
    BY <1>5, <2>2, <2>3
  <2>5. Len(text'[r]) = last - s.offset + 1
    <3>1. last \in Nat /\ s.offset <= last /\ last <= Len(seen[r])
      BY <1>5, <2>3, <2>4
    <3> QED BY <1>4, <1>5, <2>3, <3>1, Stretch
  <2>6. ASSUME NEW i \in 1 .. last - s.offset + 1
        PROVE  SubSeq(seen[r], s.offset, last)[i] = s.ids[s.offset + i - 1]
    <3>1. s.offset + i - 1 = i + s.offset - 1
      BY <2>3
    <3> QED BY <2>3, <3>1
  <2>7. ChunkFollowsSnapshot(r)'
    BY <1>4, <2>3, <2>4, <2>5, <2>6 DEF ChunkFollowsSnapshot
  <2> QED BY <1>3, <1>4, <2>2, <2>3, <2>7
     DEF RunSummaries, OutputServed, WindowInTarget, OutputOnBranch
<1> QED BY <1>6, <1>7

(* The recheck before publishing, and a wrapup's provider, vouch for what  *)
(* the model answers.                                                      *)
LEMMA AnswerSummaries ==
  ASSUME TypeInv, NEW r \in Run, RunSummaries(r), Answer(r)
  PROVE  RunSummaries(r)'
<1>1. CASE pc' = [pc EXCEPT ![r] = "unpublished"]
  BY <1>1, NoClaim DEF TypeInv, TypeOK
<1>2. ASSUME SnapshotValid(snap[r], seen[r]),
             NEW j \in 1 .. Len(text[r]), NEW k \in j .. Len(text[r]),
             out' = [out EXCEPT ![r] = Output(r, j, k)],
             pc' = [pc EXCEPT ![r] = "publish"]
      PROVE  RunSummaries(r)'
  <2>1. /\ snap[r] \in Snapshot /\ text[r] \in Branch /\ seen[r] \in Branch /\ raw \in Branch
    BY DEF TypeInv, TypeOK
  <2>2. pc'[r] = "publish" /\ out'[r] = Output(r, j, k) /\ seen' = seen /\ raw' = raw
    BY <1>2 DEF Answer, TypeInv, TypeOK, branch
  <2>3. pc[r] = "model" /\ ~SourceChanged(r)
    BY DEF Answer
  <2>4. ChunkIn(r, seen[r])
    BY <1>2, <2>3, RecheckedChunk DEF RunSummaries
  <2>5. SummarisesFrom(Output(r, j, k), seen[r])
    BY <2>1, <2>4, OutputIn
  <2>6. ASSUME r \in Wrap PROVE SummarisesFrom(Output(r, j, k), raw)
    <3>1. ChunkIn(r, raw)
      BY <2>3, <2>4, <2>6, UnchangedSource DEF RunSummaries
    <3> QED BY <2>1, <3>1, OutputIn
  <2> QED BY <2>2, <2>5, <2>6
     DEF RunSummaries, ChunkFollowsSnapshot, OutputServed, WindowInTarget, OutputOnBranch
<1> QED BY <1>1, <1>2 DEF Answer

LEMMA HistorianSummaries ==
  ASSUME TypeInv, NEW r \in Run, RunSummaries(r), Historian(r) \/ Crash(r)
  PROVE  RunSummaries(r)'
<1>1. CASE NothingToRead(r) \/ Fails(r) \/ Publish(r) \/ Finish(r) \/ Crash(r)
  <2>1. pc'[r] \in {"unpublished", "published", "idle", "after"}
    BY <1>1 DEF NothingToRead, Fails, Publish, Finish, Crash, TypeInv, TypeOK
  <2> QED BY <2>1, NoClaim
<1> QED BY <1>1, ReadSummaries, AnswerSummaries DEF Historian

LEMMA WrapupSummaries ==
  ASSUME TypeInv, NEW w \in Wrap, RunSummaries(w), WrapupStarts(w) \/ Wrapup(w)
  PROVE  RunSummaries(w)'
<1>0. w \in Run
  BY DEF Run
<1>1. CASE WrapupStarts(w) \/ WrapupEnds(w)
  <2>1. pc'[w] \in {"loop", "idle"}
    BY <1>0, <1>1 DEF WrapupStarts, WrapupEnds, TypeInv, TypeOK
  <2> QED BY <1>0, <2>1, NoClaim
<1>2. CASE WrapupPlans(w)
  <2>1. PICK s \in Snapshots(seen[w], loop[w].target) : snap' = [snap EXCEPT ![w] = s]
    BY <1>2 DEF WrapupPlans
  <2>2. /\ loop' = [loop EXCEPT ![w].lastEnd = End(compartments)]
        /\ pc' = [pc EXCEPT ![w] = "wait"]
    BY <1>2 DEF WrapupPlans
  <2>3. End(compartments) \in Int /\ loop[w].target \in Int
    BY EndType DEF TypeInv, TypeOK, LoopState
  <2>4. s.end <= loop[w].target
    BY <2>1, <2>3 DEF Snapshots, Offset
  <2>5. pc'[w] = "wait" /\ snap'[w] = s /\ loop'[w].target = loop[w].target
    BY <1>0, <2>1, <2>2 DEF TypeInv, TypeOK, LoopState
  <2> QED BY <2>4, <2>5 DEF RunSummaries, ChunkFollowsSnapshot, OutputServed, WindowInTarget,
     OutputOnBranch
<1>3. CASE WrapupAcquires(w)
  <2>1. pc[w] = "wait" /\ pc'[w] = "run" /\ snap' = snap /\ loop'[w].target = loop[w].target
    BY <1>0, <1>3 DEF WrapupAcquires, TypeInv, TypeOK, LoopState
  <2> QED BY <2>1 DEF RunSummaries, ChunkFollowsSnapshot, OutputServed, WindowInTarget,
     OutputOnBranch
<1> QED BY <1>1, <1>2, <1>3 DEF Wrapup, WrapupCompletes, WrapupStops, WrapupGivesUp

(* The branch changes only while no run is about to publish.               *)
LEMMA EnvironmentSummaries ==
  ASSUME SummaryInv, Environment \/ UNCHANGED vars
  PROVE  SummaryInv'
<1>1. UNCHANGED locals /\ (raw' = raw \/ AllWait)
  BY DEF Environment, AppendMessage, NavigateTree, Overflow, ModelChange, LeaseExpires,
     MarkerExpires, DrainMarker, vars, branch
<1>2. UNCHANGED <<pc, snap, seen, text, out, loop>>
  BY <1>1 DEF locals
<1>3. ASSUME NEW r \in Run PROVE RunSummaries(r)'
  <2>1. RunSummaries(r)
    BY DEF SummaryInv
  <2>2. CASE raw' = raw
    BY <1>2, <2>1, <2>2 DEF RunSummaries, ChunkFollowsSnapshot, OutputServed, WindowInTarget,
       OutputOnBranch
  <2>3. CASE AllWait
    <3>1. pc[r] # "publish"
      BY <2>3 DEF AllWait
    <3> QED BY <1>2, <2>1, <3>1 DEF RunSummaries, ChunkFollowsSnapshot, OutputServed,
       WindowInTarget, OutputOnBranch
  <2> QED BY <1>1, <2>2, <2>3
<1> QED BY <1>3 DEF SummaryInv

LEMMA SummaryStep ==
  ASSUME TypeInv, SummaryInv, [Next]_vars
  PROVE  SummaryInv'
<1>1. ASSUME NEW q \in Run, OthersKept(q), RunSummaries(q)' PROVE SummaryInv'
  BY <1>1, OthersKeepSummaries DEF SummaryInv
<1>2. ASSUME NEW h \in Hist, Pass(h) \/ Trigger(h) PROVE SummaryInv'
  <2>1. h \in Run /\ RunSummaries(h) /\ TypeOK
    BY DEF SummaryInv, TypeInv, Run
  <2> QED BY <1>1, <1>2, <2>1, OthersKeptStep, PassSummaries
<1>3. ASSUME NEW w \in Wrap, WrapupStarts(w) \/ Wrapup(w) PROVE SummaryInv'
  <2>1. w \in Run /\ RunSummaries(w) /\ TypeOK
    BY DEF SummaryInv, TypeInv, Run
  <2> QED BY <1>1, <1>3, <2>1, OthersKeptStep, WrapupSummaries
<1>4. ASSUME NEW r \in Run, Historian(r) \/ Crash(r) PROVE SummaryInv'
  <2>1. RunSummaries(r) /\ TypeOK
    BY DEF SummaryInv, TypeInv
  <2> QED BY <1>1, <1>4, <2>1, OthersKeptStep, HistorianSummaries
<1> QED BY <1>2, <1>3, <1>4, EnvironmentSummaries DEF Next

LEMMA SummariesInvariant == Spec => [](TypeInv /\ SummaryInv)
<1>1. Init => SummaryInv
  BY DEF Init, SummaryInv, RunSummaries, ChunkFollowsSnapshot, OutputServed, WindowInTarget,
     OutputOnBranch, Run
<1> QED BY <1>1, TypeInit, TypeStep, SummaryStep, PTL DEF Spec
-----------------------------------------------------------------------------
(* What a publication adds to the history is the run's output.             *)
LEMMA NewAreOutput ==
  ASSUME NEW a \in Seq(Compartment), NEW b \in Seq(Compartment)
  PROVE  SubSeq(a \o b, Len(a) + 1, Len(a \o b)) = b
<1>1. Len(a) \in Nat /\ Len(b) \in Nat
  BY LenProperties
<1>2. /\ a \o b \in Seq(Compartment) /\ Len(a \o b) = Len(a) + Len(b)
      /\ \A i \in 1 .. Len(a) + Len(b) : (a \o b)[i] = IF i <= Len(a) THEN a[i] ELSE b[i - Len(a)]
  BY ConcatProperties
<1>3. SubSeq(a \o b, Len(a) + 1, Len(a \o b)) = [i \in 1 .. Len(b) |-> (a \o b)[i + Len(a)]]
  <2>1. (Len(a) + Len(b)) - (Len(a) + 1) + 1 = Len(b)
    BY <1>1
  <2>2. \A i \in 1 .. Len(b) : i + (Len(a) + 1) - 1 = i + Len(a)
    BY <1>1
  <2> QED BY <1>1, <1>2, <2>1, <2>2
<1>4. ASSUME NEW i \in 1 .. Len(b) PROVE (a \o b)[i + Len(a)] = b[i]
  <2>1. i + Len(a) \in 1 .. Len(a) + Len(b) /\ ~(i + Len(a) <= Len(a)) /\ i + Len(a) - Len(a) = i
    BY <1>1
  <2> QED BY <1>2, <2>1
<1>5. b = [i \in 1 .. Len(b) |-> b[i]]
  BY LenProperties
<1> QED BY <1>3, <1>4, <1>5

LEMMA PublishedIsOutput ==
  ASSUME TypeInv, [Next]_vars, NEW r \in Run, PublishedBy(r)
  PROVE  NewCompartments = out[r]
<1>1. Publish(r) /\ CL!IsHeld(lease, r)
  <2>1. pc[r] = "publish" /\ pc'[r] = "published"
    BY DEF PublishedBy
  <2>2. ~UNCHANGED pc
    BY <2>1
  <2>3. PICK q \in Run :
          \/ q \in Hist /\ (Pass(q) \/ Trigger(q))
          \/ q \in Wrap /\ (WrapupStarts(q) \/ Wrapup(q))
          \/ Historian(q) \/ Crash(q)
    BY <2>2 DEF Next, Environment, AppendMessage, NavigateTree, Overflow, ModelChange,
       LeaseExpires, MarkerExpires, DrainMarker, vars, locals, Run
  <2>4. q = r
    <3>1. OthersKept(q)
      BY <2>3, OthersKeptStep DEF TypeInv
    <3> QED BY <2>1, <3>1 DEF OthersKept
  <2>5. ~(q \in Hist /\ (Pass(q) \/ Trigger(q)))
    BY <2>1, <2>4 DEF Pass, FirstPass, FirstPassSkipped, LaterPass, DisarmRecovery,
       PassDuringRun, SwitchSession, Spawn, Trigger, AcquireLease, RecheckMarker, locals,
       TypeInv, TypeOK
  <2>6. ~(q \in Wrap /\ (WrapupStarts(q) \/ Wrapup(q)))
    BY <2>1, <2>4 DEF WrapupStarts, Wrapup, WrapupCompletes, WrapupPlans, WrapupStops,
       WrapupAcquires, WrapupGivesUp, AtLoopTop
  <2>7. ~Crash(q)
    BY <2>1, <2>4 DEF Crash, TypeInv, TypeOK
  <2> QED BY <2>1, <2>3, <2>4, <2>5, <2>6, <2>7 DEF Historian, ReadChunk, NothingToRead, Fails,
       Answer, Publish, Finish, TypeInv, TypeOK
<1>2. /\ compartments' = compartments \o out[r]
      /\ compartments \in Seq(Compartment) /\ out[r] \in Seq(Compartment)
  BY <1>1 DEF Publish, TypeInv, TypeOK
<1> QED BY <1>2, NewAreOutput DEF NewCompartments

(* A wrapup publishes summaries only of messages that are on the branch at *)
(* that moment, whatever the user navigates to while its model works.      *)
THEOREM WrapupPublishesBranch == Spec => WrapupSummarisesBranch
<1>1. ASSUME TypeInv, SummaryInv, [Next]_vars, NEW w \in Wrap, PublishedBy(w)
      PROVE  SummarisesFrom(NewCompartments, raw)
  <2>1. w \in Run /\ pc[w] = "publish"
    BY <1>1 DEF Run, PublishedBy
  <2>2. SummarisesFrom(out[w], raw)
    BY <1>1, <2>1 DEF SummaryInv, RunSummaries, OutputOnBranch
  <2> QED BY <1>1, <2>1, <2>2, PublishedIsOutput
<1>2. TypeInv /\ SummaryInv /\ [Next]_vars
        => [\A w \in Wrap : PublishedBy(w) => SummarisesFrom(NewCompartments, raw)]_vars
  BY <1>1
<1> QED BY <1>2, SummariesInvariant, PTL DEF Spec, WrapupSummarisesBranch

(* A triggered run publishes summaries only of messages its process still  *)
(* serves: no edit a context pass has seen is missed by the recheck.       *)
THEOREM HistorianPublishesServed == Spec => HistorianSummarisesServed
<1>1. ASSUME TypeInv, SummaryInv, [Next]_vars, NEW h \in Hist, PublishedBy(h)
      PROVE  SummarisesFrom(NewCompartments, seen[h])
  <2>1. h \in Run /\ pc[h] = "publish"
    BY <1>1 DEF Run, PublishedBy
  <2>2. SummarisesFrom(out[h], seen[h])
    BY <1>1, <2>1 DEF SummaryInv, RunSummaries, OutputServed
  <2> QED BY <1>1, <2>1, <2>2, PublishedIsOutput
<1>2. TypeInv /\ SummaryInv /\ [Next]_vars
        => [\A h \in Hist : PublishedBy(h) => SummarisesFrom(NewCompartments, seen[h])]_vars
  BY <1>1
<1> QED BY <1>2, SummariesInvariant, PTL DEF Spec, HistorianSummarisesServed
=============================================================================
