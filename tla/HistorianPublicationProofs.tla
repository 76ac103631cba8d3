---------------------- MODULE HistorianPublicationProofs ----------------------
(***************************************************************************)
(* Proofs about HistorianPublication, for any number of processes, wrapups,*)
(* messages, tree navigations and crashes.                                 *)
(***************************************************************************)
EXTENDS HistorianPublication, SequenceTheorems, TLAPS

(* The parts of the type invariant the lease arguments need.               *)
LeaseTypes ==
  /\ pc \in [Run -> PC]
  /\ loop \in [Wrap -> LoopState]
  /\ snap \in [Run -> Snapshot]
  /\ lease \in CL!LeaseRow
  /\ marker \in Wrap \cup {Orphan, NoHolder}

(* While a wrapup that has had the lease keeps its marker, a triggered run *)
(* that holds the lease has yet to look at that marker.                    *)
LEMMA WrapupOwnsStep ==
  ASSUME LeaseTypes, WrapupOwnsPublication, [Next]_vars
  PROVE  WrapupOwnsPublication'
<1> USE RunAssumption
<1>0. ASSUME NEW w \in Wrap, marker' = w, loop'[w].owned,
             NEW h \in Hist, lease'.holder = h
      PROVE  pc'[h] = "leased"
  <2>u. CASE UNCHANGED vars
    BY <1>0, <2>u DEF WrapupOwnsPublication, vars, database, locals, CL!IsHeld
  <2>1. CASE Environment
    BY <1>0, <2>1 DEF Environment, AppendMessage, NavigateTree, Overflow, ModelChange,
         LeaseExpires, MarkerExpires, DrainMarker, WrapupOwnsPublication, LeaseTypes,
         database, locals, branch, CL!IsHeld, CL!Expired, CL!LeaseRow, Run
  <2>2. ASSUME NEW g \in Hist, Pass(g) PROVE pc'[h] = "leased"
    BY <1>0, <2>2 DEF Pass, FirstPass, FirstPassSkipped, LaterPass, DisarmRecovery,
         PassDuringRun, SwitchSession, Spawn, WrapupOwnsPublication, LeaseTypes,
         database, locals, branch, CL!IsHeld, Run
  <2>3. ASSUME NEW g \in Hist, Trigger(g) PROVE pc'[h] = "leased"
    BY <1>0, <2>3 DEF Trigger, AcquireLease, RecheckMarker, WrapupOwnsPublication,
         LeaseTypes, CL!IsHeld, CL!Acquired, CL!Released, CL!NoRow, CL!LeaseRow, Run
  <2>4. ASSUME NEW v \in Wrap, WrapupStarts(v) \/ Wrapup(v) PROVE pc'[h] = "leased"
    BY <1>0, <2>4 DEF WrapupStarts, Wrapup, WrapupCompletes, WrapupPlans, WrapupStops,
         WrapupAcquires, WrapupGivesUp, WrapupEnds, AtLoopTop, NoLoop, LoopState,
         WrapupOwnsPublication, LeaseTypes, database, branch,
         CL!IsHeld, CL!Acquired, CL!LeaseRow, Run
  <2>5. ASSUME NEW r \in Run, Historian(r) PROVE pc'[h] = "leased"
    <3>1. /\ marker' = marker /\ loop' = loop
          /\ lease' = lease \/ lease' = CL!Released(lease, r)
      BY <2>5 DEF Historian, ReadChunk, NothingToRead, Fails, Answer, Publish, Finish,
           database
    <3>2. lease.holder = h
      BY <1>0, <3>1 DEF CL!Released, CL!NoRow, Run
    <3>3. pc[h] = "leased"
      BY <1>0, <3>1, <3>2 DEF WrapupOwnsPublication, CL!IsHeld
    <3>4. pc[r] # "leased" /\ \E v \in PC : pc' = [pc EXCEPT ![r] = v]
      BY <2>5 DEF Historian, ReadChunk, NothingToRead, Fails, Answer, Publish, Finish, PC
    <3> QED BY <3>3, <3>4 DEF LeaseTypes, Run
  <2>6. ASSUME NEW r \in Run, Crash(r) PROVE pc'[h] = "leased"
    BY <1>0, <2>6 DEF Crash, WrapupOwnsPublication, LeaseTypes, NoLoop, LoopState,
         CL!IsHeld, CL!Orphaned, CL!LeaseRow, Run
  <2> QED BY <2>u, <2>1, <2>2, <2>3, <2>4, <2>5, <2>6 DEF Next
<1> QED BY <1>0 DEF WrapupOwnsPublication, CL!IsHeld
-----------------------------------------------------------------------------
(* The strengthening that makes the types inductive: the messages a run    *)
(* sees are ordinals and reach as far as a wrapup's target, the window of  *)
(* a planned run lies in the messages it was resolved on, the chunk lies   *)
(* in the window, which leaves the last message out, and what the run is   *)
(* about to publish is one or two ranges in sequence from its start.       *)
ViewsBounded == \A r \in Run : Len(seen[r]) <= MaxMessage

TargetInView == \A w \in Wrap : loop[w].target <= Len(seen[w])

WindowFits ==
  \A r \in Run :
    pc[r] \in {"fired", "leased", "wait", "run"} => snap[r].end <= Len(snap[r].ids)

ChunkFits ==
  \A r \in Run : pc[r] = "model" => snap[r].offset + Len(text[r]) <= snap[r].end

OutShape(start, cs) ==
  /\ cs \in Seq(Compartment) /\ Len(cs) \in {1, 2}
  /\ cs[1].first = start /\ cs[1].first <= cs[1].last
  /\ Len(cs) = 2 => cs[2].first = cs[1].last + 1 /\ cs[2].first <= cs[2].last
  /\ cs[Len(cs)].last < MaxMessage

OutputFits ==
  \A r \in Run : pc[r] = "publish" => OutShape(snap[r].offset, out[r])

(* A stretch of a branch is a branch, as long as the indices say.          *)
LEMMA Stretch ==
  ASSUME NEW b \in Branch, NEW m \in Nat \ {0}, NEW n \in Nat, n <= Len(b)
  PROVE  /\ SubSeq(b, m, n) \in Branch
         /\ Len(SubSeq(b, m, n)) = IF m <= n THEN n - m + 1 ELSE 0
<1>1. b \in Seq(0 .. MaxEdits) /\ Len(b) \in Nat
  BY LenProperties DEF Branch
<1>2. ASSUME NEW i \in m .. n PROVE b[i] \in 0 .. MaxEdits
  <2>1. i \in 1 .. Len(b)
    BY <1>1
  <2> QED BY <1>1, <2>1, ElementOfSeq
<1> QED BY <1>2, SubSeqProperties DEF Branch

(* What a run is about to publish is well formed.                          *)
LEMMA SummaryShape ==
  ASSUME NEW r \in Run, NEW i \in Nat, NEW j \in Nat,
         snap \in [Run -> Snapshot], text \in [Run -> Branch],
         snap[r].offset + Len(text[r]) <= snap[r].end,
         1 <= i, i <= j, j <= Len(text[r])
  PROVE  /\ Summary(r, i, j) \in Compartment
         /\ Summary(r, i, j).first = snap[r].offset + i - 1
         /\ Summary(r, i, j).last = snap[r].offset + j - 1
         /\ Summary(r, i, j).last < MaxMessage
<1>1. snap[r].offset \in Ordinal /\ snap[r].end \in Ordinal /\ text[r] \in Branch
  BY DEF Snapshot
<1>2. Len(text[r]) \in Nat
  BY <1>1, LenProperties DEF Branch
<1>3. SubSeq(text[r], i, j) \in Branch
  BY <1>1, <1>2, Stretch
<1>4. /\ snap[r].offset + i - 1 \in Ordinal
      /\ snap[r].offset + j - 1 \in Ordinal
      /\ snap[r].offset + j - 1 < MaxMessage
  BY <1>1, <1>2, BoundAssumption DEF Ordinal
<1>5. /\ Summary(r, i, j).first = snap[r].offset + i - 1
      /\ Summary(r, i, j).last = snap[r].offset + j - 1
  BY DEF Summary
<1>6. Summary(r, i, j) \in Compartment
  BY <1>3, <1>4 DEF Summary, Compartment
<1> QED BY <1>4, <1>5, <1>6

LEMMA OutputShape ==
  ASSUME NEW r \in Run, snap \in [Run -> Snapshot], text \in [Run -> Branch],
         snap[r].offset + Len(text[r]) <= snap[r].end,
         NEW j \in 1 .. Len(text[r]), NEW k \in j .. Len(text[r])
  PROVE  OutShape(snap[r].offset, Output(r, j, k))
<1>1. Len(text[r]) \in Nat /\ snap[r].offset \in Int
  BY LenProperties DEF Branch, Snapshot, Ordinal
<1>2. /\ Summary(r, 1, j) \in Compartment
      /\ Summary(r, 1, j).first = snap[r].offset
      /\ Summary(r, 1, j).last = snap[r].offset + j - 1
      /\ Summary(r, 1, j).last < MaxMessage
  BY <1>1, SummaryShape
<1>3. CASE Output(r, j, k) = <<Summary(r, 1, j)>>
  BY <1>1, <1>2, <1>3 DEF OutShape
<1>4. CASE j < k /\ Output(r, j, k) = <<Summary(r, 1, j), Summary(r, j + 1, k)>>
  <2>1. /\ Summary(r, j + 1, k) \in Compartment
        /\ Summary(r, j + 1, k).first = snap[r].offset + j
        /\ Summary(r, j + 1, k).last = snap[r].offset + k - 1
        /\ Summary(r, j + 1, k).last < MaxMessage
    BY <1>1, <1>4, SummaryShape
  <2> QED BY <1>1, <1>2, <1>4, <2>1 DEF OutShape
<1> QED BY <1>1, <1>3, <1>4 DEF Output

LEMMA EndType ==
  ASSUME NEW cs \in Seq(Compartment)
  PROVE  End(cs) \in 0 .. MaxMessage
<1>1. CASE cs = <<>>
  BY <1>1, BoundAssumption DEF End
<1>2. CASE cs # <<>>
  <2>1. Len(cs) \in 1 .. Len(cs)
    BY <1>2, LenProperties, EmptySeq
  <2>2. cs[Len(cs)] \in Compartment
    BY <2>1, ElementOfSeq
  <2> QED BY <1>2, <2>2 DEF End, Compartment, Ordinal
<1> QED BY <1>1, <1>2

LEMMA NoneTyped == NoSnapshot \in Snapshot /\ <<>> \in Branch /\ NoLoop \in LoopState
BY BoundAssumption, EmptySeq DEF NoSnapshot, Snapshot, NoLoop, LoopState, Branch, Ordinal

(* The snapshots a view of the branch has.                                 *)
LEMMA SnapshotsTyped ==
  ASSUME NEW view \in Branch, NEW limit \in 0 .. MaxMessage,
         compartments \in Seq(Compartment), NEW s \in Snapshots(view, limit)
  PROVE  s \in Snapshot /\ s.offset = Offset /\ s.offset < s.end
<1>1. End(compartments) \in 0 .. MaxMessage
  BY EndType
<1> QED BY <1>1, BoundAssumption DEF Snapshots, Snapshot, Offset, Ordinal

TypeInv ==
  TypeOK /\ ViewsBounded /\ TargetInView /\ WindowFits /\ ChunkFits /\ OutputFits

LEMMA TypeInit == Init => TypeInv
<1> SUFFICES ASSUME Init PROVE TypeInv
  OBVIOUS
<1>1. raw \in Branch /\ Len(raw) = InitialCount
  BY BoundAssumption, LenProperties DEF Init, Branch
<1>2. NoSnapshot \in Snapshot /\ NoLoop \in LoopState /\ CL!NoRow \in CL!LeaseRow
  BY NoneTyped DEF CL!NoRow, CL!LeaseRow
<1>3. <<>> \in Branch /\ <<>> \in Seq(Compartment) /\ Len(<<>>) = 0
  BY EmptySeq DEF Branch
<1>4. TypeOK
  <2>1. /\ raw \in Branch /\ Len(raw) <= MaxMessage
        /\ edits \in 0 .. MaxEdits /\ crashes \in 0 .. MaxCrashes
        /\ dropped \in 0 .. MaxMessage /\ floor \in Ordinal /\ pending \in 0 .. MaxMessage
    BY <1>1, BoundAssumption DEF Init, Ordinal
  <2>2. /\ lease \in CL!LeaseRow /\ marker \in Wrap \cup {Orphan, NoHolder}
        /\ compartments \in Seq(Compartment) /\ out \in [Run -> Seq(Compartment)]
        /\ recovery \in BOOLEAN /\ failed \in BOOLEAN /\ inProgress \in BOOLEAN
    BY <1>2, <1>3 DEF Init
  <2>3. /\ fresh \in [Hist -> BOOLEAN] /\ pc \in [Run -> PC]
        /\ snap \in [Run -> Snapshot] /\ loop \in [Wrap -> LoopState]
        /\ seen \in [Run -> Branch] /\ text \in [Run -> Branch]
    BY <1>2, <1>3 DEF Init, PC
  <2> QED BY <2>1, <2>2, <2>3 DEF TypeOK
<1>5. ViewsBounded /\ TargetInView /\ WindowFits /\ ChunkFits /\ OutputFits
  <2>1. ViewsBounded /\ TargetInView
    BY <1>3, BoundAssumption DEF Init, ViewsBounded, TargetInView, NoLoop, Run
  <2>2. WindowFits /\ ChunkFits /\ OutputFits
    BY DEF Init, WindowFits, ChunkFits, OutputFits
  <2> QED BY <2>1, <2>2
<1> QED BY <1>4, <1>5 DEF TypeInv

(* Every operation on the lease row yields a lease row.                    *)
LEMMA LeaseTyped ==
  ASSUME NEW row \in CL!LeaseRow, NEW r \in Run
  PROVE  /\ CL!Expired(row) \in CL!LeaseRow /\ CL!Acquired(r) \in CL!LeaseRow
         /\ CL!Released(row, r) \in CL!LeaseRow /\ CL!Orphaned(row, r) \in CL!LeaseRow
<1>1. CL!Expired(row) \in CL!LeaseRow
  BY DEF CL!LeaseRow, CL!Expired
<1>2. CL!Orphaned(row, r) \in CL!LeaseRow
  BY DEF CL!LeaseRow, CL!Orphaned
<1>3. CL!Acquired(r) \in CL!LeaseRow /\ CL!NoRow \in CL!LeaseRow
  BY DEF CL!LeaseRow, CL!Acquired, CL!NoRow
<1>4. CL!Released(row, r) \in {row, CL!NoRow}
  BY DEF CL!Released
<1> QED BY <1>1, <1>2, <1>3, <1>4

(* The environment's steps keep the types.                                 *)
LEMMA EnvironmentTyped ==
  ASSUME TypeInv, Environment
  PROVE  TypeInv'
<1>1. CASE AppendMessage
  <2>1. /\ raw' \in Branch /\ Len(raw') <= MaxMessage
    <3>1. edits \in 0 .. MaxEdits /\ raw \in Seq(0 .. MaxEdits)
      BY DEF TypeInv, TypeOK, Branch
    <3>2. Append(raw, edits) \in Branch /\ Len(Append(raw, edits)) = Len(raw) + 1
      BY <3>1, AppendProperties DEF Branch
    <3> QED BY <1>1, <3>1, <3>2, LenProperties, BoundAssumption DEF AppendMessage
  <2> QED BY <1>1, <2>1 DEF AppendMessage, TypeInv, TypeOK, ViewsBounded, TargetInView,
       WindowFits, ChunkFits, OutputFits, database, locals
<1>2. CASE NavigateTree
  <2>1. edits' \in 0 .. MaxEdits
    BY <1>2, BoundAssumption DEF NavigateTree, TypeInv, TypeOK
  <2>2. /\ raw' \in Branch /\ Len(raw') <= MaxMessage
    <3>1. PICK k \in 0 .. Len(raw) - 1 : raw' = SubSeq(raw, 1, k)
      BY <1>2 DEF NavigateTree
    <3>2. raw \in Branch /\ Len(raw) \in Nat /\ Len(raw) <= MaxMessage
      BY LenProperties DEF TypeInv, TypeOK, Branch
    <3>3. k \in Nat /\ k <= Len(raw)
      BY <3>2
    <3>4. SubSeq(raw, 1, k) \in Branch /\ Len(SubSeq(raw, 1, k)) <= k
      BY <3>2, <3>3, Stretch
    <3> QED BY <3>1, <3>2, <3>3, <3>4, LenProperties, BoundAssumption DEF Branch
  <2> QED BY <1>2, <2>1, <2>2 DEF NavigateTree, TypeInv, TypeOK, ViewsBounded,
       TargetInView, WindowFits, ChunkFits, OutputFits, database, locals
<1>3. CASE Overflow \/ ModelChange \/ LeaseExpires \/ MarkerExpires \/ DrainMarker
  <2>0. /\ lease' \in {lease, CL!Expired(lease)} /\ marker' \in {marker, NoHolder}
        /\ pending' \in {pending, 0}
    BY <1>3 DEF Overflow, ModelChange, LeaseExpires, MarkerExpires, DrainMarker
  <2>1. /\ lease' \in CL!LeaseRow /\ marker' \in Wrap \cup {Orphan, NoHolder}
        /\ pending' \in 0 .. MaxMessage
    <3>1. CL!Expired(lease) \in CL!LeaseRow
      BY DEF TypeInv, TypeOK, CL!Expired, CL!LeaseRow
    <3> QED BY <2>0, <3>1, BoundAssumption DEF TypeInv, TypeOK
  <2>2. recovery' \in BOOLEAN /\ failed' \in BOOLEAN
    BY <1>3, Zenon DEF Overflow, ModelChange, LeaseExpires, MarkerExpires, DrainMarker,
       TypeInv, TypeOK
  <2>3. UNCHANGED <<compartments, dropped, floor, inProgress, branch, locals>>
    BY <1>3 DEF Overflow, ModelChange, LeaseExpires, MarkerExpires, DrainMarker
  <2>4. TypeOK'
    BY <2>1, <2>2, <2>3 DEF TypeInv, TypeOK, branch, locals
  <2> QED BY <2>3, <2>4 DEF TypeInv, ViewsBounded, TargetInView, WindowFits, ChunkFits,
       OutputFits, locals
<1> QED BY <1>1, <1>2, <1>3 DEF Environment

(* So do the context passes, which copy the branch into a view.            *)
LEMMA PassTyped ==
  ASSUME TypeInv, NEW h \in Hist, Pass(h)
  PROVE  TypeInv'
<1>1. h \in Run
  BY DEF Run
<1>2. raw \in Branch /\ Len(raw) \in 0 .. MaxMessage
  BY LenProperties, BoundAssumption DEF TypeInv, TypeOK, Branch
<1>3. \A s \in Snapshots(raw, Len(raw)) : s \in Snapshot /\ s.end <= Len(s.ids)
  BY <1>2, SnapshotsTyped DEF TypeInv, TypeOK, Snapshots
<1>4. <<>> \in Branch /\ Len(<<>>) = 0
  BY NoneTyped
<1>5. CASE FirstPass(h) \/ LaterPass(h)
  <2>1. CASE Spawn(h)
    <3>1. /\ pc' \in [Run -> PC] /\ snap' \in [Run -> Snapshot] /\ seen' \in [Run -> Branch]
      BY <1>1, <1>2, <1>3, <2>1 DEF Spawn, TypeInv, TypeOK, PC
    <3>2. ViewsBounded'
      BY <1>1, <1>2, <2>1 DEF Spawn, TypeInv, TypeOK, ViewsBounded
    <3>3. TargetInView'
      <4>1. loop' = loop /\ seen' = [seen EXCEPT ![h] = raw]
        BY <1>5, <2>1 DEF FirstPass, LaterPass, Spawn
      <4> QED BY <1>1, <4>1, RunAssumption DEF TypeInv, TypeOK, TargetInView, Run
    <3>4. WindowFits'
      BY <1>1, <1>3, <2>1 DEF Spawn, TypeInv, TypeOK, WindowFits
    <3>5. ChunkFits' /\ OutputFits'
      BY <1>1, <1>5, <2>1 DEF FirstPass, LaterPass, Spawn, TypeInv, TypeOK, ChunkFits,
         OutputFits
    <3> QED BY <1>5, <3>1, <3>2, <3>3, <3>4, <3>5 DEF FirstPass, LaterPass, TypeInv, TypeOK,
         database, branch
  <2>2. CASE UNCHANGED <<pc, snap, seen>>
    BY <1>5, <2>2 DEF FirstPass, LaterPass, TypeInv, TypeOK, ViewsBounded, TargetInView,
       WindowFits, ChunkFits, OutputFits, database, branch
  <2> QED BY <1>5, <2>1, <2>2 DEF FirstPass, LaterPass
<1>6. CASE FirstPassSkipped(h) \/ DisarmRecovery(h)
  BY <1>6 DEF FirstPassSkipped, DisarmRecovery, TypeInv, TypeOK, ViewsBounded, TargetInView,
     WindowFits, ChunkFits, OutputFits, database, branch, locals
<1>7. CASE PassDuringRun(h) \/ SwitchSession(h)
  <2>0. PICK view \in Branch :
          Len(view) \in 0 .. MaxMessage /\ seen' = [seen EXCEPT ![h] = view]
    BY <1>2, <1>4, <1>7, BoundAssumption DEF PassDuringRun, SwitchSession
  <2>1. seen' \in [Run -> Branch] /\ ViewsBounded' /\ TargetInView'
    <3>1. loop' = loop
      BY <1>7 DEF PassDuringRun, SwitchSession
    <3>2. seen' \in [Run -> Branch] /\ ViewsBounded'
      BY <1>1, <2>0 DEF TypeInv, TypeOK, ViewsBounded
    <3>3. TargetInView'
      BY <1>1, <2>0, <3>1, RunAssumption DEF TypeInv, TypeOK, TargetInView, Run
    <3> QED BY <3>2, <3>3
  <2>2. PICK b \in BOOLEAN : fresh' = [fresh EXCEPT ![h] = b]
    BY <1>7, Zenon DEF PassDuringRun, SwitchSession
  <2>3. fresh' \in [Hist -> BOOLEAN]
    BY <2>2 DEF TypeInv, TypeOK
  <2> QED BY <1>7, <2>1, <2>3 DEF PassDuringRun, SwitchSession, TypeInv, TypeOK,
       WindowFits, ChunkFits, OutputFits, database, branch
<1> QED BY <1>5, <1>6, <1>7 DEF Pass

(* A run that is dropped, or ends, has no snapshot and no chunk.           *)
LEMMA ForgottenTyped ==
  ASSUME TypeInv, NEW r \in Run, Forgotten(r), NEW v \in {"idle", "after"},
         pc' = [pc EXCEPT ![r] = v]
  PROVE  /\ pc' \in [Run -> PC] /\ snap' \in [Run -> Snapshot]
         /\ text' \in [Run -> Branch] /\ out' \in [Run -> Seq(Compartment)]
         /\ WindowFits' /\ ChunkFits' /\ OutputFits'
<1>1. <<>> \in Seq(Compartment)
  BY EmptySeq
<1>2. pc' \in [Run -> PC] /\ snap' \in [Run -> Snapshot]
  BY NoneTyped DEF Forgotten, TypeInv, TypeOK, PC
<1>3. text' \in [Run -> Branch] /\ out' \in [Run -> Seq(Compartment)]
  BY <1>1, NoneTyped DEF Forgotten, TypeInv, TypeOK
<1>4. WindowFits' /\ ChunkFits' /\ OutputFits'
  BY DEF Forgotten, TypeInv, TypeOK, WindowFits, ChunkFits, OutputFits
<1> QED BY <1>2, <1>3, <1>4

LEMMA TriggerTyped ==
  ASSUME TypeInv, NEW h \in Hist, Trigger(h)
  PROVE  TypeInv'
<1>1. h \in Run
  BY DEF Run
<1>2. lease' \in CL!LeaseRow
  BY <1>1, LeaseTyped DEF Trigger, AcquireLease, RecheckMarker, TypeInv, TypeOK
<1>3. CASE /\ pc' = [pc EXCEPT ![h] = "idle"] /\ seen' = [seen EXCEPT ![h] = <<>>]
           /\ Forgotten(h)
  <2>1. seen' \in [Run -> Branch] /\ ViewsBounded' /\ TargetInView'
    <3>1. Len(<<>>) <= MaxMessage /\ <<>> \in Branch
      BY NoneTyped, EmptySeq, BoundAssumption
    <3>2. seen' \in [Run -> Branch] /\ ViewsBounded'
      BY <1>1, <1>3, <3>1 DEF TypeInv, TypeOK, ViewsBounded
    <3>3. loop' = loop
      BY DEF Trigger, AcquireLease, RecheckMarker
    <3>4. TargetInView'
      BY <1>1, <1>3, <3>3, RunAssumption DEF TypeInv, TypeOK, TargetInView, Run
    <3> QED BY <3>2, <3>4
  <2>2. /\ pc' \in [Run -> PC] /\ snap' \in [Run -> Snapshot]
        /\ text' \in [Run -> Branch] /\ out' \in [Run -> Seq(Compartment)]
        /\ WindowFits' /\ ChunkFits' /\ OutputFits'
    BY <1>1, <1>3, ForgottenTyped
  <2> QED BY <1>2, <2>1, <2>2 DEF Trigger, AcquireLease, RecheckMarker, TypeInv, TypeOK,
       branch
<1>4. CASE /\ pc' \in {[pc EXCEPT ![h] = "leased"], [pc EXCEPT ![h] = "run"]}
           /\ UNCHANGED <<snap, seen, text, out>>
  <2>1. pc' \in [Run -> PC]
    BY <1>4 DEF TypeInv, TypeOK, PC
  <2>2. ViewsBounded' /\ TargetInView' /\ WindowFits' /\ ChunkFits' /\ OutputFits'
    <3>1. pc[h] \in {"fired", "leased"} /\ loop' = loop
      BY DEF Trigger, AcquireLease, RecheckMarker
    <3>2. WindowFits' /\ ChunkFits' /\ OutputFits'
      BY <1>1, <1>4, <3>1 DEF TypeInv, TypeOK, WindowFits, ChunkFits, OutputFits
    <3> QED BY <1>4, <3>1, <3>2 DEF TypeInv, ViewsBounded, TargetInView
  <2> QED BY <1>2, <1>4, <2>1, <2>2 DEF Trigger, AcquireLease, RecheckMarker, TypeInv,
       TypeOK, branch
<1> QED BY <1>3, <1>4 DEF Trigger, AcquireLease, RecheckMarker

(* The historian's own steps: what it reads lies in its window, and what   *)
(* it publishes is typed because the output is.                            *)
LEMMA HistorianTyped ==
  ASSUME TypeInv, NEW r \in Run, Historian(r)
  PROVE  TypeInv'
<1>1. CASE ReadChunk(r)
  <2>1. PICK s \in UsableSnapshots(r) : \E last \in s.offset .. s.end - 1 :
          /\ snap' = [snap EXCEPT ![r] = s]
          /\ text' = [text EXCEPT ![r] = SubSeq(seen[r], s.offset, last)]
    BY <1>1 DEF ReadChunk
  <2>2. PICK last \in s.offset .. s.end - 1 :
          /\ snap' = [snap EXCEPT ![r] = s]
          /\ text' = [text EXCEPT ![r] = SubSeq(seen[r], s.offset, last)]
    BY <2>1
  <2>3. seen[r] \in Branch /\ Len(seen[r]) \in 0 .. MaxMessage
    BY LenProperties, BoundAssumption DEF TypeInv, TypeOK, ViewsBounded, Branch
  <2>4. s \in Snapshot /\ s.end <= Len(seen[r])
    <3>1. CASE SnapshotValid(snap[r], seen[r])
      <4>1. s = snap[r] /\ snap[r] \in Snapshot
        BY <3>1 DEF UsableSnapshots, TypeInv, TypeOK
      <4>2. Len(snap[r].ids) <= Len(seen[r]) /\ snap[r].end <= Len(snap[r].ids)
        BY <1>1, <3>1 DEF ReadChunk, SnapshotValid, TypeInv, WindowFits
      <4>3. Len(snap[r].ids) \in Nat /\ snap[r].end \in Int
        BY <4>1, LenProperties DEF Snapshot, Branch, Ordinal
      <4> QED BY <2>3, <4>1, <4>2, <4>3
    <3>2. CASE ~SnapshotValid(snap[r], seen[r])
      <4>1. s \in Snapshots(seen[r], WindowLimit(r))
        BY <3>2 DEF UsableSnapshots
      <4>2. WindowLimit(r) \in 0 .. MaxMessage /\ WindowLimit(r) <= Len(seen[r])
        BY <2>3 DEF WindowLimit, TypeInv, TypeOK, TargetInView, LoopState
      <4>3. s \in Snapshot
        BY <2>3, <4>1, <4>2, SnapshotsTyped DEF TypeInv, TypeOK
      <4>4. s.end <= WindowLimit(r)
        BY <4>1 DEF Snapshots
      <4> QED BY <2>3, <4>2, <4>3, <4>4 DEF Snapshot, Ordinal
    <3> QED BY <3>1, <3>2
  <2>5. s.offset \in Nat \ {0} /\ s.end \in Nat
    BY <2>4, BoundAssumption DEF Snapshot, Ordinal
  <2>6. /\ SubSeq(seen[r], s.offset, last) \in Branch
        /\ Len(SubSeq(seen[r], s.offset, last)) = last - s.offset + 1
    BY <2>3, <2>4, <2>5, Stretch
  <2>7. /\ pc' = [pc EXCEPT ![r] = "model"] /\ inProgress' = TRUE
        /\ UNCHANGED <<lease, marker, compartments, dropped, floor, pending, recovery,
                       failed, branch, fresh, seen, out, loop>>
    BY <1>1 DEF ReadChunk
  <2>8. /\ pc' \in [Run -> PC] /\ snap' \in [Run -> Snapshot] /\ text' \in [Run -> Branch]
    BY <2>2, <2>4, <2>6, <2>7 DEF TypeInv, TypeOK, PC
  <2>9. ViewsBounded' /\ TargetInView' /\ WindowFits' /\ ChunkFits' /\ OutputFits'
    <3>1. ViewsBounded' /\ TargetInView'
      BY <2>7 DEF TypeInv, ViewsBounded, TargetInView
    <3>2. WindowFits' /\ OutputFits'
      BY <2>2, <2>7 DEF TypeInv, TypeOK, WindowFits, OutputFits
    <3>3. ChunkFits'
      BY <2>2, <2>5, <2>6, <2>7 DEF TypeInv, TypeOK, ChunkFits
    <3> QED BY <3>1, <3>2, <3>3
  <2> QED BY <2>7, <2>8, <2>9 DEF TypeInv, TypeOK, branch
<1>2. CASE NothingToRead(r) \/ Fails(r)
  <2>1. /\ pc' = [pc EXCEPT ![r] = "unpublished"]
        /\ UNCHANGED <<lease, marker, compartments, dropped, floor, pending, branch, fresh,
                       snap, seen, text, out, loop>>
    BY <1>2 DEF NothingToRead, Fails
  <2>2. recovery' \in BOOLEAN /\ failed' \in BOOLEAN /\ inProgress' \in BOOLEAN
    BY <1>2 DEF NothingToRead, Fails, TypeInv, TypeOK
  <2>3. pc' \in [Run -> PC]
    BY <2>1 DEF TypeInv, TypeOK, PC
  <2>4. ViewsBounded' /\ TargetInView' /\ WindowFits' /\ ChunkFits' /\ OutputFits'
    BY <2>1 DEF TypeInv, TypeOK, ViewsBounded, TargetInView, WindowFits,
         ChunkFits, OutputFits
  <2> QED BY <2>1, <2>2, <2>3, <2>4 DEF TypeInv, TypeOK, branch
<1>3. CASE Answer(r)
  <2>0. UNCHANGED <<database, branch, fresh, snap, seen, text, loop>>
    BY <1>3 DEF Answer
  <2>1. CASE UNCHANGED out /\ pc' = [pc EXCEPT ![r] = "unpublished"]
    <3>1. pc' \in [Run -> PC]
      BY <2>1 DEF TypeInv, TypeOK, PC
    <3>2. ViewsBounded' /\ TargetInView' /\ WindowFits' /\ ChunkFits' /\ OutputFits'
      BY <2>0, <2>1 DEF TypeInv, TypeOK, ViewsBounded, TargetInView, WindowFits,
         ChunkFits, OutputFits
    <3> QED BY <2>0, <2>1, <3>1, <3>2 DEF TypeInv, TypeOK, database, branch
  <2>2. ASSUME NEW j \in 1 .. Len(text[r]), NEW k \in j .. Len(text[r]),
               out' = [out EXCEPT ![r] = Output(r, j, k)],
               pc' = [pc EXCEPT ![r] = "publish"]
        PROVE  TypeInv'
    <3>1. OutShape(snap[r].offset, Output(r, j, k))
      BY <1>3, OutputShape DEF Answer, TypeInv, TypeOK, WindowFits, ChunkFits
    <3>2. pc' \in [Run -> PC] /\ out' \in [Run -> Seq(Compartment)]
      BY <2>2, <3>1 DEF TypeInv, TypeOK, PC, OutShape
    <3>3. OutputFits'
      BY <2>0, <2>2, <3>1 DEF TypeInv, TypeOK, OutputFits
    <3>4. ViewsBounded' /\ TargetInView' /\ WindowFits' /\ ChunkFits'
      BY <2>0, <2>2 DEF TypeInv, TypeOK, ViewsBounded, TargetInView, WindowFits, ChunkFits
    <3> QED BY <2>0, <3>2, <3>3, <3>4 DEF TypeInv, TypeOK, database, branch
  <2> QED BY <1>3, <2>1, <2>2 DEF Answer
<1>4. CASE Publish(r)
  <2>0. UNCHANGED <<lease, marker, inProgress, branch, fresh, snap, seen, text, out, loop>>
    BY <1>4 DEF Publish
  <2>1. CASE pc' = [pc EXCEPT ![r] = "unpublished"]
             /\ UNCHANGED <<compartments, dropped, floor, pending, failed, recovery>>
    <3>1. pc' \in [Run -> PC]
      BY <2>1 DEF TypeInv, TypeOK, PC
    <3>2. ViewsBounded' /\ TargetInView' /\ WindowFits' /\ ChunkFits' /\ OutputFits'
      BY <2>0, <2>1 DEF TypeInv, TypeOK, ViewsBounded, TargetInView, WindowFits, ChunkFits,
         OutputFits
    <3> QED BY <2>0, <2>1, <3>1, <3>2 DEF TypeInv, TypeOK, branch
  <2>2. CASE CL!IsHeld(lease, r)
    <3>1. /\ pc' = [pc EXCEPT ![r] = "published"]
          /\ compartments' = compartments \o out[r] /\ dropped' = End(out[r])
          /\ floor' \in {floor, End(out[r]) + 1} /\ pending' \in {pending, End(out[r])}
          /\ failed' = FALSE /\ recovery' \in BOOLEAN
      BY <1>4, <2>2 DEF Publish
    <3>2. out[r] \in Seq(Compartment) /\ End(out[r]) \in 1 .. MaxMessage - 1
      <4>1. OutShape(snap[r].offset, out[r])
        BY <1>4 DEF Publish, TypeInv, OutputFits
      <4>2. out[r] # <<>> /\ out[r][Len(out[r])] \in Compartment
        BY <4>1, EmptySeq, ElementOfSeq DEF OutShape
      <4> QED BY <4>1, <4>2, BoundAssumption DEF OutShape, End, Compartment, Ordinal
    <3>3. /\ compartments' \in Seq(Compartment)
          /\ dropped' \in 0 .. MaxMessage /\ floor' \in Ordinal
          /\ pending' \in 0 .. MaxMessage
      BY <3>1, <3>2, ConcatProperties, BoundAssumption DEF TypeInv, TypeOK, Ordinal
    <3>4. pc' \in [Run -> PC]
      BY <3>1 DEF TypeInv, TypeOK, PC
    <3>5. ViewsBounded' /\ TargetInView' /\ WindowFits' /\ ChunkFits' /\ OutputFits'
      BY <2>0, <3>1 DEF TypeInv, TypeOK, ViewsBounded, TargetInView, WindowFits, ChunkFits,
         OutputFits
    <3> QED BY <2>0, <3>1, <3>3, <3>4, <3>5 DEF TypeInv, TypeOK, branch
  <2> QED BY <1>4, <2>1, <2>2 DEF Publish
<1>5. CASE Finish(r)
  <2>1. PICK v \in {"idle", "after"} : pc' = [pc EXCEPT ![r] = v]
    BY <1>5 DEF Finish
  <2>2. /\ pc' \in [Run -> PC] /\ snap' \in [Run -> Snapshot]
        /\ text' \in [Run -> Branch] /\ out' \in [Run -> Seq(Compartment)]
        /\ WindowFits' /\ ChunkFits' /\ OutputFits'
    BY <1>5, <2>1, ForgottenTyped DEF Finish
  <2>3. lease' \in CL!LeaseRow
    BY <1>5, LeaseTyped DEF Finish, TypeInv, TypeOK
  <2>4. recovery' \in BOOLEAN /\ inProgress' \in BOOLEAN
    BY <1>5 DEF Finish
  <2>5. seen' \in [Run -> Branch] /\ ViewsBounded' /\ TargetInView'
    <3>1. Len(<<>>) <= MaxMessage
      BY NoneTyped, BoundAssumption
    <3>2. seen' = [seen EXCEPT ![r] = IF r \in Wrap THEN seen[r] ELSE <<>>] /\ loop' = loop
      BY <1>5 DEF Finish
    <3> QED BY <3>1, <3>2, NoneTyped DEF TypeInv, TypeOK, ViewsBounded, TargetInView, Run
  <2> QED BY <1>5, <2>2, <2>3, <2>4, <2>5 DEF Finish, TypeInv, TypeOK, branch
<1> QED BY <1>1, <1>2, <1>3, <1>4, <1>5 DEF Historian

(* The steps of the wrapup loop: its target stays within what it read.     *)
LEMMA WrapupTyped ==
  ASSUME TypeInv, NEW w \in Wrap, WrapupStarts(w) \/ Wrapup(w)
  PROVE  TypeInv'
<1>1. w \in Run
  BY DEF Run
<1>2. raw \in Branch /\ Len(raw) \in 0 .. MaxMessage
  BY LenProperties, BoundAssumption DEF TypeInv, TypeOK, Branch
<1>3. End(compartments) \in 0 .. MaxMessage
  BY EndType DEF TypeInv, TypeOK
<1>4. CASE WrapupStarts(w)
  <2>1. PICK target \in Offset + 1 .. Len(raw) :
          loop' = [loop EXCEPT ![w] = [target |-> target, lastEnd |-> End(compartments),
                                       owned |-> FALSE]]
    BY <1>4 DEF WrapupStarts
  <2>2. target \in 0 .. MaxMessage /\ target <= Len(raw)
    BY <1>2, <1>3, <2>1, BoundAssumption DEF Offset
  <2>3. loop' \in [Wrap -> LoopState]
    BY <1>3, <2>1, <2>2 DEF TypeInv, TypeOK, LoopState
  <2>4. /\ seen' = [seen EXCEPT ![w] = raw] /\ pc' = [pc EXCEPT ![w] = "loop"] /\ marker' = w
        /\ UNCHANGED <<lease, compartments, dropped, floor, pending, recovery, failed,
                       inProgress, branch, fresh, snap, text, out>>
    BY <1>4 DEF WrapupStarts
  <2>5. seen' \in [Run -> Branch] /\ ViewsBounded' /\ TargetInView'
    <3>1. seen' \in [Run -> Branch] /\ ViewsBounded'
      BY <1>1, <1>2, <2>4 DEF TypeInv, TypeOK, ViewsBounded
    <3>2. TargetInView'
      BY <1>1, <2>1, <2>2, <2>4 DEF TypeInv, TypeOK, TargetInView, Run
    <3> QED BY <3>1, <3>2
  <2>6. pc' \in [Run -> PC] /\ WindowFits' /\ ChunkFits' /\ OutputFits'
    BY <2>4 DEF TypeInv, TypeOK, PC, WindowFits, ChunkFits, OutputFits
  <2> QED BY <2>3, <2>4, <2>5, <2>6 DEF TypeInv, TypeOK, branch
<1>5. CASE WrapupPlans(w)
  <2>1. PICK s \in Snapshots(seen[w], loop[w].target) : snap' = [snap EXCEPT ![w] = s]
    BY <1>5 DEF WrapupPlans
  <2>2. /\ loop[w].target \in 0 .. MaxMessage /\ loop[w].target <= Len(seen[w])
        /\ seen[w] \in Branch
    BY <1>1 DEF TypeInv, TypeOK, TargetInView, LoopState
  <2>3. s \in Snapshot /\ s.end <= Len(s.ids)
    <3>1. s \in Snapshot /\ s.end <= loop[w].target /\ s.ids = seen[w]
      BY <2>1, <2>2, SnapshotsTyped DEF TypeInv, TypeOK, Snapshots
    <3>2. Len(seen[w]) \in Nat
      BY <2>2, LenProperties DEF Branch
    <3> QED BY <2>2, <3>1, <3>2 DEF Snapshot, Ordinal
  <2>4. /\ loop' = [loop EXCEPT ![w].lastEnd = End(compartments)]
        /\ pc' = [pc EXCEPT ![w] = "wait"]
        /\ UNCHANGED <<database, branch, fresh, seen, text, out>>
    BY <1>5 DEF WrapupPlans
  <2>5. loop' \in [Wrap -> LoopState]
    BY <1>3, <2>4 DEF TypeInv, TypeOK, LoopState
  <2>6. ViewsBounded' /\ TargetInView'
    BY <2>4 DEF TypeInv, TypeOK, ViewsBounded, TargetInView, LoopState
  <2>7. pc' \in [Run -> PC] /\ snap' \in [Run -> Snapshot] /\ WindowFits'
    BY <2>1, <2>3, <2>4 DEF TypeInv, TypeOK, PC, WindowFits
  <2>8. ChunkFits' /\ OutputFits'
    BY <2>4, <2>1 DEF TypeInv, TypeOK, ChunkFits, OutputFits
  <2> QED BY <2>4, <2>5, <2>6, <2>7, <2>8 DEF TypeInv, TypeOK, database, branch
<1>6. CASE WrapupAcquires(w)
  <2>1. /\ lease' = CL!Acquired(w) /\ loop' = [loop EXCEPT ![w].owned = TRUE]
        /\ pc[w] = "wait" /\ pc' = [pc EXCEPT ![w] = "run"]
        /\ UNCHANGED <<marker, compartments, dropped, floor, pending, recovery, failed,
                       inProgress, branch, fresh, snap, seen, text, out>>
    BY <1>6 DEF WrapupAcquires
  <2>2. lease' \in CL!LeaseRow
    BY <1>1, <2>1, LeaseTyped DEF TypeInv, TypeOK
  <2>3. loop' \in [Wrap -> LoopState] /\ ViewsBounded' /\ TargetInView'
    BY <2>1 DEF TypeInv, TypeOK, LoopState, ViewsBounded, TargetInView
  <2>4. pc' \in [Run -> PC] /\ WindowFits' /\ ChunkFits' /\ OutputFits'
    BY <1>1, <2>1 DEF TypeInv, TypeOK, PC, WindowFits, ChunkFits, OutputFits
  <2> QED BY <2>1, <2>2, <2>3, <2>4 DEF TypeInv, TypeOK, branch
<1>7. CASE WrapupEnds(w) /\ UNCHANGED <<lease, compartments, dropped, floor, pending, failed,
                                        inProgress, branch, fresh>>
  <2>1. /\ pc' \in [Run -> PC] /\ snap' \in [Run -> Snapshot]
        /\ text' \in [Run -> Branch] /\ out' \in [Run -> Seq(Compartment)]
        /\ WindowFits' /\ ChunkFits' /\ OutputFits'
    BY <1>1, <1>7, ForgottenTyped DEF WrapupEnds
  <2>2. /\ loop' = [loop EXCEPT ![w] = NoLoop] /\ seen' = [seen EXCEPT ![w] = <<>>]
        /\ marker' \in {marker, NoHolder}
    BY <1>7 DEF WrapupEnds
  <2>3. seen' \in [Run -> Branch] /\ ViewsBounded' /\ TargetInView'
    <3>1. <<>> \in Branch /\ Len(<<>>) = 0
      BY NoneTyped
    <3>2. seen' \in [Run -> Branch] /\ ViewsBounded'
      BY <1>1, <2>2, <3>1, BoundAssumption DEF TypeInv, TypeOK, ViewsBounded
    <3>3. TargetInView'
      BY <1>1, <2>2, <3>1 DEF TypeInv, TypeOK, TargetInView, NoLoop, Run
    <3> QED BY <3>2, <3>3
  <2>4. recovery' \in BOOLEAN
    BY DEF WrapupStarts, Wrapup, WrapupCompletes, WrapupPlans, WrapupStops, WrapupAcquires,
       WrapupGivesUp, TypeInv, TypeOK, database
  <2>5. loop' \in [Wrap -> LoopState]
    BY <2>2, NoneTyped DEF TypeInv, TypeOK
  <2> QED BY <1>7, <2>1, <2>2, <2>3, <2>4, <2>5 DEF TypeInv, TypeOK, branch
<1> QED BY <1>4, <1>5, <1>6, <1>7 DEF Wrapup, WrapupCompletes, WrapupStops, WrapupGivesUp

(* A crash forgets the run and orphans its rows.                           *)
LEMMA CrashTyped ==
  ASSUME TypeInv, NEW r \in Run, Crash(r)
  PROVE  TypeInv'
<1>1. /\ pc' \in [Run -> PC] /\ snap' \in [Run -> Snapshot]
      /\ text' \in [Run -> Branch] /\ out' \in [Run -> Seq(Compartment)]
      /\ WindowFits' /\ ChunkFits' /\ OutputFits'
  BY ForgottenTyped DEF Crash
<1>2. lease' \in CL!LeaseRow /\ marker' \in Wrap \cup {Orphan, NoHolder}
  BY LeaseTyped DEF Crash, TypeInv, TypeOK
<1>3. crashes' \in 0 .. MaxCrashes
  BY BoundAssumption DEF Crash, TypeInv, TypeOK
<1>4. fresh' \in [Hist -> BOOLEAN]
  BY DEF Crash
<1>5. /\ seen' = [seen EXCEPT ![r] = <<>>]
      /\ loop' = [w \in Wrap |-> IF w = r THEN NoLoop ELSE loop[w]]
  BY DEF Crash
<1>6. <<>> \in Branch /\ Len(<<>>) = 0
  BY NoneTyped
<1>7. seen' \in [Run -> Branch] /\ ViewsBounded'
  BY <1>5, <1>6, BoundAssumption DEF TypeInv, TypeOK, ViewsBounded
<1>8. loop' \in [Wrap -> LoopState]
  BY <1>5, NoneTyped DEF TypeInv, TypeOK
<1>9. TargetInView'
  BY <1>5, <1>6 DEF TypeInv, TypeOK, TargetInView, NoLoop, Run
<1> QED BY <1>1, <1>2, <1>3, <1>4, <1>7, <1>8, <1>9 DEF Crash, TypeInv, TypeOK

LEMMA TypeStep == TypeInv /\ [Next]_vars => TypeInv'
<1> SUFFICES ASSUME TypeInv, [Next]_vars PROVE TypeInv'
  OBVIOUS
<1>1. CASE UNCHANGED vars
  BY <1>1 DEF vars, database, branch, locals, TypeInv, TypeOK, ViewsBounded, TargetInView,
     WindowFits, ChunkFits, OutputFits
<1> QED BY <1>1, EnvironmentTyped, PassTyped, TriggerTyped, HistorianTyped, WrapupTyped,
     CrashTyped DEF Next

(* Every variable of the session keeps its type, in every interleaving.    *)
THEOREM TypeCorrect == Spec => []TypeOK
<1>1. Spec => []TypeInv
  BY TypeInit, TypeStep, PTL DEF Spec
<1>2. TypeInv => TypeOK
  BY DEF TypeInv
<1> QED BY <1>1, <1>2, PTL

(* From the moment a wrapup has had the lease under its own live marker,   *)
(* no triggered historian works under the lease: spawnPiHistorianRun looks *)
(* at the marker once more after it has acquired.                          *)
THEOREM WrapupOwns == Spec => []WrapupOwnsPublication
<1>1. Init => WrapupOwnsPublication
  BY DEF Init, WrapupOwnsPublication, NoLoop
<1>2. TypeInv /\ WrapupOwnsPublication /\ [Next]_vars => WrapupOwnsPublication'
  BY WrapupOwnsStep DEF LeaseTypes, TypeInv, TypeOK
<1> QED BY <1>1, <1>2, TypeInit, TypeStep, PTL DEF Spec
-----------------------------------------------------------------------------
(* The history.  Only the holder of the lease changes it, and a run whose  *)
(* lease another run takes over does not get it back before it starts anew.*)
LEMMA PublisherStep ==
  ASSUME TypeInv, PublisherIsCurrent, [Next]_vars
  PROVE  PublisherIsCurrent'
<1> USE RunAssumption
<1> SUFFICES ASSUME NEW r \in Run, pc'[r] = "publish", lease'.holder = r
             PROVE  snap'[r].offset = Offset'
  BY DEF PublisherIsCurrent, CL!IsHeld
<1>0. pc[r] = "publish" /\ lease.holder = r => snap[r].offset = Offset
  BY DEF PublisherIsCurrent, CL!IsHeld
<1>1. CASE UNCHANGED <<compartments, pc, snap>> /\ lease'.holder \in {lease.holder, Orphan, NoHolder}
  BY <1>0, <1>1 DEF Offset
<1>2. CASE UNCHANGED vars \/ Environment
  <2>1. /\ UNCHANGED <<compartments, pc, snap>>
        /\ lease' \in {lease, CL!Expired(lease)}
    BY <1>2 DEF vars, database, locals, Environment, AppendMessage, NavigateTree, Overflow,
       ModelChange, LeaseExpires, MarkerExpires, DrainMarker
  <2>2. lease'.holder = lease.holder
    BY <2>1 DEF CL!Expired, CL!LeaseRow, TypeInv, TypeOK
  <2> QED BY <1>1, <2>1, <2>2
<1>3. ASSUME NEW h \in Hist, Pass(h) PROVE snap'[r].offset = Offset'
  BY <1>0, <1>3 DEF Pass, FirstPass, FirstPassSkipped, LaterPass, DisarmRecovery,
     PassDuringRun, SwitchSession, Spawn, Offset, TypeInv, TypeOK, database, locals, Run
<1>4. ASSUME NEW h \in Hist, Trigger(h) PROVE snap'[r].offset = Offset'
  BY <1>0, <1>4 DEF Trigger, AcquireLease, RecheckMarker, Forgotten, Offset, TypeInv, TypeOK,
     CL!Acquired, CL!Released, CL!NoRow, Run
<1>5. ASSUME NEW w \in Wrap, WrapupStarts(w) \/ Wrapup(w) PROVE snap'[r].offset = Offset'
  BY <1>0, <1>5 DEF WrapupStarts, Wrapup, WrapupCompletes, WrapupPlans, WrapupStops,
     WrapupAcquires, WrapupGivesUp, WrapupEnds, Forgotten, Offset, TypeInv, TypeOK, database,
     CL!Acquired, Run
<1>6. ASSUME NEW q \in Run, Historian(q) PROVE snap'[r].offset = Offset'
  <2>1. CASE ReadChunk(q) \/ NothingToRead(q) \/ Fails(q)
    BY <1>0, <2>1 DEF ReadChunk, NothingToRead, Fails, Offset, TypeInv, TypeOK
  <2>2. CASE Answer(q)
    BY <1>0, <2>2 DEF Answer, SnapshotValid, Offset, TypeInv, TypeOK, database
  <2>3. CASE Publish(q)
    BY <1>0, <2>3 DEF Publish, Offset, TypeInv, TypeOK, CL!IsHeld
  <2>4. CASE Finish(q)
    BY <1>0, <2>4 DEF Finish, Forgotten, Offset, TypeInv, TypeOK, CL!Released, CL!NoRow
  <2> QED BY <1>6, <2>1, <2>2, <2>3, <2>4 DEF Historian
<1>7. ASSUME NEW q \in Run, Crash(q) PROVE snap'[r].offset = Offset'
  BY <1>0, <1>7 DEF Crash, Forgotten, Offset, TypeInv, TypeOK, CL!Orphaned, CL!LeaseRow
<1> QED BY <1>2, <1>3, <1>4, <1>5, <1>6, <1>7 DEF Next

(* A run that is about to publish and still holds the lease continues the  *)
(* history as it is now, although its lease may have expired while its     *)
(* model worked: the recheck and the lease guard together leave no room    *)
(* for another publication in between.                                     *)
THEOREM PublisherCurrent == Spec => []PublisherIsCurrent
<1>1. Init => PublisherIsCurrent
  BY DEF Init, PublisherIsCurrent
<1>2. TypeInv /\ PublisherIsCurrent /\ [Next]_vars => PublisherIsCurrent'
  BY PublisherStep
<1> QED BY <1>1, <1>2, TypeInit, TypeStep, PTL DEF Spec
-----------------------------------------------------------------------------
(* The refinement of the abstract log.                                     *)
FollowersAgree == dropped = End(compartments) /\ floor = Offset

LogRange == [first : Ordinal, last : Ordinal]

LEMMA RangesTyped ==
  ASSUME NEW cs \in Seq(Compartment)
  PROVE  /\ Ranges(cs) \in Seq(LogRange) /\ Len(Ranges(cs)) = Len(cs)
         /\ \A i \in 1 .. Len(cs) :
              Ranges(cs)[i] = [first |-> cs[i].first, last |-> cs[i].last]
<1>1. Len(cs) \in Nat
  BY LenProperties
<1>2. \A i \in 1 .. Len(cs) : cs[i] \in Compartment
  BY ElementOfSeq
<1>3. Ranges(cs) \in [1 .. Len(cs) -> LogRange]
  BY <1>2 DEF Ranges, LogRange, Compartment
<1>4. Ranges(cs) \in Seq(LogRange)
  BY <1>1, <1>3, SeqDef
<1>5. DOMAIN Ranges(cs) = 1 .. Len(cs) /\ Len(Ranges(cs)) \in Nat
  BY <1>4, LenProperties DEF Ranges
<1>6. Len(Ranges(cs)) = Len(cs)
  BY <1>1, <1>4, <1>5, LenProperties
<1> QED BY <1>4, <1>6 DEF Ranges

LEMMA RangesConcat ==
  ASSUME NEW a \in Seq(Compartment), NEW b \in Seq(Compartment)
  PROVE  Ranges(a \o b) = Ranges(a) \o Ranges(b)
<1>1. /\ a \o b \in Seq(Compartment) /\ Len(a \o b) = Len(a) + Len(b)
      /\ \A i \in 1 .. Len(a) + Len(b) :
           (a \o b)[i] = IF i <= Len(a) THEN a[i] ELSE b[i - Len(a)]
  BY ConcatProperties
<1>2. Len(a) \in Nat /\ Len(b) \in Nat
  BY LenProperties
<1>3. /\ Ranges(a) \o Ranges(b) \in Seq(LogRange)
      /\ Len(Ranges(a) \o Ranges(b)) = Len(a) + Len(b)
      /\ \A i \in 1 .. Len(a) + Len(b) :
           (Ranges(a) \o Ranges(b))[i] =
             IF i <= Len(a) THEN Ranges(a)[i] ELSE Ranges(b)[i - Len(a)]
  <2>1. /\ Ranges(a) \in Seq(LogRange) /\ Len(Ranges(a)) = Len(a)
        /\ Ranges(b) \in Seq(LogRange) /\ Len(Ranges(b)) = Len(b)
    BY RangesTyped
  <2>2. /\ Ranges(a) \o Ranges(b) \in Seq(LogRange)
        /\ Len(Ranges(a) \o Ranges(b)) = Len(Ranges(a)) + Len(Ranges(b))
        /\ \A i \in 1 .. Len(Ranges(a)) + Len(Ranges(b)) :
             (Ranges(a) \o Ranges(b))[i] =
               IF i <= Len(Ranges(a)) THEN Ranges(a)[i] ELSE Ranges(b)[i - Len(Ranges(a))]
    BY <2>1, ConcatProperties, Zenon
  <2> QED BY <2>1, <2>2
<1>4. /\ Ranges(a \o b) \in Seq(LogRange) /\ Len(Ranges(a \o b)) = Len(a) + Len(b)
  BY <1>1, RangesTyped
<1>5. ASSUME NEW i \in 1 .. Len(a) + Len(b)
      PROVE  Ranges(a \o b)[i] = (Ranges(a) \o Ranges(b))[i]
  <2>1. Ranges(a \o b)[i] = [first |-> (a \o b)[i].first, last |-> (a \o b)[i].last]
    BY <1>1, RangesTyped
  <2>2. CASE i <= Len(a)
    <3>1. i \in 1 .. Len(a)
      BY <1>2, <2>2
    <3> QED BY <1>1, <1>3, <2>1, <2>2, <3>1, RangesTyped
  <2>3. CASE ~(i <= Len(a))
    <3>1. i - Len(a) \in 1 .. Len(b)
      BY <1>2, <2>3
    <3> QED BY <1>1, <1>3, <2>1, <2>3, <3>1, RangesTyped
  <2> QED BY <2>2, <2>3
<1> QED BY <1>3, <1>4, <1>5, SeqEqual

LEMMA EndConcat ==
  ASSUME NEW a \in Seq(Compartment), NEW b \in Seq(Compartment), b # <<>>
  PROVE  End(a \o b) = End(b) /\ a \o b # <<>>
<1>1. Len(a) \in Nat /\ Len(b) \in Nat \ {0}
  BY LenProperties, EmptySeq
<1>2. /\ a \o b \in Seq(Compartment) /\ Len(a \o b) = Len(a) + Len(b)
      /\ (a \o b)[Len(a) + Len(b)] = b[Len(b)]
  BY <1>1, ConcatProperties
<1>3. a \o b # <<>>
  BY <1>1, <1>2, EmptySeq
<1> QED BY <1>1, <1>2, <1>3 DEF End

(* The abstract log's last ordinal is that of the compartments.            *)
LEMMA LogEnd ==
  ASSUME NEW cs \in Seq(Compartment)
  PROVE  HL!End(Ranges(cs)) = End(cs)
<1>1. Len(cs) \in Nat /\ Len(Ranges(cs)) = Len(cs) /\ Ranges(cs) \in Seq(LogRange)
  BY LenProperties, RangesTyped
<1>2. CASE cs = <<>>
  <2>1. Ranges(cs) = <<>>
    BY <1>1, <1>2, EmptySeq
  <2> QED BY <1>2, <2>1 DEF HL!End, End
<1>3. CASE cs # <<>>
  <2>1. Len(cs) \in 1 .. Len(cs) /\ Ranges(cs) # <<>>
    BY <1>1, <1>3, EmptySeq
  <2>2. Ranges(cs)[Len(cs)] = [first |-> cs[Len(cs)].first, last |-> cs[Len(cs)].last]
    BY <2>1, RangesTyped
  <2> QED BY <1>1, <1>3, <2>1, <2>2 DEF HL!End, End
<1> QED BY <1>2, <1>3

(* A well-formed output is one step of the abstract log.                   *)
LEMMA OutputIsPublish ==
  ASSUME compartments \in Seq(Compartment), NEW o, OutShape(Offset, o),
         compartments' = compartments \o o, dropped' = End(o), floor' = End(o) + 1,
         dropped < dropped'
  PROVE  HL!Next
<1>1. /\ o \in Seq(Compartment) /\ Len(o) \in {1, 2} /\ o # <<>>
      /\ \A i \in 1 .. Len(o) : o[i] \in Compartment
  BY EmptySeq, ElementOfSeq DEF OutShape
<1>2. compartments' \in Seq(Compartment) /\ End(compartments') = End(o)
  BY <1>1, ConcatProperties, EndConcat
<1>3. /\ Ranges(compartments') = Ranges(compartments) \o Ranges(o)
      /\ HL!End(Ranges(compartments)) = End(compartments)
      /\ HL!End(Ranges(compartments')) = End(o)
  BY <1>1, <1>2, RangesConcat, LogEnd
<1>4. /\ Len(Ranges(o)) = Len(o) /\ Ranges(o) \in Seq(LogRange)
      /\ \A i \in 1 .. Len(o) : Ranges(o)[i] = HL!Span(o[i].first, o[i].last)
  BY <1>1, RangesTyped DEF HL!Span
<1>5. End(compartments) \in 0 .. MaxMessage
  BY EndType
<1>6. HL!ContiguousFrom(Ranges(o), End(compartments))
  <2>1. ASSUME NEW i \in 1 .. Len(o)
        PROVE  /\ Ranges(o)[i].first = (IF i = 1 THEN End(compartments)
                                                 ELSE Ranges(o)[i - 1].last) + 1
               /\ Ranges(o)[i].first <= Ranges(o)[i].last
    <3>1. Ranges(o)[i].first = o[i].first /\ Ranges(o)[i].last = o[i].last
      <4>1. Ranges(o)[i] = HL!Span(o[i].first, o[i].last)
        BY <1>4
      <4>2. HL!Span(o[i].first, o[i].last) = [first |-> o[i].first, last |-> o[i].last]
        BY DEF HL!Span
      <4> QED BY <4>1, <4>2
    <3>2. CASE i = 1
      BY <3>1, <3>2 DEF OutShape, Offset
    <3>3. CASE i = 2
      <4>1. Len(o) = 2 /\ Ranges(o)[1] = HL!Span(o[1].first, o[1].last)
        BY <1>1, <1>4, <3>3
      <4> QED BY <3>1, <3>3, <4>1 DEF OutShape, HL!Span
    <3> QED BY <1>1, <3>2, <3>3
  <2>2. Len(Ranges(o)) = Len(o)
    BY <1>4
  <2> QED BY <2>1, <2>2, Zenon DEF HL!ContiguousFrom
<1>7. HL!Publish(Ranges(o))
  BY <1>2, <1>3, <1>6 DEF HL!Publish
<1>8. CASE Len(o) = 1
  <2>1. Ranges(o) = <<HL!Span(End(compartments) + 1, o[1].last)>>
    BY <1>4, <1>8 DEF OutShape, Offset
  <2>2. o[1].last \in End(compartments) + 1 .. MaxMessage
    BY <1>1, <1>5, <1>8, BoundAssumption DEF OutShape, Offset, Compartment, Ordinal
  <2> QED BY <1>3, <1>7, <2>1, <2>2 DEF HL!Next
<1>9. CASE Len(o) = 2
  <2>1. Ranges(o) = <<HL!Span(End(compartments) + 1, o[1].last),
                      HL!Span(o[1].last + 1, o[2].last)>>
    BY <1>4, <1>9 DEF OutShape, Offset
  <2>2. /\ o[1].last \in End(compartments) + 1 .. MaxMessage
        /\ o[2].last \in o[1].last + 1 .. MaxMessage
    BY <1>1, <1>5, <1>9, BoundAssumption DEF OutShape, Offset, Compartment, Ordinal
  <2> QED BY <1>3, <1>7, <2>1, <2>2 DEF HL!Next
<1> QED BY <1>1, <1>8, <1>9

(* Every step that is not a publication leaves the log and its followers.  *)
LEMMA OthersStutter ==
  ASSUME [Next]_vars, ~ \E r \in Run : Publish(r) /\ CL!IsHeld(lease, r)
  PROVE  UNCHANGED <<compartments, dropped, floor>>
<1>1. CASE UNCHANGED vars
  BY <1>1 DEF vars, database
<1>2. CASE Environment
  BY <1>2 DEF Environment, AppendMessage, NavigateTree, Overflow, ModelChange, LeaseExpires,
     MarkerExpires, DrainMarker, database
<1>3. ASSUME NEW h \in Hist, Pass(h) \/ Trigger(h)
      PROVE  UNCHANGED <<compartments, dropped, floor>>
  BY <1>3 DEF Pass, FirstPass, FirstPassSkipped, LaterPass, DisarmRecovery, PassDuringRun,
     SwitchSession, Trigger, AcquireLease, RecheckMarker, database
<1>4. ASSUME NEW w \in Wrap, WrapupStarts(w) \/ Wrapup(w)
      PROVE  UNCHANGED <<compartments, dropped, floor>>
  BY <1>4 DEF WrapupStarts, Wrapup, WrapupCompletes, WrapupPlans, WrapupStops,
     WrapupAcquires, WrapupGivesUp, database
<1>5. ASSUME NEW r \in Run, Historian(r) \/ Crash(r)
      PROVE  UNCHANGED <<compartments, dropped, floor>>
  BY <1>5 DEF Historian, ReadChunk, NothingToRead, Fails, Answer, Publish, Finish, Crash,
     database
<1> QED BY <1>1, <1>2, <1>3, <1>4, <1>5 DEF Next

LEMMA LogStep ==
  ASSUME TypeInv, PublisherIsCurrent, FollowersAgree, [Next]_vars
  PROVE  FollowersAgree' /\ [HL!Next]_(HL!vars)
<1>1. CASE UNCHANGED <<compartments, dropped, floor>>
  BY <1>1 DEF FollowersAgree, Offset, HL!vars
<1>2. ASSUME NEW r \in Run, Publish(r), CL!IsHeld(lease, r)
      PROVE  FollowersAgree' /\ HL!Next
  <2>1. /\ compartments' = compartments \o out[r] /\ dropped' = End(out[r])
        /\ floor' = IF floor < End(out[r]) + 1 THEN End(out[r]) + 1 ELSE floor
    BY <1>2 DEF Publish
  <2>2. OutShape(Offset, out[r])
    BY <1>2 DEF Publish, TypeInv, OutputFits, PublisherIsCurrent
  <2>3. compartments \in Seq(Compartment) /\ out[r] \in Seq(Compartment) /\ out[r] # <<>>
    BY <2>2, EmptySeq DEF TypeInv, TypeOK, OutShape
  <2>4. floor = End(compartments) + 1 /\ End(compartments) \in Nat
    BY <2>3, EndType DEF FollowersAgree, Offset
  <2>5. End(out[r]) \in Nat /\ End(out[r]) >= Offset
    <3>1. \A i \in 1 .. Len(out[r]) : out[r][i] \in Compartment
      BY <2>3, ElementOfSeq
    <3>2. CASE Len(out[r]) = 1
      <4>1. /\ out[r][1] \in Compartment /\ out[r][1].first = Offset
            /\ out[r][1].first <= out[r][1].last
        BY <2>2, <3>1, <3>2 DEF OutShape
      <4> QED BY <2>3, <3>2, <4>1, BoundAssumption DEF End, Compartment, Ordinal
    <3>3. CASE Len(out[r]) = 2
      <4>1. /\ out[r][1] \in Compartment /\ out[r][1].first = Offset
            /\ out[r][1].first <= out[r][1].last
            /\ out[r][2] \in Compartment /\ out[r][2].first = out[r][1].last + 1
            /\ out[r][2].first <= out[r][2].last
        BY <2>2, <3>1, <3>3 DEF OutShape
      <4>2. End(out[r]) = out[r][2].last
        BY <2>3, <3>3 DEF End
      <4> QED BY <4>1, <4>2, BoundAssumption DEF Compartment, Ordinal
    <3> QED BY <2>2, <3>2, <3>3 DEF OutShape
  <2>6. floor' = End(out[r]) + 1
    BY <2>1, <2>4, <2>5 DEF Offset
  <2>7. FollowersAgree'
    BY <2>1, <2>3, <2>6, EndConcat DEF FollowersAgree, Offset
  <2>8. dropped < dropped'
    BY <2>1, <2>4, <2>5 DEF FollowersAgree, Offset
  <2>9. HL!Next
    BY <2>1, <2>2, <2>3, <2>6, <2>8, OutputIsPublish
  <2> QED BY <2>7, <2>9
<1> QED BY <1>1, <1>2, OthersStutter

(* However many processes and wrapups publish, crash and lose their lease, *)
(* the stored history is an append-only log without gap or overlap, and    *)
(* the drop queue and the tail floor move with it in the same step.        *)
THEOREM PublicationImplementsLog == Spec => HistoryIsLog
<1>1. Init => HL!Init /\ FollowersAgree /\ PublisherIsCurrent
  BY DEF Init, HL!Init, FollowersAgree, End, Offset, Ranges, PublisherIsCurrent
<1>2. TypeInv /\ PublisherIsCurrent /\ FollowersAgree /\ [Next]_vars
        => PublisherIsCurrent' /\ FollowersAgree' /\ [HL!Next]_(HL!vars)
  BY PublisherStep, LogStep
<1> QED BY <1>1, <1>2, TypeInit, TypeStep, PTL DEF Spec, HistoryIsLog, HL!Spec
=============================================================================
