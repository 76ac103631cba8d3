-------------------------- MODULE RecompStagingProofs --------------------------
(***************************************************************************)
(* Proofs about RecompStaging, for any number of commands, messages and    *)
(* crashes.                                                                *)
(***************************************************************************)
EXTENDS RecompStaging, SequenceTheorems, TLAPS

USE CmdAssumption, RecompBoundAssumption
-----------------------------------------------------------------------------
(* Sequences of rows.                                                      *)

LEMMA LenOfFunction ==
  ASSUME NEW S, NEW n \in Nat, NEW f \in [1 .. n -> S]
  PROVE  f \in Seq(S) /\ Len(f) = n
<1>1. f \in Seq(S)
  BY SeqDef
<1>2. Len(f) \in Nat /\ DOMAIN f = 1 .. Len(f) /\ DOMAIN f = 1 .. n
  BY <1>1, LenProperties
<1> QED BY <1>1, <1>2

LEMMA StagedRowsTyped ==
  ASSUME staging \in Seq(StagedRow)
  PROVE  /\ StagedRows \in Seq(Row)
         /\ Len(StagedRows) = Len(staging)
         /\ \A i \in 1 .. Len(staging) : StagedRows[i] = staging[i].row
<1>1. Len(staging) \in Nat
  BY LenProperties
<1>2. \A i \in 1 .. Len(staging) : staging[i].row \in Row
  <2>1. \A i \in 1 .. Len(staging) : staging[i] \in StagedRow
    BY ElementOfSeq
  <2> QED BY <2>1 DEF StagedRow
<1>3. StagedRows \in [1 .. Len(staging) -> Row]
  BY <1>2 DEF StagedRows
<1>4. StagedRows \in Seq(Row) /\ Len(StagedRows) = Len(staging)
  BY <1>1, <1>3, LenOfFunction
<1> QED BY <1>4 DEF StagedRows

LEMMA LastEndTyped ==
  ASSUME NEW cs \in Seq(Row)
  PROVE  LastEnd(cs) \in 0 .. MaxMessage
<1>1. CASE cs = <<>>
  BY <1>1 DEF LastEnd
<1>2. CASE cs # <<>>
  <2>1. Len(cs) \in 1 .. Len(cs)
    BY <1>2, LenProperties, EmptySeq
  <2>2. cs[Len(cs)] \in Row
    BY <2>1, ElementOfSeq
  <2> QED BY <1>2, <2>2 DEF LastEnd, Row, Ordinal
<1> QED BY <1>1, <1>2

(* A pass that is saved over at most as many rows replaces them all.       *)
LEMMA SavedRows ==
  ASSUME staging \in Seq(StagedRow), NEW cs \in Seq(Row), NEW p \in BOOLEAN
  PROVE  /\ Saved(cs, p) \in Seq(StagedRow)
         /\ Len(staging) <= Len(cs) =>
              /\ Len(Saved(cs, p)) = Len(cs)
              /\ \A i \in 1 .. Len(cs) : Saved(cs, p)[i].row = cs[i]
<1> DEFINE new  == [i \in 1 .. Len(cs) |-> [row |-> cs[i], passed |-> p]]
           rest == SubSeq(staging, Len(cs) + 1, Len(staging))
<1>1. Len(cs) \in Nat /\ Len(staging) \in Nat
  BY LenProperties
<1>2. \A i \in 1 .. Len(cs) : cs[i] \in Row
  BY ElementOfSeq
<1>3. new \in [1 .. Len(cs) -> StagedRow]
  BY <1>2 DEF StagedRow
<1>4. new \in Seq(StagedRow)
  BY <1>1, <1>3, LenOfFunction
<1>5. Len(new) = Len(cs)
  BY <1>1, <1>3, LenOfFunction
<1>6. rest \in Seq(StagedRow)
  <2>1. ASSUME NEW i \in Len(cs) + 1 .. Len(staging) PROVE staging[i] \in StagedRow
    <3>1. i \in 1 .. Len(staging)
      BY <1>1
    <3> QED BY <3>1, ElementOfSeq
  <2> QED BY <1>1, <2>1, SubSeqProperties
<1>7. new \o rest \in Seq(StagedRow)
  BY <1>4, <1>6, ConcatProperties
<1>8. ASSUME Len(staging) <= Len(cs)
      PROVE  rest = <<>>
  BY <1>1, <1>8, SubSeqEmpty
<1>9. ASSUME Len(staging) <= Len(cs)
      PROVE  new \o rest = new
  BY <1>4, <1>8, <1>9, ConcatEmptySeq
<1> HIDE DEF rest
<1>10. \A i \in 1 .. Len(cs) : new[i].row = cs[i]
  BY <1>1
<1> QED BY <1>5, <1>7, <1>9, <1>10 DEF Saved, rest
-----------------------------------------------------------------------------
(* Types.                                                                  *)

LEMMA LeaseTyped ==
  ASSUME lease \in CL!LeaseRow, NEW r \in Cmd \cup {Historian}
  PROVE  /\ CL!NoRow \in CL!LeaseRow /\ CL!Acquired(r) \in CL!LeaseRow
         /\ CL!Released(lease, r) \in CL!LeaseRow /\ CL!Expired(lease) \in CL!LeaseRow
         /\ CL!Orphaned(lease, r) \in CL!LeaseRow
BY DEF CL!LeaseRow, CL!NoRow, CL!Acquired, CL!Released, CL!Expired, CL!Orphaned

LEMMA NoJobTyped == NoJob \in Job
<1>1. <<>> \in Seq(Row)
  BY EmptySeq
<1> QED BY <1>1 DEF NoJob, Job

LEMMA PartialJobTyped ==
  ASSUME live \in Seq(Row), NEW i \in 1 .. Len(live), NEW j \in i .. Len(live)
  PROVE  /\ PartialJob(i, j) \in Job
         /\ live[i] \in Row /\ live[j] \in Row
         /\ PartialJob(i, j).from = live[i].first
<1>1. Len(live) \in Nat
  BY LenProperties
<1>2. \A k \in 1 .. Len(live) : live[k] \in Row
  BY ElementOfSeq
<1>3. SubSeq(live, j + 1, Len(live)) \in Seq(Row)
  <2>1. \A k \in j + 1 .. Len(live) : live[k] \in Row
    BY <1>1, <1>2
  <2> QED BY <1>1, <2>1, SubSeqProperties
<1>4. live[i] \in Row /\ live[j] \in Row
  BY <1>1, <1>2
<1>5. live[i].first \in 0 .. MaxMessage /\ live[j].last \in 0 .. MaxMessage /\ i - 1 \in Nat
  BY <1>1, <1>4 DEF Row, Ordinal
<1> HIDE DEF Job
<1>6. PartialJob(i, j) \in Job
  BY <1>3, <1>5, NoJobTyped DEF PartialJob, NoJob, Job
<1> QED BY <1>4, <1>6 DEF PartialJob, NoJob

LEMMA MadeTyped ==
  ASSUME NEW c \in Cmd, job[c] \in Job, job[c].chunk \in 0 .. MaxMessage,
         NEW new \in Outputs(c)
  PROVE  new \in Seq(Row) /\ new # <<>>
<1> DEFINE a == job[c].offset
           e == job[c].chunk
<1>1. a \in 1 .. MaxMessage + 1 /\ e \in 0 .. MaxMessage
  BY DEF Job
<1>2. \A x, y \in Ordinal : Made(c, x, y) \in Row
  BY DEF Made, Row
<1>3. CASE \E k \in a .. e : new = <<Made(c, a, k)>>
  <2>1. PICK k \in a .. e : new = <<Made(c, a, k)>>
    BY <1>3
  <2>2. Made(c, a, k) \in Row
    BY <1>1, <1>2, <2>1 DEF Ordinal
  <2> QED BY <2>1, <2>2
<1>4. CASE \E k \in a .. e - 1, l \in a + 1 .. e :
             new = <<Made(c, a, k), Made(c, k + 1, l)>>
  <2>1. PICK k \in a .. e - 1, l \in a + 1 .. e :
               new = <<Made(c, a, k), Made(c, k + 1, l)>>
    BY <1>4
  <2>2. Made(c, a, k) \in Row /\ Made(c, k + 1, l) \in Row
    BY <1>1, <1>2, <2>1 DEF Ordinal
  <2> QED BY <2>1, <2>2
<1> QED BY <1>3, <1>4 DEF Outputs

(* Changing some of a command's local variables leaves it typed.           *)
LEMMA JobField ==
  ASSUME NEW g \in Job
  PROVE  /\ \A cs \in Seq(Row) : [g EXCEPT !.cand = cs] \in Job
         /\ \A o \in 1 .. MaxMessage + 1 : [g EXCEPT !.offset = o] \in Job
         /\ \A n \in 0 .. MaxMessage : [g EXCEPT !.chunk = n] \in Job
         /\ \A n \in 0 .. MaxMessage : [g EXCEPT !.from = n] \in Job
         /\ \A n \in 0 .. MaxMessage : [g EXCEPT !.to = n] \in Job
         /\ \A p \in BOOLEAN : [g EXCEPT !.passed = p] \in Job
         /\ [g EXCEPT !.partial = TRUE] \in Job
<1>1. ASSUME NEW cs \in Seq(Row) PROVE [g EXCEPT !.cand = cs] \in Job
  BY DEF Job
<1>2. ASSUME NEW o \in 1 .. MaxMessage + 1 PROVE [g EXCEPT !.offset = o] \in Job
  BY DEF Job
<1>3. ASSUME NEW n \in 0 .. MaxMessage
      PROVE  [g EXCEPT !.chunk = n] \in Job
  BY DEF Job
<1>4. ASSUME NEW n \in 0 .. MaxMessage
      PROVE  [g EXCEPT !.from = n] \in Job
  BY DEF Job
<1>5. ASSUME NEW n \in 0 .. MaxMessage
      PROVE  [g EXCEPT !.to = n] \in Job
  BY DEF Job
<1>6. ASSUME NEW p \in BOOLEAN PROVE [g EXCEPT !.passed = p] \in Job
  BY DEF Job
<1>7. [g EXCEPT !.partial = TRUE] \in Job
  BY DEF Job
<1> QED BY <1>1, <1>2, <1>3, <1>4, <1>5, <1>6, <1>7

LEMMA JobFields ==
  ASSUME NEW g \in Job, NEW cs \in Seq(Row), NEW o \in 1 .. MaxMessage + 1,
         NEW p \in BOOLEAN
  PROVE  /\ [g EXCEPT !.cand = cs, !.passed = p] \in Job
         /\ [g EXCEPT !.cand = cs, !.offset = o] \in Job
         /\ [g EXCEPT !.cand = cs, !.offset = o, !.passed = p] \in Job
         /\ [g EXCEPT !.cand = cs, !.passed = p, !.offset = o, !.chunk = 0] \in Job
<1> DEFINE g1 == [g EXCEPT !.cand = cs]
           g2 == [g1 EXCEPT !.offset = o]
           g3 == [g1 EXCEPT !.passed = p]
           g4 == [g3 EXCEPT !.offset = o]
<1>1. g1 \in Job
  BY JobField
<1>2. g2 \in Job
  BY <1>1, JobField
<1>3. g3 \in Job
  BY <1>1, JobField
<1>4. g4 \in Job
  BY <1>3, JobField
<1>5. [g2 EXCEPT !.passed = p] \in Job /\ [g4 EXCEPT !.chunk = 0] \in Job
  <2>1. 0 \in 0 .. MaxMessage
    OBVIOUS
  <2> HIDE DEF g2, g4
  <2> QED BY <1>2, <1>4, <2>1, JobField
<1>6. /\ [g EXCEPT !.cand = cs, !.passed = p] = g3
      /\ [g EXCEPT !.cand = cs, !.offset = o] = g2
      /\ [g EXCEPT !.cand = cs, !.offset = o, !.passed = p] = [g2 EXCEPT !.passed = p]
      /\ [g EXCEPT !.cand = cs, !.passed = p, !.offset = o, !.chunk = 0]
           = [g4 EXCEPT !.chunk = 0]
  OBVIOUS
<1> QED BY <1>2, <1>3, <1>5, <1>6, Zenon

LEMMA RecompTypeInit == Init => RecompTypeOK
<1>1. <<>> \in Seq(Row) /\ <<>> \in Seq(StagedRow)
  BY EmptySeq
<1>2. CL!NoRow \in CL!LeaseRow
  BY DEF CL!NoRow, CL!LeaseRow
<1> QED BY <1>1, <1>2, NoJobTyped DEF Init, RecompTypeOK, NoRange, RecompRange, PC

(* What one step of a command leaves typed.                                *)
LEMMA StepTyped ==
  ASSUME RecompTypeOK, NEW c \in Cmd, Step(c)
  PROVE  RecompTypeOK'
<1> USE DEF RecompTypeOK, Goto, rows
<1>t. /\ NoJob \in Job /\ NoRange \in RecompRange
      /\ <<>> \in Seq(Row) /\ <<>> \in Seq(StagedRow)
      /\ StagedRows \in Seq(Row) /\ Len(live) \in Nat
      /\ job[c] \in Job /\ job[c].cand \in Seq(Row) /\ job[c].tail \in Seq(Row)
      /\ LastEnd(StagedRows) \in 0 .. MaxMessage
      /\ LastEnd(job[c].cand) \in 0 .. MaxMessage
  <2>1. NoJob \in Job /\ NoRange \in RecompRange
    BY NoJobTyped DEF NoRange, RecompRange
  <2>2. <<>> \in Seq(Row) /\ <<>> \in Seq(StagedRow) /\ Len(live) \in Nat
    BY EmptySeq, LenProperties
  <2>3. StagedRows \in Seq(Row)
    BY StagedRowsTyped
  <2>4. job[c] \in Job
    OBVIOUS
  <2>5. job[c].cand \in Seq(Row) /\ job[c].tail \in Seq(Row)
    BY <2>4 DEF Job
  <2> QED BY <2>1, <2>2, <2>3, <2>4, <2>5, LastEndTyped
<1>j. ASSUME NEW g \in Job, job' = [job EXCEPT ![c] = g] PROVE job' \in [Cmd -> Job]
  BY <1>j
<1>l. CL!Released(lease, c) \in CL!LeaseRow
  BY LeaseTyped
<1>s. ASSUME NEW cs \in Seq(Row), NEW p \in BOOLEAN PROVE Saved(cs, p) \in Seq(StagedRow)
  BY SavedRows
<1>1. CASE YieldToWrapup(c)
  BY <1>1, <1>l DEF YieldToWrapup, PC
<1>2. CASE BeginFull(c)
  <2>1. PICK to \in 0 .. MaxMessage : job' = [job EXCEPT ![c] =
          [NoJob EXCEPT !.from = 1, !.to = to, !.cand = StagedRows,
                        !.offset = LastEnd(StagedRows) + 1,
                        !.passed = \E i \in 1 .. Len(staging) : staging[i].passed]]
    BY <1>2 DEF BeginFull
  <2> DEFINE p  == \E i \in 1 .. Len(staging) : staging[i].passed
             o  == LastEnd(StagedRows) + 1
             g1 == [NoJob EXCEPT !.from = 1]
             g2 == [g1 EXCEPT !.to = to]
  <2>8. 1 \in 0 .. MaxMessage
    OBVIOUS
  <2>3. g1 \in Job
    BY <1>t, <2>8, JobField, Zenon
  <2>4. g2 \in Job
    BY <2>3, JobField
  <2>5. p \in BOOLEAN /\ o \in 1 .. MaxMessage + 1
    BY <1>t
  <2>6. [NoJob EXCEPT !.from = 1, !.to = to, !.cand = StagedRows, !.offset = o, !.passed = p]
          = [g2 EXCEPT !.cand = StagedRows, !.offset = o, !.passed = p]
    OBVIOUS
  <2>7. [g2 EXCEPT !.cand = StagedRows, !.offset = o, !.passed = p] \in Job
    <3> HIDE DEF g2, p, o
    <3> QED BY <1>t, <2>4, <2>5, JobFields
  <2>2. job' \in [Cmd -> Job]
    BY <1>j, <2>1, <2>6, <2>7, Zenon
  <2> QED BY <1>2, <2>2 DEF BeginFull, PC
<1>3. CASE NothingToRebuild(c) \/ Refuses(c)
  <2>1. job' = [job EXCEPT ![c] = [job[c] EXCEPT !.partial = TRUE]]
    BY <1>3 DEF NothingToRebuild, Refuses
  <2>2. job' \in [Cmd -> Job]
    BY <1>j, <1>t, <2>1, JobField
  <2>3. pc' \in [Cmd -> PC] /\ UNCHANGED <<rows, crashes>>
    BY <1>3 DEF NothingToRebuild, Refuses, PC
  <2> QED BY <2>2, <2>3
<1>4. CASE BeginPartial(c)
  <2>0. PICK i \in 1 .. Len(live) : \E j \in i .. Len(live) :
          job' = [job EXCEPT ![c] =
            [PartialJob(i, j) EXCEPT !.cand = SubSeq(live, 1, i - 1),
                                     !.offset = live[i].first]]
    BY <1>4 DEF BeginPartial, Snaps
  <2>1. PICK j \in i .. Len(live) :
          job' = [job EXCEPT ![c] =
            [PartialJob(i, j) EXCEPT !.cand = SubSeq(live, 1, i - 1),
                                     !.offset = live[i].first]]
    BY <2>0
  <2>2. PartialJob(i, j) \in Job /\ live[i].first \in 1 .. MaxMessage + 1
    <3>1. live[i] \in Row
      BY ElementOfSeq
    <3>2. live[i].first \in Ordinal
      BY <3>1 DEF Row
    <3>3. live[i].first \in 1 .. MaxMessage + 1
      BY <3>2, RecompBoundAssumption DEF Ordinal
    <3> QED BY <3>3, PartialJobTyped, Zenon
  <2>3. SubSeq(live, 1, i - 1) \in Seq(Row)
    <3>1. \A k \in 1 .. Len(live) : live[k] \in Row
      BY ElementOfSeq
    <3>2. \A k \in 1 .. i - 1 : live[k] \in Row
      BY <1>t, <3>1
    <3> QED BY <1>t, <3>2, SubSeqProperties
  <2>4. job' \in [Cmd -> Job]
    BY <1>j, <2>1, <2>2, <2>3, JobFields
  <2> QED BY <1>4, <2>4 DEF BeginPartial, PC
<1>5. CASE SeedStaging(c)
  BY <1>5, <1>t, <1>s DEF SeedStaging, PC
<1>6. CASE MarkRange(c)
  BY <1>6, <1>t DEF MarkRange, PC, RecompRange, Job
<1>7. CASE ResumePartial(c)
  <2>0. PICK i \in 1 .. Len(live) : \E j \in i .. Len(live) :
          job' = [job EXCEPT ![c] =
            [PartialJob(i, j) EXCEPT
               !.cand = StagedRows,
               !.offset = IF LastEnd(StagedRows) >= live[i].first
                            THEN LastEnd(StagedRows) + 1 ELSE live[i].first,
               !.passed = \E k \in 1 .. Len(staging) : staging[k].passed]]
    BY <1>7 DEF ResumePartial
  <2>1. PICK j \in i .. Len(live) :
          job' = [job EXCEPT ![c] =
            [PartialJob(i, j) EXCEPT
               !.cand = StagedRows,
               !.offset = IF LastEnd(StagedRows) >= live[i].first
                            THEN LastEnd(StagedRows) + 1 ELSE live[i].first,
               !.passed = \E k \in 1 .. Len(staging) : staging[k].passed]]
    BY <2>0
  <2>2. PartialJob(i, j) \in Job /\ live[i].first \in 1 .. MaxMessage + 1
    <3>1. live[i] \in Row
      BY ElementOfSeq
    <3>2. live[i].first \in Ordinal
      BY <3>1 DEF Row
    <3>3. live[i].first \in 1 .. MaxMessage + 1
      BY <3>2, RecompBoundAssumption DEF Ordinal
    <3> QED BY <3>3, PartialJobTyped, Zenon
  <2> DEFINE o == IF LastEnd(StagedRows) >= live[i].first
                    THEN LastEnd(StagedRows) + 1 ELSE live[i].first
             p == \E k \in 1 .. Len(staging) : staging[k].passed
  <2>4. o \in 1 .. MaxMessage + 1 /\ p \in BOOLEAN
    BY <1>t, <2>2
  <2>5. [PartialJob(i, j) EXCEPT !.cand = StagedRows, !.offset = o, !.passed = p] \in Job
    <3> HIDE DEF o, p
    <3> QED BY <1>t, <2>2, <2>4, JobFields
  <2>3. job' \in [Cmd -> Job]
    BY <1>j, <2>1, <2>5, Zenon
  <2> QED BY <1>7, <2>3 DEF ResumePartial, PC
<1>8. CASE ReadChunk(c)
  <2>1. job[c].offset \in 1 .. MaxMessage + 1 /\ job[c].to \in 0 .. MaxMessage
    BY <1>t DEF Job
  <2>3. PICK last \in job[c].offset .. job[c].to : job' = [job EXCEPT ![c].chunk = last]
    BY <1>8 DEF ReadChunk
  <2>4. last \in 0 .. MaxMessage
    BY <2>1
  <2>5. job' = [job EXCEPT ![c] = [job[c] EXCEPT !.chunk = last]]
    BY <2>3
  <2>2. job' \in [Cmd -> Job]
    BY <1>j, <1>t, <2>4, <2>5, JobField
  <2> QED BY <1>8, <2>2 DEF ReadChunk, PC
<1>9. CASE NoChunk(c)
  BY <1>9 DEF NoChunk, Stopped, PC
<1>10. CASE PassSucceeds(c)
  <2>1. PICK new \in Outputs(c) :
          /\ staging' = Saved(job[c].cand \o new, TRUE)
          /\ job' = [job EXCEPT ![c].cand = @ \o new, ![c].passed = TRUE,
                                ![c].offset = LastEnd(new) + 1, ![c].chunk = 0]
    BY <1>10 DEF PassSucceeds
  <2>2. new \in Seq(Row)
    BY <1>t, MadeTyped DEF Job
  <2>3. job[c].cand \o new \in Seq(Row) /\ LastEnd(new) \in 0 .. MaxMessage
    BY <1>t, <2>2, ConcatProperties, LastEndTyped
  <2> DEFINE g == [job[c] EXCEPT !.cand = job[c].cand \o new, !.passed = TRUE,
                                 !.offset = LastEnd(new) + 1, !.chunk = 0]
  <2>6. g \in Job
    <3>1. TRUE \in BOOLEAN /\ LastEnd(new) + 1 \in 1 .. MaxMessage + 1
      BY <2>3
    <3> QED BY <1>t, <2>3, <3>1, JobFields, Zenon
  <2>7. job' = [job EXCEPT ![c] = g]
    BY <2>1
  <2>4. job' \in [Cmd -> Job]
    <3> HIDE DEF g
    <3> QED BY <1>j, <2>6, <2>7
  <2>5. staging' \in Seq(StagedRow)
    BY <1>s, <2>1, <2>3
  <2> QED BY <1>10, <2>4, <2>5 DEF PassSucceeds, PC
<1>11. CASE PassFails(c)
  <2>1. job[c].offset \in 1 .. MaxMessage + 1 /\ job[c].chunk \in 0 .. MaxMessage
    BY <1>t DEF Job
  <2>2. \/ job' = job
        \/ \E last \in 0 .. MaxMessage : job' = [job EXCEPT ![c] = [job[c] EXCEPT !.chunk = last]]
    BY <1>11, <2>1 DEF PassFails
  <2>3. job' \in [Cmd -> Job]
    BY <1>j, <1>t, <2>2, JobField
  <2>4. pc' \in [Cmd -> PC]
    BY <1>11 DEF PassFails, Stopped, PC
  <2> QED BY <1>11, <2>3, <2>4 DEF PassFails
<1>12. CASE FullReady(c)
  BY <1>12, <1>t DEF FullReady, PC
<1>13. CASE PartialReady(c)
  <2>1. job[c].cand \o job[c].tail \in Seq(Row)
    BY <1>t, ConcatProperties
  <2> DEFINE g == [job[c] EXCEPT !.cand = job[c].cand \o job[c].tail, !.passed = TRUE]
  <2>2. g \in Job
    <3>1. TRUE \in BOOLEAN /\ 1 \in 1 .. MaxMessage + 1
      OBVIOUS
    <3> QED BY <1>t, <2>1, <3>1, JobFields, Zenon
  <2>3. job' = job \/ job' = [job EXCEPT ![c] = g]
    BY <1>13 DEF PartialReady
  <2>4. job' \in [Cmd -> Job]
    <3> HIDE DEF g
    <3> QED BY <1>j, <2>2, <2>3
  <2>5. pc' \in [Cmd -> PC]
    BY <1>13 DEF PartialReady, PC
  <2> QED BY <1>13, <2>4, <2>5 DEF PartialReady
<1>14. CASE SaveFinal(c)
  <2>1. job[c].passed \in BOOLEAN
    BY <1>t DEF Job
  <2> QED BY <1>14, <1>t, <1>s, <2>1 DEF SaveFinal, PC
<1>15. CASE Promote(c)
  <2>2. job' = job \/ job' = [job EXCEPT ![c] = [job[c] EXCEPT !.cand = StagedRows]]
    BY <1>15 DEF Promote
  <2>1. job' \in [Cmd -> Job]
    BY <1>j, <1>t, <2>2, JobField
  <2> QED BY <1>15, <1>t, <2>1 DEF Promote, PC
<1>16. CASE Published(c)
  BY <1>16, <1>t DEF Published, PC
<1>17. CASE Finish(c)
  BY <1>17, <1>t, <1>l DEF Finish, PC
<1> QED BY <1>1, <1>2, <1>3, <1>4, <1>5, <1>6, <1>7, <1>8, <1>9, <1>10, <1>11, <1>12,
           <1>13, <1>14, <1>15, <1>16, <1>17 DEF Step, Full, Partial, Pass

LEMMA OthersTyped ==
  ASSUME RecompTypeOK,
         \/ HistorianAcquires \/ HistorianPublishes \/ HistorianReleases \/ LeaseExpires
         \/ \E c \in Cmd : Acquire(c) \/ Crash(c)
  PROVE  RecompTypeOK'
<1> USE DEF RecompTypeOK, Goto
<1>1. CASE HistorianAcquires \/ HistorianReleases \/ LeaseExpires
  BY <1>1, LeaseTyped DEF HistorianAcquires, HistorianReleases, LeaseExpires
<1>2. CASE HistorianPublishes
  <2>1. LastEnd(live) \in 0 .. MaxMessage
    BY LastEndTyped
  <2>2. PICK e \in LastEnd(live) + 1 .. MaxMessage :
          /\ live' = Append(live, Made(Historian, LastEnd(live) + 1, e))
          /\ dropped' = IF dropped < e THEN e ELSE dropped
    BY <1>2 DEF HistorianPublishes
  <2>3. Made(Historian, LastEnd(live) + 1, e) \in Row
    BY <2>1, <2>2 DEF Made, Row, Ordinal
  <2>4. live' \in Seq(Row)
    BY <2>2, <2>3, AppendProperties
  <2> QED BY <1>2, <2>1, <2>2, <2>4 DEF HistorianPublishes
<1>3. ASSUME NEW c \in Cmd, Acquire(c) PROVE RecompTypeOK'
  BY <1>3, LeaseTyped DEF Acquire, PC
<1>4. ASSUME NEW c \in Cmd, Crash(c) PROVE RecompTypeOK'
  BY <1>4, LeaseTyped, NoJobTyped DEF Crash, PC
<1> QED BY <1>1, <1>2, <1>3, <1>4

(* Types are inductive as they stand: an offset is one past an ordinal,    *)
(* and a chunk never ends past the range.                                  *)
THEOREM RecompTypeCorrect == Spec => []RecompTypeOK
<1>1. ASSUME RecompTypeOK, [Next]_vars PROVE RecompTypeOK'
  <2>1. CASE UNCHANGED vars
    BY <1>1, <2>1 DEF RecompTypeOK, vars, rows
  <2>2. CASE Next
    BY <1>1, <2>2, StepTyped, OthersTyped DEF Next
  <2> QED BY <1>1, <2>1, <2>2
<1> QED BY <1>1, RecompTypeInit, PTL DEF Spec
-----------------------------------------------------------------------------
(* Exclusion.                                                              *)

(* As long as renewal keeps the lease of a live command, whoever is past   *)
(* acquiring it has a live row of its own, so one command works at a time. *)
Exclusive == \A c \in Cmd : pc[c] # "idle" => lease = CL!Acquired(c)

(* A step of a command moves that command alone, and touches the lease     *)
(* only to give it up.                                                     *)
LEMMA StepShape ==
  ASSUME RecompTypeOK, NEW c \in Cmd, Step(c)
  PROVE  /\ pc[c] # "idle"
         /\ \A d \in Cmd \ {c} : pc'[d] = pc[d] /\ job'[d] = job[d]
         /\ lease' = lease \/ pc'[c] = "idle"
<1> USE DEF RecompTypeOK, Goto, rows
<1>1. CASE YieldToWrapup(c) \/ Full(c) \/ Partial(c)
  BY <1>1 DEF YieldToWrapup, Full, Partial, BeginFull, FullReady, NothingToRebuild,
       Refuses, BeginPartial, SeedStaging, MarkRange, ResumePartial, PartialReady, AllRead
<1>2. CASE Pass(c)
  BY <1>2 DEF Pass, ReadChunk, NoChunk, PassSucceeds, PassFails
<1>3. CASE SaveFinal(c) \/ Promote(c) \/ Published(c) \/ Finish(c)
  BY <1>3 DEF SaveFinal, Promote, Published, Finish
<1> QED BY <1>1, <1>2, <1>3 DEF Step

LEMMA ExclusiveStep ==
  ASSUME LiveExpiry = FALSE, RecompTypeOK, Exclusive, [Next]_vars
  PROVE  Exclusive'
<1> USE DEF Exclusive, CL!Acquired
<1>1. CASE UNCHANGED vars
  BY <1>1 DEF vars, rows
<1>2. CASE HistorianAcquires \/ HistorianPublishes \/ HistorianReleases \/ LeaseExpires
  <2>1. pc' = pc
    BY <1>2 DEF HistorianAcquires, HistorianPublishes, HistorianReleases, LeaseExpires
  <2>2. ASSUME NEW d \in Cmd, pc[d] # "idle" PROVE lease' = lease
    <3>1. lease.holder = d /\ lease.live = TRUE /\ d \notin {Historian, Orphan, NoHolder}
      BY <2>2
    <3>2. ~HistorianAcquires
      BY <3>1 DEF HistorianAcquires, CL!CanAcquire
    <3>3. ~HistorianReleases /\ ~LeaseExpires
      BY <3>1 DEF HistorianReleases, LeaseExpires, CL!IsHeld
    <3> QED BY <1>2, <3>2, <3>3 DEF HistorianPublishes
  <2> QED BY <2>1, <2>2
<1>3. ASSUME NEW c \in Cmd, Acquire(c) PROVE Exclusive'
  <2>1. pc[c] = "idle" /\ pc' = [pc EXCEPT ![c] = "leased"] /\ lease' = CL!Acquired(c)
    BY <1>3 DEF Acquire, Goto
  <2>2. ASSUME NEW d \in Cmd PROVE pc[d] = "idle"
    <3>1. SUFFICES ASSUME pc[d] # "idle" PROVE FALSE
      OBVIOUS
    <3>2. lease.holder = d /\ lease.live = TRUE /\ d # NoHolder
      BY <3>1, CmdAssumption
    <3>3. CL!CanAcquire(lease, c)
      BY <1>3 DEF Acquire
    <3>4. d = c
      BY <3>2, <3>3 DEF CL!CanAcquire
    <3> QED BY <2>1, <3>1, <3>4
  <2> QED BY <2>1, <2>2 DEF RecompTypeOK
<1>4. ASSUME NEW c \in Cmd, Step(c) PROVE Exclusive'
  <2>1. \A d \in Cmd \ {c} : pc[d] = "idle"
    BY <1>4, StepShape
  <2> QED BY <1>4, <2>1, StepShape
<1>5. ASSUME NEW c \in Cmd, Crash(c) PROVE Exclusive'
  BY <1>5 DEF Crash, Goto, CL!Orphaned, RecompTypeOK
<1> QED BY <1>1, <1>2, <1>3, <1>4, <1>5 DEF Next
-----------------------------------------------------------------------------
(* Staging.                                                                *)

(* Between its acquisition and its promotion, the staging rows are the     *)
(* candidates of the command at work, or where the last of them are still  *)
(* to be saved, the first of them; what it promotes is contiguous.         *)
Staged(c) ==
  /\ pc[c] = "seed" => staging = <<>>
  /\ pc[c] \in {"mark", "next", "model", "promote"} => StagedRows = job[c].cand
  /\ pc[c] = "save" => job[c].cand = StagedRows \/ SH!Continues(StagedRows, job[c].cand)
  /\ pc[c] \in {"save", "promote"} => Valid(job[c].cand)

StagedInv == \A c \in Cmd : Staged(c)

RowsOf(st) == [i \in 1 .. Len(st) |-> st[i].row]

LEMMA SavedIsStaged ==
  ASSUME staging \in Seq(StagedRow), NEW cs \in Seq(Row), NEW p \in BOOLEAN,
         Len(staging) <= Len(cs)
  PROVE  RowsOf(Saved(cs, p)) = cs
<1>1. /\ Len(Saved(cs, p)) = Len(cs)
      /\ \A i \in 1 .. Len(cs) : Saved(cs, p)[i].row = cs[i]
  BY SavedRows
<1>2. RowsOf(Saved(cs, p)) = [i \in 1 .. Len(cs) |-> cs[i]]
  BY <1>1 DEF RowsOf
<1>3. cs = [i \in 1 .. Len(cs) |-> cs[i]]
  BY LenProperties
<1> QED BY <1>2, <1>3

(* Appending a sequence continues a sequence, unless it is empty.          *)
LEMMA AppendContinues ==
  ASSUME NEW S, NEW old \in Seq(S), NEW more \in Seq(S)
  PROVE  old \o more = old \/ SH!Continues(old, old \o more)
<1>1. /\ Len(old \o more) = Len(old) + Len(more)
      /\ Len(old) \in Nat /\ Len(more) \in Nat
      /\ \A i \in 1 .. Len(old) : (old \o more)[i] = old[i]
  BY ConcatProperties, LenProperties
<1>2. CASE more = <<>>
  BY <1>2, ConcatEmptySeq
<1>3. CASE more # <<>>
  <2>1. Len(more) > 0
    BY <1>3, <1>1, EmptySeq
  <2> QED BY <1>1, <2>1 DEF SH!Continues
<1> QED BY <1>2, <1>3

(* A command's own steps.                                                  *)
LEMMA StagedOwnStep ==
  ASSUME RecompTypeOK, NEW c \in Cmd, Staged(c), Step(c)
  PROVE  Staged(c)'
<1> USE DEF RecompTypeOK, Goto, rows
<1>t. /\ job[c] \in Job /\ job[c].cand \in Seq(Row) /\ job[c].tail \in Seq(Row)
      /\ job[c].passed \in BOOLEAN
      /\ StagedRows \in Seq(Row) /\ Len(StagedRows) = Len(staging) /\ Len(staging) \in Nat
      /\ Len(job[c].cand) \in Nat
  <2>1. job[c] \in Job
    OBVIOUS
  <2>2. job[c].cand \in Seq(Row) /\ job[c].tail \in Seq(Row) /\ job[c].passed \in BOOLEAN
    BY <2>1 DEF Job
  <2> QED BY <2>1, <2>2, StagedRowsTyped, LenProperties
<1>p. StagedRows' = RowsOf(staging')
  BY DEF StagedRows, RowsOf
<1>1. CASE pc'[c] \in {"idle", "end", "refused", "promoted"}
  BY <1>1 DEF Staged
<1>2. CASE BeginFull(c) \/ ResumePartial(c)
  <2>1. staging' = staging /\ pc'[c] = "next" /\ job'[c].cand = StagedRows
    <3>1. CASE BeginFull(c)
      <4>1. PICK to \in 0 .. MaxMessage : job' = [job EXCEPT ![c] =
              [NoJob EXCEPT !.from = 1, !.to = to, !.cand = StagedRows,
                            !.offset = LastEnd(StagedRows) + 1,
                            !.passed = \E i \in 1 .. Len(staging) : staging[i].passed]]
        BY <3>1 DEF BeginFull
      <4>2. job'[c].cand = StagedRows
        BY <4>1 DEF NoJob
      <4> QED BY <3>1, <4>2 DEF BeginFull
    <3>2. CASE ResumePartial(c)
      <4>1. \E i \in 1 .. Len(live) : \E j \in i .. Len(live) :
              job' = [job EXCEPT ![c] =
                [PartialJob(i, j) EXCEPT
                   !.cand = StagedRows,
                   !.offset = IF LastEnd(StagedRows) >= live[i].first
                                THEN LastEnd(StagedRows) + 1 ELSE live[i].first,
                   !.passed = \E k \in 1 .. Len(staging) : staging[k].passed]]
        BY <3>2 DEF ResumePartial
      <4>2. job'[c].cand = StagedRows
        BY <4>1 DEF PartialJob, NoJob
      <4> QED BY <3>2, <4>2 DEF ResumePartial
    <3> QED BY <1>2, <3>1, <3>2
  <2>2. StagedRows' = job'[c].cand
    BY <2>1 DEF StagedRows
  <2> QED BY <2>1, <2>2 DEF Staged
<1>3. CASE BeginPartial(c)
  BY <1>3 DEF BeginPartial, Staged
<1>4. CASE SeedStaging(c)
  <2>1. staging' = Saved(job[c].cand, FALSE) /\ pc'[c] = "mark" /\ job' = job /\ staging = <<>>
    BY <1>4 DEF SeedStaging, Staged
  <2>2. Len(staging) <= Len(job[c].cand)
    BY <1>t, <2>1, EmptySeq
  <2>3. StagedRows' = job[c].cand
    BY <1>t, <1>p, <2>1, <2>2, SavedIsStaged
  <2> QED BY <2>1, <2>3 DEF Staged
<1>5. CASE MarkRange(c)
  BY <1>5 DEF MarkRange, Staged, StagedRows
<1>6. CASE ReadChunk(c)
  <2>1. staging' = staging /\ pc[c] = "next" /\ pc'[c] = "model" /\ job'[c].cand = job[c].cand
    BY <1>6 DEF ReadChunk
  <2>2. StagedRows' = StagedRows
    BY <2>1 DEF StagedRows
  <2> QED BY <2>1, <2>2 DEF Staged
<1>7. CASE NoChunk(c) /\ pc'[c] = "save"
  <2>1. staging' = staging /\ job' = job /\ StagedRows = job[c].cand /\ Valid(job[c].cand)
    BY <1>7 DEF NoChunk, Stopped, Staged
  <2>2. StagedRows' = StagedRows
    BY <2>1 DEF StagedRows
  <2> QED BY <1>7, <2>1, <2>2 DEF Staged
<1>8. CASE PassSucceeds(c)
  <2>1. PICK new \in Outputs(c) :
          /\ staging' = Saved(job[c].cand \o new, TRUE)
          /\ job' = [job EXCEPT ![c].cand = @ \o new, ![c].passed = TRUE,
                                ![c].offset = LastEnd(new) + 1, ![c].chunk = 0]
    BY <1>8 DEF PassSucceeds
  <2>2. new \in Seq(Row)
    BY <1>t, MadeTyped DEF Job
  <2>3. /\ job[c].cand \o new \in Seq(Row)
        /\ Len(job[c].cand \o new) = Len(job[c].cand) + Len(new) /\ Len(new) \in Nat
    BY <1>t, <2>2, ConcatProperties, LenProperties
  <2>4. Len(staging) <= Len(job[c].cand \o new)
    BY <1>8, <1>t, <2>3 DEF PassSucceeds, Staged
  <2>5. job'[c].cand = job[c].cand \o new /\ pc'[c] = "next"
    <3>1. job'[c] = [job[c] EXCEPT !.cand = job[c].cand \o new, !.passed = TRUE,
                                   !.offset = LastEnd(new) + 1, !.chunk = 0]
      BY <2>1
    <3>2. job'[c].cand = job[c].cand \o new
      BY <1>t, <3>1 DEF Job
    <3> QED BY <1>8, <3>2 DEF PassSucceeds
  <2>6. StagedRows' = job'[c].cand
    BY <1>p, <2>1, <2>3, <2>4, <2>5, SavedIsStaged
  <2> QED BY <2>5, <2>6 DEF Staged
<1>9. CASE PassFails(c) /\ pc'[c] \in {"model", "save"}
  <2>1. staging' = staging /\ pc[c] = "model" /\ job'[c].cand = job[c].cand
    <3>1. \/ job' = job
          \/ \E last \in job[c].offset .. job[c].chunk - 1 :
               job'[c] = [job[c] EXCEPT !.chunk = last]
      BY <1>9 DEF PassFails
    <3>2. job'[c].cand = job[c].cand
      BY <1>t, <3>1 DEF Job
    <3> QED BY <1>9, <3>2 DEF PassFails
  <2>2. pc'[c] = "save" => Valid(job[c].cand)
    BY <1>9 DEF PassFails, Stopped
  <2>3. StagedRows' = StagedRows
    BY <2>1 DEF StagedRows
  <2> QED BY <1>9, <1>t, <2>1, <2>2, <2>3 DEF Staged
<1>10. CASE FullReady(c) /\ pc'[c] = "save"
  <2>1. staging' = staging /\ job' = job /\ StagedRows = job[c].cand /\ Valid(job[c].cand)
    BY <1>10 DEF FullReady, AllRead, Staged
  <2>2. StagedRows' = StagedRows
    BY <2>1 DEF StagedRows
  <2> QED BY <1>10, <2>1, <2>2 DEF Staged
<1>11. CASE PartialReady(c) /\ pc'[c] = "save"
  <2>1. /\ staging' = staging /\ StagedRows = job[c].cand
        /\ job'[c].cand = job[c].cand \o job[c].tail /\ Valid(job[c].cand \o job[c].tail)
    <3>1. /\ Valid(job[c].cand \o job[c].tail)
          /\ job' = [job EXCEPT ![c].cand = @ \o job[c].tail, ![c].passed = TRUE]
      BY <1>11 DEF PartialReady
    <3>2. job'[c] = [job[c] EXCEPT !.cand = job[c].cand \o job[c].tail, !.passed = TRUE]
      BY <3>1
    <3>3. job'[c].cand = job[c].cand \o job[c].tail
      BY <1>t, <3>2 DEF Job
    <3> QED BY <1>11, <3>1, <3>3 DEF PartialReady, AllRead, Staged
  <2>2. StagedRows' = StagedRows
    BY <2>1 DEF StagedRows
  <2>3. \/ job[c].cand \o job[c].tail = job[c].cand
        \/ SH!Continues(job[c].cand, job[c].cand \o job[c].tail)
    <3>1. job[c].cand \in Seq(Row) /\ job[c].tail \in Seq(Row)
      BY <1>t
    <3> QED BY ONLY <3>1, AppendContinues
  <2>4. Valid(job'[c].cand)
    BY <2>1
  <2>5. job'[c].cand = StagedRows' \/ SH!Continues(StagedRows', job'[c].cand)
    BY <2>1, <2>2, <2>3
  <2> QED BY <1>11, <2>4, <2>5 DEF Staged
<1>12. CASE SaveFinal(c)
  <2>1. /\ staging' = Saved(job[c].cand, job[c].passed) /\ pc'[c] = "promote" /\ job' = job
        /\ Valid(job[c].cand)
        /\ job[c].cand = StagedRows \/ SH!Continues(StagedRows, job[c].cand)
    BY <1>12 DEF SaveFinal, Staged
  <2>2. Len(staging) <= Len(job[c].cand)
    <3>1. Len(StagedRows) = Len(job[c].cand) \/ Len(StagedRows) < Len(job[c].cand)
      BY <2>1 DEF SH!Continues
    <3>2. \A m, n \in Nat : m = n \/ m < n => m <= n
      OBVIOUS
    <3>3. Len(StagedRows) \in Nat /\ Len(StagedRows) = Len(staging)
      BY <1>t
    <3>4. Len(StagedRows) <= Len(job[c].cand)
      BY <1>t, <3>1, <3>2, <3>3, Zenon
    <3> QED BY <3>3, <3>4, Zenon
  <2>3. StagedRows' = job[c].cand
    BY <1>t, <1>p, <2>1, <2>2, SavedIsStaged
  <2> QED BY <2>1, <2>3 DEF Staged
<1>13. CASE YieldToWrapup(c) \/ NothingToRebuild(c) \/ Refuses(c) \/ Promote(c)
              \/ Published(c) \/ Finish(c)
  <2>1. pc'[c] \in {"idle", "end", "refused", "promoted"}
    BY <1>13 DEF YieldToWrapup, NothingToRebuild, Refuses, Promote, Published, Finish
  <2> QED BY <1>1, <2>1
<1>14. CASE NoChunk(c) \/ PassFails(c) \/ FullReady(c) \/ PartialReady(c)
  <2>1. pc'[c] \in {"model", "save", "end"} /\ (NoChunk(c) => pc'[c] # "model")
        /\ (FullReady(c) \/ PartialReady(c) => pc'[c] # "model")
    BY <1>14 DEF NoChunk, PassFails, FullReady, PartialReady, Stopped
  <2> QED BY <1>1, <1>7, <1>9, <1>10, <1>11, <1>14, <2>1
<1> QED BY <1>2, <1>3, <1>4, <1>5, <1>6, <1>8, <1>12, <1>13, <1>14
           DEF Step, Full, Partial, Pass

(* Whoever moves, staging stays the work of the one command at work.       *)
LEMMA StagedStep ==
  ASSUME LiveExpiry = FALSE, RecompTypeOK, Exclusive, StagedInv, [Next]_vars
  PROVE  StagedInv'
<1> USE DEF StagedInv
<1>1. CASE UNCHANGED vars
  BY <1>1 DEF vars, rows, Staged, StagedRows
<1>2. CASE HistorianAcquires \/ HistorianPublishes \/ HistorianReleases \/ LeaseExpires
  <2>1. staging' = staging /\ pc' = pc /\ job' = job
    BY <1>2 DEF HistorianAcquires, HistorianPublishes, HistorianReleases, LeaseExpires
  <2> QED BY <2>1 DEF Staged, StagedRows
<1>3. ASSUME NEW c \in Cmd, Acquire(c) PROVE StagedInv'
  <2>1. staging' = staging /\ pc' = [pc EXCEPT ![c] = "leased"] /\ job' = job
    BY <1>3 DEF Acquire, Goto
  <2> QED BY <2>1 DEF Staged, StagedRows, RecompTypeOK
<1>4. ASSUME NEW c \in Cmd, Step(c) PROVE StagedInv'
  <2>1. ASSUME NEW d \in Cmd \ {c} PROVE pc'[d] = "idle"
    <3>1. pc[d] = "idle"
      <4>1. lease = CL!Acquired(c)
        BY <1>4, StepShape DEF Exclusive
      <4>2. pc[d] # "idle" => lease = CL!Acquired(d)
        BY DEF Exclusive
      <4> QED BY <4>1, <4>2 DEF CL!Acquired
    <3> QED BY <1>4, <3>1, StepShape
  <2>2. ASSUME NEW d \in Cmd \ {c} PROVE Staged(d)'
    BY <2>1 DEF Staged
  <2>3. Staged(c)'
    BY <1>4, StagedOwnStep
  <2> QED BY <2>2, <2>3
<1>5. ASSUME NEW c \in Cmd, Crash(c) PROVE StagedInv'
  <2>1. /\ staging' = staging /\ pc' = [pc EXCEPT ![c] = "idle"]
        /\ job' = [job EXCEPT ![c] = NoJob]
    BY <1>5 DEF Crash, Goto
  <2>2. ASSUME NEW d \in Cmd PROVE Staged(d)'
    <3>1. CASE d = c
      BY <2>1, <3>1 DEF Staged, RecompTypeOK
    <3>2. CASE d # c
      BY <2>1, <3>2 DEF Staged, StagedRows, RecompTypeOK
    <3> QED BY <3>1, <3>2
  <2> QED BY <2>2
<1> QED BY <1>1, <1>2, <1>3, <1>4, <1>5 DEF Next
-----------------------------------------------------------------------------
(* The published history.                                                  *)

LEMMA AppendedIsValid ==
  ASSUME NEW cs \in Seq(Row), Valid(cs), NEW e \in LastEnd(cs) + 1 .. MaxMessage
  PROVE  Valid(Append(cs, Made(Historian, LastEnd(cs) + 1, e)))
<1> DEFINE r == Made(Historian, LastEnd(cs) + 1, e)
<1>1. r.first = LastEnd(cs) + 1 /\ r.last = e
  BY DEF Made
<1>2. LastEnd(cs) \in Nat
  BY LastEndTyped
<1>3. /\ Len(Append(cs, r)) = Len(cs) + 1 /\ Len(cs) \in Nat
      /\ \A i \in 1 .. Len(cs) : Append(cs, r)[i] = cs[i]
      /\ Append(cs, r)[Len(cs) + 1] = r
  BY AppendProperties, LenProperties
<1> HIDE DEF r
<1>4. ASSUME NEW i \in 1 .. Len(cs) + 1
      PROVE  LET as == Append(cs, r)
             IN  as[i].first = (IF i = 1 THEN 0 ELSE as[i - 1].last) + 1
                   /\ as[i].first <= as[i].last
  <2>1. CASE i \in 1 .. Len(cs)
    BY <1>3, <2>1 DEF Valid, ContiguousAfter
  <2>2. CASE i = Len(cs) + 1
    <3>1. LastEnd(cs) = IF i = 1 THEN 0 ELSE cs[i - 1].last
      BY <1>3, <2>2, EmptySeq DEF LastEnd
    <3> QED BY <1>1, <1>2, <1>3, <2>2, <3>1
  <2> QED BY <1>3, <2>1, <2>2
<1>5. Valid(Append(cs, r))
  BY <1>3, <1>4 DEF Valid, ContiguousAfter
<1> QED BY <1>5 DEF r

LEMMA LiveStep ==
  ASSUME RecompTypeOK, StagedInv, LiveContiguous, [Next]_vars
  PROVE  LiveContiguous'
<1> USE DEF LiveContiguous
<1>1. CASE live' = live
  BY <1>1
<1>2. ASSUME NEW c \in Cmd, Promote(c) PROVE LiveContiguous'
  <2>1. CASE live' # live
    <3>1. live' = StagedRows /\ pc[c] = "promote"
      BY <1>2, <2>1 DEF Promote
    <3> QED BY <3>1 DEF StagedInv, Staged
  <2> QED BY <1>1, <2>1
<1>3. CASE HistorianPublishes
  <2>1. PICK e \in LastEnd(live) + 1 .. MaxMessage :
          live' = Append(live, Made(Historian, LastEnd(live) + 1, e))
    BY <1>3 DEF HistorianPublishes
  <2>2. Valid(live')
    BY <2>1, AppendedIsValid DEF RecompTypeOK
  <2> QED BY <2>2
<1>4. ASSUME NEW c \in Cmd, Acquire(c) \/ Crash(c) PROVE live' = live
  BY <1>4 DEF Acquire, Crash
<1>5. ASSUME NEW c \in Cmd, Step(c), ~Promote(c) PROVE live' = live
  <2> USE DEF rows
  <2>1. CASE YieldToWrapup(c) \/ Full(c) \/ Partial(c)
    BY <2>1 DEF YieldToWrapup, Full, Partial, BeginFull, FullReady, NothingToRebuild,
         Refuses, BeginPartial, SeedStaging, MarkRange, ResumePartial, PartialReady
  <2>2. CASE Pass(c)
    BY <2>2 DEF Pass, ReadChunk, NoChunk, PassSucceeds, PassFails
  <2>3. CASE SaveFinal(c) \/ Published(c) \/ Finish(c)
    BY <2>3 DEF SaveFinal, Published, Finish
  <2> QED BY <1>5, <2>1, <2>2, <2>3 DEF Step
<1>6. HistorianAcquires \/ HistorianReleases \/ LeaseExpires \/ UNCHANGED vars => live' = live
  BY DEF HistorianAcquires, HistorianReleases, LeaseExpires, vars, rows
<1> QED BY <1>1, <1>2, <1>3, <1>4, <1>5, <1>6 DEF Next

(* Only its promotion takes a command to "promoted".                       *)
LEMMA OnlyPromotePromotes ==
  ASSUME RecompTypeOK, [Next]_vars, NEW c \in Cmd, pc[c] # "promoted", pc'[c] = "promoted"
  PROVE  Promote(c) /\ PromotedBy(c)
<1>1. \E d \in Cmd : Step(d)
  <2>1. pc' # pc
    OBVIOUS
  <2>2. ASSUME NEW d \in Cmd, Acquire(d) \/ Crash(d) PROVE FALSE
    BY <2>2 DEF Acquire, Crash, Goto, RecompTypeOK
  <2> QED BY <2>1, <2>2 DEF Next, vars, HistorianAcquires, HistorianPublishes,
               HistorianReleases, LeaseExpires
<1>2. Step(c)
  BY <1>1, StepShape
<1>3. Promote(c)
  <2> USE DEF Goto, rows, RecompTypeOK
  <2>1. ~(YieldToWrapup(c) \/ Full(c) \/ Partial(c))
    BY DEF YieldToWrapup, Full, Partial, BeginFull, FullReady, NothingToRebuild,
         Refuses, BeginPartial, SeedStaging, MarkRange, ResumePartial, PartialReady, AllRead
  <2>2. ~Pass(c)
    BY DEF Pass, ReadChunk, NoChunk, PassSucceeds, PassFails, Stopped
  <2>3. ~(SaveFinal(c) \/ Published(c) \/ Finish(c))
    BY DEF SaveFinal, Published, Finish
  <2> QED BY <1>2, <2>1, <2>2, <2>3 DEF Step
<1>4. pc[c] = "promote"
  BY <1>3 DEF Promote
<1> QED BY <1>3, <1>4 DEF PromotedBy

(* Until its drops are queued, what a command promoted is the history.     *)
PromotedInv == \A c \in Cmd : pc[c] = "promoted" => live = job[c].cand

LEMMA PromotedStep ==
  ASSUME LiveExpiry = FALSE, RecompTypeOK, Exclusive, PromotedInv, [Next]_vars
  PROVE  PromotedInv'
<1> SUFFICES ASSUME NEW c \in Cmd, pc'[c] = "promoted" PROVE live' = job'[c].cand
  BY DEF PromotedInv
<1>1. CASE pc[c] # "promoted"
  <2>1. Promote(c)
    BY <1>1, OnlyPromotePromotes
  <2>2. live' = StagedRows /\ job' = [job EXCEPT ![c] = [job[c] EXCEPT !.cand = StagedRows]]
    BY <2>1 DEF Promote, Goto, RecompTypeOK
  <2>3. job'[c] = [job[c] EXCEPT !.cand = StagedRows] /\ job[c] \in Job
    BY <2>2 DEF RecompTypeOK
  <2>4. job'[c].cand = StagedRows
    BY <2>3 DEF Job
  <2> QED BY <2>2, <2>4
<1>2. CASE pc[c] = "promoted"
  <2>1. live = job[c].cand
    BY <1>2 DEF PromotedInv
  <2>2. lease = CL!Acquired(c)
    BY <1>2 DEF Exclusive
  <2>3. \A d \in Cmd \ {c} : pc[d] = "idle"
    BY <2>2 DEF Exclusive, CL!Acquired
  <2>4. ~HistorianPublishes
    BY <2>2, CmdAssumption DEF HistorianPublishes, CL!IsHeld, CL!Acquired
  <2>5. ASSUME NEW d \in Cmd, Acquire(d) PROVE live' = live /\ job' = job
    BY <2>5 DEF Acquire
  <2>6. ASSUME NEW d \in Cmd, Crash(d) PROVE live' = live /\ job'[c] = job[c]
    BY <1>2, <2>6 DEF Crash, Goto, RecompTypeOK
  <2>7. ASSUME NEW d \in Cmd, Step(d) PROVE FALSE
    <3>1. d = c
      BY <2>3, <2>7, StepShape
    <3>2. pc'[c] = "end"
      <4> USE DEF Goto, RecompTypeOK
      <4>1. Published(c)
        <5>1. ~(YieldToWrapup(c) \/ Full(c) \/ Partial(c))
          BY <1>2 DEF YieldToWrapup, Full, Partial, BeginFull, FullReady, NothingToRebuild,
            Refuses, BeginPartial, SeedStaging, MarkRange, ResumePartial, PartialReady, AllRead
        <5>2. ~Pass(c)
          BY <1>2 DEF Pass, ReadChunk, NoChunk, PassSucceeds, PassFails
        <5>3. ~(SaveFinal(c) \/ Promote(c) \/ Finish(c))
          BY <1>2 DEF SaveFinal, Promote, Finish
        <5> QED BY <2>7, <3>1, <5>1, <5>2, <5>3 DEF Step
      <4> QED BY <4>1 DEF Published
    <3> QED BY <3>2
  <2>8. HistorianAcquires \/ HistorianReleases \/ LeaseExpires \/ UNCHANGED vars
          => live' = live /\ job' = job
    BY DEF HistorianAcquires, HistorianReleases, LeaseExpires, vars, rows
  <2>9. live' = live /\ job'[c] = job[c]
    BY <2>4, <2>5, <2>6, <2>7, <2>8 DEF Next
  <2> QED BY <2>1, <2>9
<1> QED BY <1>1, <1>2

(* What the theorems below have in common: as long as the lease of a live  *)
(* command is renewed in time, commands exclude each other, staging is the *)
(* work of the one at work, and so what is published is contiguous.        *)
RecompInv ==
  RecompTypeOK /\ Exclusive /\ StagedInv /\ LiveContiguous /\ PromotedInv

LEMMA StagingInvariant ==
  ASSUME LiveExpiry = FALSE
  PROVE  Spec => []RecompInv
<1> DEFINE IInv == Exclusive /\ StagedInv /\ LiveContiguous /\ PromotedInv
<1>1. Init => IInv
  <2>1. ASSUME Init PROVE pc = [c \in Cmd |-> "idle"] /\ live = <<>>
    BY <2>1 DEF Init
  <2>2. Valid(<<>>)
    BY DEF Valid, ContiguousAfter
  <2> QED BY <2>1, <2>2 DEF Exclusive, StagedInv, Staged, LiveContiguous,
           PromotedInv
<1>2. RecompTypeOK /\ IInv /\ [Next]_vars => IInv'
  BY ExclusiveStep, StagedStep, LiveStep, PromotedStep
<1>3. Spec => []RecompTypeOK
  BY RecompTypeCorrect
<1> QED BY <1>1, <1>2, <1>3, PTL DEF Spec, RecompInv

(* With renewal in time, no order of commands, crashes, resumed staging    *)
(* and historian publications leaves a gap or an overlap in the history.   *)
THEOREM LiveIsContiguous ==
  ASSUME LiveExpiry = FALSE
  PROVE  Spec => []LiveContiguous
<1>1. Spec => []RecompInv
  BY StagingInvariant
<1> QED BY <1>1, PTL DEF RecompInv

(* With renewal in time, a command at work has all its validated passes in *)
(* staging, and staging holds nothing else.                                *)
THEOREM WorkStaged ==
  ASSUME LiveExpiry = FALSE
  PROVE  Spec => []WorkIsStaged
<1>1. StagedInv => WorkIsStaged
  BY DEF StagedInv, Staged, WorkIsStaged
<1>2. Spec => []RecompInv
  BY StagingInvariant
<1> QED BY <1>1, <1>2, PTL DEF RecompInv

(* With renewal in time, the rows that are promoted are the candidates the *)
(* command validated, and none stay in staging.                            *)
THEOREM PromotedValidated ==
  ASSUME LiveExpiry = FALSE
  PROVE  Spec => PromotedIsValidated
<1>1. ASSUME RecompInv, [Next]_vars, NEW c \in Cmd, PromotedBy(c)
      PROVE  live' = job[c].cand /\ staging' = <<>>
  <2>1. pc[c] = "promote" /\ pc'[c] = "promoted"
    BY <1>1 DEF PromotedBy
  <2>2. live' = StagedRows /\ staging' = <<>>
    BY <1>1, <2>1, OnlyPromotePromotes DEF Promote, Goto, RecompTypeOK, RecompInv
  <2> QED BY <1>1, <2>1, <2>2 DEF RecompInv, StagedInv, Staged
<1>2. RecompInv /\ [Next]_vars =>
        [\A c \in Cmd : PromotedBy(c) => live' = job[c].cand /\ staging' = <<>>]_vars
  BY <1>1
<1>3. Spec => []RecompInv
  BY StagingInvariant
<1> QED BY <1>2, <1>3, PTL DEF Spec, PromotedIsValidated
-----------------------------------------------------------------------------
(* The refinement of StagedHistory.                                        *)

(* Staging without rows has no rows.                                       *)
LEMMA NothingStaged == RowsOf(<<>>) = <<>>
<1>1. Len(<<>>) = 0
  BY EmptySeq
<1>2. RowsOf(<<>>) \in [1 .. 0 -> Row]
  BY <1>1 DEF RowsOf
<1>3. RowsOf(<<>>) \in Seq(Row) /\ Len(RowsOf(<<>>)) = 0
  BY <1>2, LenOfFunction
<1> QED BY <1>3, EmptySeq

(* A command's own step is one of a rebuilt history, or none: what it      *)
(* saves continues what is staged, because its candidates do.              *)
LEMMA OwnStepRebuilds ==
  ASSUME RecompInv, NEW c \in Cmd, Step(c)
  PROVE  [SH!Next]_(SH!vars)
<1> USE DEF RecompInv, RecompTypeOK, Goto, rows
<1>t. /\ job[c] \in Job /\ job[c].cand \in Seq(Row) /\ Len(job[c].cand) \in Nat
      /\ StagedRows \in Seq(Row) /\ Len(StagedRows) = Len(staging) /\ Len(staging) \in Nat
      /\ Staged(c) /\ job[c].passed \in BOOLEAN
  <2>1. job[c] \in Job
    OBVIOUS
  <2>2. job[c].cand \in Seq(Row) /\ job[c].passed \in BOOLEAN
    BY <2>1 DEF Job
  <2> QED BY <2>1, <2>2, StagedRowsTyped, LenProperties DEF StagedInv
<1>p. StagedRows = RowsOf(staging) /\ StagedRows' = RowsOf(staging')
  BY DEF StagedRows, RowsOf
<1>1. CASE UNCHANGED <<live, staging, dropped>>
  BY <1>1, <1>p DEF SH!vars
<1>2. CASE UNCHANGED <<live, dropped>> /\ staging' = <<>>
  BY <1>2, <1>p, NothingStaged DEF SH!Next, SH!Abandon
<1>3. CASE /\ UNCHANGED <<live, dropped>>
           /\ StagedRows' = StagedRows \/ SH!Continues(StagedRows, StagedRows')
  BY <1>3 DEF SH!Next, SH!Stage, SH!vars
<1>4. CASE YieldToWrapup(c) \/ BeginFull(c) \/ NothingToRebuild(c) \/ Refuses(c)
           \/ BeginPartial(c) \/ MarkRange(c) \/ ResumePartial(c) \/ PartialReady(c)
  BY <1>1, <1>4 DEF YieldToWrapup, BeginFull, NothingToRebuild, Refuses, BeginPartial,
     MarkRange, ResumePartial, PartialReady
<1>5. CASE ReadChunk(c) \/ NoChunk(c) \/ PassFails(c)
  BY <1>1, <1>5 DEF ReadChunk, NoChunk, PassFails
<1>6. CASE SeedStaging(c)
  <2>1. /\ staging' = Saved(job[c].cand, FALSE) /\ staging = <<>>
        /\ UNCHANGED <<live, dropped>>
    BY <1>6, <1>t DEF SeedStaging, Staged
  <2>2. Len(staging) <= Len(job[c].cand)
    BY <1>t, <2>1, EmptySeq
  <2>3. StagedRows' = job[c].cand
    BY <1>t, <1>p, <2>1, <2>2, SavedIsStaged
  <2>4. StagedRows = <<>>
    BY <1>p, <2>1, NothingStaged
  <2>5. <<>> \o job[c].cand = <<>> \/ SH!Continues(<<>>, <<>> \o job[c].cand)
    <3>1. <<>> \in Seq(Row) /\ job[c].cand \in Seq(Row)
      BY <1>t, EmptySeq
    <3> QED BY ONLY <3>1, AppendContinues
  <2>6. <<>> \o job[c].cand = job[c].cand
    BY <1>t, ConcatEmptySeq
  <2>7. StagedRows' = StagedRows \/ SH!Continues(StagedRows, StagedRows')
    BY ONLY <2>3, <2>4, <2>5, <2>6
  <2> QED BY <1>3, <2>1, <2>7
<1>7. CASE PassSucceeds(c)
  <2>1. PICK new \in Outputs(c) : staging' = Saved(job[c].cand \o new, TRUE)
    BY <1>7 DEF PassSucceeds
  <2>2. UNCHANGED <<live, dropped>> /\ StagedRows = job[c].cand
    BY <1>7, <1>t DEF PassSucceeds, Staged
  <2>3. new \in Seq(Row)
    BY <1>t, MadeTyped DEF Job
  <2>4. /\ job[c].cand \o new \in Seq(Row)
        /\ Len(job[c].cand \o new) = Len(job[c].cand) + Len(new) /\ Len(new) \in Nat
    BY <1>t, <2>3, ConcatProperties, LenProperties
  <2>5. Len(staging) <= Len(job[c].cand \o new)
    BY <1>t, <2>2, <2>4
  <2>6. StagedRows' = StagedRows \o new
    BY <1>p, <2>1, <2>2, <2>4, <2>5, SavedIsStaged
  <2> QED BY <1>t, <1>3, <2>2, <2>3, <2>6, AppendContinues
<1>8. CASE FullReady(c)
  BY <1>1, <1>2, <1>8 DEF FullReady
<1>9. CASE SaveFinal(c)
  <2>1. /\ staging' = Saved(job[c].cand, job[c].passed) /\ UNCHANGED <<live, dropped>>
        /\ job[c].cand = StagedRows \/ SH!Continues(StagedRows, job[c].cand)
    BY <1>9, <1>t DEF SaveFinal, Staged
  <2>2. Len(staging) <= Len(job[c].cand)
    <3>1. Len(StagedRows) = Len(job[c].cand) \/ Len(StagedRows) < Len(job[c].cand)
      BY <2>1 DEF SH!Continues
    <3>2. \A m, n \in Nat : m = n \/ m < n => m <= n
      OBVIOUS
    <3>3. Len(StagedRows) \in Nat /\ Len(StagedRows) = Len(staging)
      BY <1>t
    <3>4. Len(StagedRows) <= Len(job[c].cand)
      BY <1>t, <3>1, <3>2, <3>3, Zenon
    <3> QED BY <3>3, <3>4, Zenon
  <2>3. StagedRows' = job[c].cand
    BY <1>t, <1>p, <2>1, <2>2, SavedIsStaged
  <2> QED BY <1>3, <2>1, <2>3
<1>10. CASE Promote(c) /\ ~UNCHANGED <<live, staging, dropped>>
  <2>1. /\ pc[c] = "promote" /\ staging # <<>>
        /\ live' = StagedRows /\ staging' = <<>> /\ dropped' = dropped
    BY <1>10 DEF Promote
  <2>2. StagedRows = job[c].cand /\ Valid(job[c].cand)
    BY <1>t, <2>1 DEF Staged
  <2>3. StagedRows # <<>>
    BY <1>t, <2>1, EmptySeq
  <2>4. SH!WithoutGap(StagedRows)
    BY <2>2 DEF SH!WithoutGap, Valid, ContiguousAfter
  <2>5. StagedRows' = <<>>
    BY <1>p, <2>1, NothingStaged
  <2> QED BY <2>1, <2>3, <2>4, <2>5 DEF SH!Next, SH!Replace
<1>11. CASE Published(c) /\ dropped' # dropped
  <2>1. /\ pc[c] = "promoted" /\ UNCHANGED <<live, staging>>
        /\ dropped < LastEnd(job[c].cand) /\ dropped' = LastEnd(job[c].cand)
    BY <1>11 DEF Published
  <2>2. live = job[c].cand
    BY <2>1 DEF PromotedInv
  <2>3. SH!End(live) = LastEnd(live)
    BY DEF SH!End, LastEnd
  <2> QED BY <1>p, <2>1, <2>2, <2>3 DEF SH!Next, SH!Drop
<1>12. CASE Published(c) /\ dropped' = dropped
  BY <1>1, <1>12 DEF Published
<1>13. CASE Finish(c)
  BY <1>1, <1>2, <1>13 DEF Finish
<1> QED BY <1>1, <1>4, <1>5, <1>6, <1>7, <1>8, <1>9, <1>10, <1>11, <1>12, <1>13
        DEF Step, Full, Partial, Pass

(* A publication of the historian extends the history.                     *)
LEMMA PublicationExtends ==
  ASSUME RecompInv, HistorianPublishes
  PROVE  SH!Extend
<1> USE DEF RecompInv, RecompTypeOK
<1>1. PICK e \in LastEnd(live) + 1 .. MaxMessage :
        /\ live' = Append(live, Made(Historian, LastEnd(live) + 1, e))
        /\ dropped' = IF dropped < e THEN e ELSE dropped
  BY DEF HistorianPublishes
<1>2. /\ Len(live') = Len(live) + 1 /\ Len(live) \in Nat
      /\ \A i \in 1 .. Len(live) : live'[i] = live[i]
      /\ live'[Len(live')] = Made(Historian, LastEnd(live) + 1, e)
  BY <1>1, AppendProperties, LenProperties
<1>3. SH!Continues(live, live')
  BY <1>2 DEF SH!Continues
<1>4. SH!WithoutGap(live')
  <2>1. live \in Seq(Row) /\ Valid(live)
    BY DEF LiveContiguous
  <2>2. Valid(Append(live, Made(Historian, LastEnd(live) + 1, e)))
    BY ONLY <1>1, <2>1, AppendedIsValid
  <2>3. Valid(live')
    BY ONLY <1>1, <2>2
  <2> QED BY ONLY <2>3 DEF SH!WithoutGap, Valid, ContiguousAfter
<1>5. SH!End(live') = e
  BY <1>2, EmptySeq DEF SH!End, Made
<1>6. StagedRows' = StagedRows
  BY DEF HistorianPublishes, StagedRows
<1> QED BY <1>1, <1>2, <1>3, <1>4, <1>5, <1>6 DEF SH!Extend

(* With renewal in time, commands and historian together do what           *)
(* StagedHistory promises: through resumptions and crashes staged work     *)
(* only grows, at its end, until it takes the place of the history whole   *)
(* or is thrown away whole.                                                *)
THEOREM RecompImplementsStagedHistory ==
  ASSUME LiveExpiry = FALSE
  PROVE  Spec => HistoryIsRebuiltWhole
<1>1. Init => SH!Init
  <2>1. ASSUME Init PROVE StagedRows = <<>>
    BY <2>1, NothingStaged DEF Init, StagedRows, RowsOf
  <2> QED BY <2>1 DEF Init, SH!Init
<1>2. ASSUME RecompInv, [Next]_vars PROVE [SH!Next]_(SH!vars)
  <2>1. CASE HistorianPublishes
    BY <1>2, <2>1, PublicationExtends DEF SH!Next
  <2>2. ASSUME NEW c \in Cmd, Step(c) PROVE [SH!Next]_(SH!vars)
    BY <1>2, <2>2, OwnStepRebuilds
  <2>3. ASSUME \/ HistorianAcquires \/ HistorianReleases \/ LeaseExpires \/ UNCHANGED vars
               \/ \E c \in Cmd : Acquire(c) \/ Crash(c)
        PROVE  UNCHANGED SH!vars
    <3>1. UNCHANGED <<live, staging, dropped>>
      BY <2>3 DEF HistorianAcquires, HistorianReleases, LeaseExpires, vars, rows, Acquire, Crash
    <3> QED BY <3>1 DEF SH!vars, StagedRows
  <2> QED BY <1>2, <2>1, <2>2, <2>3 DEF Next
<1>3. RecompInv /\ [Next]_vars => [SH!Next]_(SH!vars)
  BY <1>2
<1>4. Spec => []RecompInv
  BY StagingInvariant
<1> QED BY <1>1, <1>3, <1>4, PTL DEF Spec, HistoryIsRebuiltWhole, SH!Spec
=============================================================================
