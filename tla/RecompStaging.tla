----------------------------- MODULE RecompStaging -----------------------------
(***************************************************************************)
(* /ctx-recomp: rebuilding the compartments of a session from its raw      *)
(* messages, all of them or those of a range (executeContextRecompInternal,*)
(* executePartialRecompInternal).  A command works for many model calls,   *)
(* keeps what it has in staging rows, and at the end replaces the live     *)
(* compartments by the staging rows in one transaction.  A command that    *)
(* dies or fails leaves its staging for a later one to resume.             *)
(*                                                                         *)
(* Commands run in different processes and share only the database.  The   *)
(* lease keeps them apart, except that a holder that is suspended past its *)
(* TTL goes on working: only the promotion looks at the lease again.       *)
(***************************************************************************)
EXTENDS Naturals, Sequences

CONSTANTS Cmd,         \* recomp commands, each in a process of its own
          Historian,   \* whoever else writes compartments: historian, wrapup
          Orphan, NoHolder,
          MaxMessage,  \* bound: ordinals that may be compacted
          MaxCrashes,  \* bound: crashes of commands
          LiveExpiry   \* whether the lease of a live command may expire

ASSUME CmdAssumption ==
  /\ Historian \notin Cmd
  /\ Orphan \notin Cmd \cup {Historian}
  /\ NoHolder \notin Cmd \cup {Historian, Orphan}
ASSUME RecompBoundAssumption ==
  /\ MaxMessage \in Nat \ {0} /\ MaxCrashes \in Nat /\ LiveExpiry \in BOOLEAN

VARIABLES
  lease,    \* compartment_state_lease
  live,     \* compartments, in sequence order
  staging,  \* recomp_compartments, in sequence order
  range,    \* recomp_partial_range_start and _end, NoRange if zero
  dropped,  \* drops are queued for the tags of messages 1..dropped
  pc,       \* where each command is
  job,      \* job[c]: the local state of command c
  crashes

rows == <<lease, live, staging, range, dropped>>
vars == <<rows, pc, job, crashes>>

CL == INSTANCE CompartmentLease WITH Run <- Cmd \cup {Historian}
-----------------------------------------------------------------------------
Ordinal == 1 .. MaxMessage

(* A compartment: the range it covers and the run that summarised it.      *)
Row == [first : Ordinal, last : Ordinal, by : Cmd \cup {Historian}]

(* A staging row also has the number of the pass that saved it last; what  *)
(* the code asks of it is whether it is past 0, the pass that seeds a      *)
(* partial recomp with the compartments before its range.                  *)
StagedRow == [row : Row, passed : BOOLEAN]

NoRange     == [from |-> 0, to |-> 0]
RecompRange == [from : 0 .. MaxMessage, to : 0 .. MaxMessage]

(* kind, the range to rebuild, the candidates, how many of them are prior  *)
(* compartments, the compartments after the range, where the next chunk    *)
(* starts and the present one ends, and whether passCount > 0.             *)
Job == [partial : BOOLEAN, from : 0 .. MaxMessage, to : 0 .. MaxMessage,
        cand : Seq(Row), prior : Nat, tail : Seq(Row),
        offset : 1 .. MaxMessage + 1, chunk : 0 .. MaxMessage, passed : BOOLEAN]

NoJob == [partial |-> FALSE, from |-> 0, to |-> 0, cand |-> <<>>, prior |-> 0,
          tail |-> <<>>, offset |-> 1, chunk |-> 0, passed |-> FALSE]

PC == {"idle", "leased", "seed", "mark", "next", "model", "save", "promote",
       "promoted", "refused", "end"}

LastEnd(cs) == IF cs = <<>> THEN 0 ELSE cs[Len(cs)].last

(* The rows continue each other from the ordinal after e.                  *)
ContiguousAfter(cs, e) ==
  \A i \in 1 .. Len(cs) :
    /\ cs[i].first = (IF i = 1 THEN e ELSE cs[i - 1].last) + 1
    /\ cs[i].first <= cs[i].last

(* validateStoredCompartments.                                             *)
Valid(cs) == ContiguousAfter(cs, 0)

StagedRows == [i \in 1 .. Len(staging) |-> staging[i].row]

(* saveRecompStagingPass: INSERT OR REPLACE by sequence number, with no    *)
(* look at the lease.  Rows past the candidates stay.                      *)
Saved(cs, passed) ==
  [i \in 1 .. Len(cs) |-> [row |-> cs[i], passed |-> passed]]
    \o SubSeq(staging, Len(cs) + 1, Len(staging))

(* The first compartment that reaches the start of the range and the last  *)
(* one that starts before its end (snapRangeToCompartments).               *)
Snaps(i, j, from, to) ==
  /\ i \in 1 .. Len(live) /\ live[i].last >= from
  /\ \A k \in 1 .. i - 1 : live[k].last < from
  /\ j \in i .. Len(live) /\ live[j].first <= to
  /\ \A k \in j + 1 .. Len(live) : live[k].first > to
-----------------------------------------------------------------------------
Init ==
  /\ lease = CL!NoRow
  /\ live = <<>> /\ staging = <<>> /\ range = NoRange /\ dropped = 0
  /\ pc = [c \in Cmd |-> "idle"] /\ job = [c \in Cmd |-> NoJob]
  /\ crashes = 0

Goto(c, place) == pc' = [pc EXCEPT ![c] = place]
-----------------------------------------------------------------------------
(* executeContextRecompWithResult.                                         *)

(* A command that finds the lease taken or a wrapup active does nothing.   *)
Acquire(c) ==
  /\ pc[c] = "idle" /\ CL!CanAcquire(lease, c)
  /\ lease' = CL!Acquired(c)
  /\ Goto(c, "leased")
  /\ UNCHANGED <<live, staging, range, dropped, job, crashes>>

(* /ctx-wrapup set its marker between the first look at it and the lease.  *)
YieldToWrapup(c) ==
  /\ pc[c] = "leased"
  /\ lease' = CL!Released(lease, c)
  /\ Goto(c, "idle")
  /\ UNCHANGED <<live, staging, range, dropped, job, crashes>>
-----------------------------------------------------------------------------
(* Starting or resuming.                                                   *)

\* Mutant: a full recomp starts anew beside the rows that are staged.
BeginFullAnew(c) ==
  /\ pc[c] = "leased"
  /\ \E to \in 0 .. MaxMessage :
       job' = [job EXCEPT ![c] = [NoJob EXCEPT !.from = 1, !.to = to]]
  /\ Goto(c, "next")
  /\ UNCHANGED <<rows, crashes>>

(* A full recomp takes whatever staging there is, and goes on to wherever  *)
(* the protected tail starts.                                              *)
BeginFull(c) ==
  /\ pc[c] = "leased"
  /\ \E to \in 0 .. MaxMessage :
       job' = [job EXCEPT ![c] =
         [NoJob EXCEPT !.from = 1, !.to = to, !.cand = StagedRows,
                       !.offset = LastEnd(StagedRows) + 1,
                       !.passed = \E i \in 1 .. Len(staging) : staging[i].passed]]
  /\ Goto(c, "next")
  /\ UNCHANGED <<rows, crashes>>

(* The range reaches no compartment.                                       *)
NothingToRebuild(c) ==
  /\ pc[c] = "leased"
  /\ \E from \in Ordinal : \E to \in from .. MaxMessage :
       ~\E i, j \in 1 .. Len(live) : Snaps(i, j, from, to)
  /\ job' = [job EXCEPT ![c].partial = TRUE]
  /\ Goto(c, "end")
  /\ UNCHANGED <<rows, crashes>>

(* Another command's work is staged: a partial recomp of another range, or *)
(* a full one.                                                             *)
Refuses(c) ==
  /\ pc[c] = "leased" /\ staging # <<>>
  /\ \E i \in 1 .. Len(live) : \E j \in i .. Len(live) :
       range # [from |-> live[i].first, to |-> live[j].last]
  /\ job' = [job EXCEPT ![c].partial = TRUE]
  /\ Goto(c, "refused")
  /\ UNCHANGED <<rows, crashes>>

PartialJob(i, j) ==
  [NoJob EXCEPT !.partial = TRUE, !.from = live[i].first, !.to = live[j].last,
                !.prior = i - 1, !.tail = SubSeq(live, j + 1, Len(live))]

(* Nothing is staged: the candidates start with the compartments before    *)
(* the range.                                                              *)
BeginPartial(c) ==
  /\ pc[c] = "leased" /\ staging = <<>>
  /\ \E from \in Ordinal : \E to \in from .. MaxMessage : \E i, j \in 1 .. Len(live) :
       /\ Snaps(i, j, from, to)
       /\ job' = [job EXCEPT ![c] =
            [PartialJob(i, j) EXCEPT !.cand = SubSeq(live, 1, i - 1),
                                     !.offset = live[i].first]]
  /\ Goto(c, "seed")
  /\ UNCHANGED <<rows, crashes>>

SeedStaging(c) ==
  /\ pc[c] = "seed"
  /\ staging' = Saved(job[c].cand, FALSE)
  /\ Goto(c, "mark")
  /\ UNCHANGED <<lease, live, range, dropped, job, crashes>>

MarkRange(c) ==
  /\ pc[c] = "mark"
  /\ range' = [from |-> job[c].from, to |-> job[c].to]
  /\ Goto(c, "next")
  /\ UNCHANGED <<lease, live, staging, dropped, job, crashes>>

\* Mutant: a resumed range starts over.
ResumePartialFromStart(c) ==
  /\ pc[c] = "leased" /\ staging # <<>>
  /\ \E i \in 1 .. Len(live) : \E j \in i .. Len(live) :
       /\ range = [from |-> live[i].first, to |-> live[j].last]
       /\ job' = [job EXCEPT ![c] =
            [PartialJob(i, j) EXCEPT !.cand = SubSeq(StagedRows, 1, i - 1),
                                     !.offset = live[i].first]]
  /\ Goto(c, "next")
  /\ UNCHANGED <<rows, crashes>>

(* The same range is staged: go on after the last staged compartment.      *)
ResumePartial(c) ==
  /\ pc[c] = "leased" /\ staging # <<>>
  /\ \E i \in 1 .. Len(live) : \E j \in i .. Len(live) :
       /\ range = [from |-> live[i].first, to |-> live[j].last]
       /\ job' = [job EXCEPT ![c] =
            [PartialJob(i, j) EXCEPT
               !.cand = StagedRows,
               !.offset = IF LastEnd(StagedRows) >= live[i].first
                            THEN LastEnd(StagedRows) + 1 ELSE live[i].first,
               !.passed = \E k \in 1 .. Len(staging) : staging[k].passed]]
  /\ Goto(c, "next")
  /\ UNCHANGED <<rows, crashes>>
-----------------------------------------------------------------------------
(* The passes.                                                             *)

(* promoteAndFinalize: a full recomp that cannot go on promotes what it    *)
(* has; a partial one keeps its staging.                                   *)
Stopped(c) ==
  LET g == job[c]
  IN  IF ~g.partial /\ g.passed /\ g.cand # <<>> /\ Valid(g.cand) THEN "save" ELSE "end"

ReadChunk(c) ==
  /\ pc[c] = "next" /\ job[c].offset <= job[c].to
  /\ \E last \in job[c].offset .. job[c].to : job' = [job EXCEPT ![c].chunk = last]
  /\ Goto(c, "model")
  /\ UNCHANGED <<rows, crashes>>

(* What remains is noise, or cannot be represented as a chunk.             *)
NoChunk(c) ==
  /\ pc[c] = "next" /\ job[c].offset <= job[c].to
  /\ Goto(c, Stopped(c))
  /\ UNCHANGED <<rows, job, crashes>>

Made(c, a, b) == [first |-> a, last |-> b, by |-> c]

(* Valid output covers the chunk from its start, with up to two            *)
(* compartments here.                                                      *)
Outputs(c) ==
  LET a == job[c].offset
      e == job[c].chunk
  IN  { <<Made(c, a, k)>> : k \in a .. e }
        \cup { <<Made(c, a, k), Made(c, k + 1, l)>> : k \in a .. e - 1, l \in a + 1 .. e }

\* Mutant: the pass is not staged.
PassSucceedsUnsaved(c) ==
  /\ pc[c] = "model"
  /\ \E new \in Outputs(c) :
       /\ ContiguousAfter(new, job[c].offset - 1)
       /\ job' = [job EXCEPT ![c].cand = @ \o new, ![c].passed = TRUE,
                             ![c].offset = LastEnd(new) + 1, ![c].chunk = 0]
  /\ Goto(c, "next")
  /\ UNCHANGED <<lease, live, staging, range, dropped, crashes>>

\* Mutant: the next chunk starts one message too late.
PassSkipsOne(c) ==
  /\ pc[c] = "model"
  /\ \E new \in Outputs(c) :
       /\ ContiguousAfter(new, job[c].offset - 1)
       /\ staging' = Saved(job[c].cand \o new, TRUE)
       /\ job' = [job EXCEPT ![c].cand = @ \o new, ![c].passed = TRUE,
                             ![c].offset = LastEnd(new) + 2, ![c].chunk = 0]
  /\ Goto(c, "next")
  /\ UNCHANGED <<lease, live, range, dropped, crashes>>

(* The model answers and the pass is staged.                               *)
PassSucceeds(c) ==
  /\ pc[c] = "model"
  /\ \E new \in Outputs(c) :
       /\ ContiguousAfter(new, job[c].offset - 1)
       /\ staging' = Saved(job[c].cand \o new, TRUE)
       /\ job' = [job EXCEPT ![c].cand = @ \o new, ![c].passed = TRUE,
                             ![c].offset = LastEnd(new) + 1, ![c].chunk = 0]
  /\ Goto(c, "next")
  /\ UNCHANGED <<lease, live, range, dropped, crashes>>

\* Mutant: the retry reads the same chunk again.
PassRetried(c) ==
  /\ pc[c] = "model"
  /\ \/ Goto(c, "next") \/ Goto(c, Stopped(c))
  /\ UNCHANGED <<rows, job, crashes>>

(* No valid answer: half the token budget gives a smaller chunk to try, or *)
(* none that is smaller.                                                   *)
PassFails(c) ==
  /\ pc[c] = "model"
  /\ \/ /\ \E last \in job[c].offset .. job[c].chunk - 1 :
             job' = [job EXCEPT ![c].chunk = last]
        /\ UNCHANGED pc
     \/ Goto(c, Stopped(c)) /\ UNCHANGED job
  /\ UNCHANGED <<rows, crashes>>
-----------------------------------------------------------------------------
(* The end of the loop.                                                    *)

AllRead(c) == pc[c] = "next" /\ job[c].offset > job[c].to

(* A full recomp validates its candidates, and throws its staging away if  *)
(* they are not contiguous.                                                *)
FullReady(c) ==
  /\ AllRead(c) /\ ~job[c].partial
  /\ IF Valid(job[c].cand)
       THEN Goto(c, "save") /\ UNCHANGED <<staging, range>>
       ELSE Goto(c, "end") /\ staging' = <<>> /\ range' = NoRange
  /\ UNCHANGED <<lease, live, dropped, job, crashes>>

Rebuilt(g) == SubSeq(g.cand, g.prior + 1, Len(g.cand))

\* Mutant: only that there are rebuilt compartments is checked.
PartialReadyUnchecked(c) ==
  /\ AllRead(c) /\ job[c].partial
  /\ IF Rebuilt(job[c]) # <<>>
       THEN /\ job' = [job EXCEPT ![c].cand = @ \o job[c].tail]
            /\ Goto(c, "save")
       ELSE Goto(c, "end") /\ UNCHANGED job
  /\ UNCHANGED <<rows, crashes>>

(* promoteFinal: the rebuilt compartments cover the range exactly, and     *)
(* with those before and after it the whole is contiguous.                 *)
PartialReady(c) ==
  /\ AllRead(c) /\ job[c].partial
  /\ IF /\ Rebuilt(job[c]) # <<>>
        /\ ContiguousAfter(Rebuilt(job[c]), job[c].from - 1)
        /\ LastEnd(Rebuilt(job[c])) = job[c].to
        /\ Valid(job[c].cand \o job[c].tail)
       THEN /\ job' = [job EXCEPT ![c].cand = @ \o job[c].tail, ![c].passed = TRUE]
            /\ Goto(c, "save")
       ELSE Goto(c, "end") /\ UNCHANGED job
  /\ UNCHANGED <<rows, crashes>>

SaveFinal(c) ==
  /\ pc[c] = "save"
  /\ staging' = Saved(job[c].cand, job[c].passed)
  /\ Goto(c, "promote")
  /\ UNCHANGED <<lease, live, range, dropped, job, crashes>>

(* promoteRecompStagingWithM0Mutation: under the lease, the live           *)
(* compartments become the staging rows, whoever wrote them.               *)
Promote(c) ==
  /\ pc[c] = "promote"
  /\ IF CL!IsHeld(lease, c) /\ staging # <<>>
       THEN /\ live' = StagedRows /\ staging' = <<>>
            /\ job' = [job EXCEPT ![c].cand = StagedRows]
            /\ Goto(c, "promoted")
       ELSE Goto(c, "end") /\ UNCHANGED <<live, staging, job>>
  /\ UNCHANGED <<lease, range, dropped, crashes>>

(* After the promotion, and an await, with no look at the lease: a partial *)
(* recomp clears its range, a full one queues the drops of what its        *)
(* candidates cover.                                                       *)
Published(c) ==
  /\ pc[c] = "promoted"
  /\ IF job[c].partial
       THEN range' = NoRange /\ UNCHANGED dropped
       ELSE /\ dropped' = IF dropped < LastEnd(job[c].cand) THEN LastEnd(job[c].cand)
                                                            ELSE dropped
            /\ UNCHANGED range
  /\ Goto(c, "end")
  /\ UNCHANGED <<lease, live, staging, job, crashes>>

(* The finally blocks: a partial recomp, also one that was refused, clears *)
(* staging that has no range, and the lease is released.                   *)
Finish(c) ==
  /\ pc[c] \in {"refused", "end"}
  /\ staging' = IF job[c].partial /\ range = NoRange THEN <<>> ELSE staging
  /\ lease' = CL!Released(lease, c)
  /\ job' = [job EXCEPT ![c] = NoJob]
  /\ Goto(c, "idle")
  /\ UNCHANGED <<live, range, dropped, crashes>>
-----------------------------------------------------------------------------
(* The other writers of compartments (HistorianPublication), and failures. *)

HistorianAcquires ==
  /\ lease.holder # Historian /\ CL!CanAcquire(lease, Historian)
  /\ lease' = CL!Acquired(Historian)
  /\ UNCHANGED <<live, staging, range, dropped, pc, job, crashes>>

HistorianPublishes ==
  /\ CL!IsHeld(lease, Historian)
  /\ \E e \in LastEnd(live) + 1 .. MaxMessage :
       /\ live' = Append(live, Made(Historian, LastEnd(live) + 1, e))
       /\ dropped' = IF dropped < e THEN e ELSE dropped
  /\ UNCHANGED <<lease, staging, range, pc, job, crashes>>

HistorianReleases ==
  /\ CL!IsHeld(lease, Historian)
  /\ lease' = CL!Released(lease, Historian)
  /\ UNCHANGED <<live, staging, range, dropped, pc, job, crashes>>

(* The TTL passes: nobody renews the row of a dead command, and a command  *)
(* whose renewal does not come in time only logs that it failed.           *)
LeaseExpires ==
  /\ lease.live /\ (LiveExpiry \/ lease.holder \in {Orphan, Historian})
  /\ lease' = CL!Expired(lease)
  /\ UNCHANGED <<live, staging, range, dropped, pc, job, crashes>>

Crash(c) ==
  /\ pc[c] # "idle" /\ crashes < MaxCrashes
  /\ crashes' = crashes + 1
  /\ lease' = CL!Orphaned(lease, c)
  /\ job' = [job EXCEPT ![c] = NoJob]
  /\ Goto(c, "idle")
  /\ UNCHANGED <<live, staging, range, dropped>>

Full(c)    == BeginFull(c) \/ FullReady(c)
Partial(c) ==
  \/ NothingToRebuild(c) \/ Refuses(c) \/ BeginPartial(c) \/ SeedStaging(c) \/ MarkRange(c)
  \/ ResumePartial(c) \/ PartialReady(c)
Pass(c)    == ReadChunk(c) \/ NoChunk(c) \/ PassSucceeds(c) \/ PassFails(c)

Step(c) ==
  \/ YieldToWrapup(c) \/ Full(c) \/ Partial(c) \/ Pass(c)
  \/ SaveFinal(c) \/ Promote(c) \/ Published(c) \/ Finish(c)

Next ==
  \/ HistorianAcquires \/ HistorianPublishes \/ HistorianReleases \/ LeaseExpires
  \/ \E c \in Cmd : Acquire(c) \/ Step(c) \/ Crash(c)

Spec == Init /\ [][Next]_vars

(* A command that has started goes on: its model calls time out.           *)
FairSpec == Spec /\ \A c \in Cmd : WF_vars(Step(c))
-----------------------------------------------------------------------------
(* Properties.                                                             *)

(* Every variable has its type.                                            *)
RecompTypeOK ==
  /\ lease \in CL!LeaseRow
  /\ live \in Seq(Row) /\ staging \in Seq(StagedRow)
  /\ range \in RecompRange /\ dropped \in 0 .. MaxMessage
  /\ pc \in [Cmd -> PC] /\ job \in [Cmd -> Job]
  /\ crashes \in 0 .. MaxCrashes

(* The published history covers 1..n without gap or overlap, whoever       *)
(* rebuilt it, from whatever staging ("any valid (contiguous) state",      *)
(* compartment-runner-partial-recomp.ts).                                  *)
LiveContiguous == Valid(live)

(* While a command works under the lease, all its validated passes are     *)
(* staged and nothing else is: a crash at any moment loses none of them,   *)
(* and no later command resumes from rows nobody validated.                *)
WorkIsStaged ==
  \A c \in Cmd :
    pc[c] \in {"next", "model", "promote"} /\ CL!IsHeld(lease, c) =>
      StagedRows = job[c].cand

PromotedBy(c) == pc[c] = "promote" /\ pc'[c] = "promoted"

(* What is promoted is what the command validated: the rows that leave     *)
(* staging are its candidates, and none stay behind.                       *)
PromotedIsValidated ==
  [][\A c \in Cmd : PromotedBy(c) => live' = job[c].cand /\ staging' = <<>>]_vars

(* The commands and the historian together do what StagedHistory says: a   *)
(* pass appends to what is staged ("Append one pass's results to the        *)
(* staging tables", compartment-storage.ts), though the code replaces rows *)
(* by number and without the lease, and a promotion takes all of it.       *)
SH == INSTANCE StagedHistory WITH history <- live, staged <- StagedRows
HistoryIsRebuiltWhole == SH!Spec

(* Every command that starts ends, however often its model fails.          *)
RecompEnds == \A c \in Cmd : (pc[c] # "idle") ~> (pc[c] = "idle")

(* "An unfinished full recomp is already staged for this session.  Resume  *)
(* it by running `/ctx-recomp` without arguments": a partial recomp that   *)
(* was refused leaves the staging of the full one alone.                   *)
RefusalKeepsStaging ==
  [][\A c \in Cmd : pc[c] = "refused" /\ pc'[c] = "idle" => staging' = staging]_vars
=============================================================================
