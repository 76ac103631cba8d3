--------------------------- MODULE ContextPassProofs ---------------------------
(***************************************************************************)
(* Proofs about ContextPass, for any number of messages, mishaps and       *)
(* retries, with and without another process.                              *)
(***************************************************************************)
EXTENDS ContextPass, NumberLemmas, FiniteSetTheorems

-----------------------------------------------------------------------------
(* Ends of histories.                                                      *)

(* The last ordinal a set covers is one of its own, or zero.               *)
LEMMA EndOf ==
  ASSUME NEW S \in SUBSET Ordinal
  PROVE  /\ End(S) \in Ordinal
         /\ End(S) \in S \cup {0}
         /\ \A e \in S : e <= End(S)
<1> DEFINE T == S \cup {0}
<1>1. MaxMessage \in Nat /\ 0 \in Ordinal
  BY ContextAssumption DEF Ordinal
<1>2. T \in SUBSET Nat /\ T # {} /\ \A n \in T : n <= MaxMessage
  BY <1>1 DEF Ordinal
<1>3. Max(T) \in T /\ \A n \in T : Max(T) >= n
  <2> HIDE DEF T
  <2> QED BY <1>1, <1>2, MaxOfNumbers
<1>4. End(S) = Max(T)
  BY DEF End
<1>5. T \subseteq Ordinal /\ T \in SUBSET Nat
  BY <1>1, <1>2
<1> HIDE DEF T
<1>6. End(S) \in Ordinal /\ End(S) \in T /\ \A e \in T : e <= End(S)
  BY <1>2, <1>3, <1>4, <1>5
<1> QED BY <1>6 DEF T

LEMMA EndGrows ==
  ASSUME NEW T \in SUBSET Ordinal, NEW S \in SUBSET T
  PROVE  End(S) <= End(T)
<1>1. S \in SUBSET Ordinal /\ End(S) \in S \cup {0}
  BY EndOf
<1>2. End(T) \in Ordinal /\ \A e \in T : e <= End(T)
  BY EndOf
<1>3. End(T) >= 0
  BY <1>2, ContextAssumption DEF Ordinal
<1> QED BY <1>1, <1>2, <1>3

LEMMA EndOfNone == End({}) = 0
<1>1. {} \in SUBSET Ordinal /\ End({}) \in {} \cup {0}
  BY EndOf
<1> QED BY <1>1

(* A number that all of a set are below is below its end, and an element   *)
(* that is above all others is the end.                                    *)
LEMMA EndIs ==
  ASSUME NEW S \in SUBSET Ordinal, NEW e \in S, \A d \in S : d <= e
  PROVE  End(S) = e
<1>1. End(S) \in S \cup {0} /\ e <= End(S)
  BY EndOf
<1>2. e \in Nat
  BY ContextAssumption DEF Ordinal
<1>3. End(S) \in Ordinal
  BY EndOf
<1>4. End(S) \in Nat
  BY <1>3, ContextAssumption DEF Ordinal
<1>5. CASE End(S) \in S
  <2>1. End(S) <= e
    BY <1>5
  <2> QED BY <1>1, <1>2, <1>4, <2>1
<1>6. CASE End(S) = 0
  BY <1>1, <1>2, <1>6
<1> QED BY <1>1, <1>5, <1>6

LEMMA GreaterOfTwo ==
  ASSUME NEW a \in Nat, NEW b \in Nat
  PROVE  /\ Max({a, b}) \in {a, b}
         /\ Max({a, b}) >= a /\ Max({a, b}) >= b
<1>1. {a, b} \in SUBSET Nat /\ a + b \in Nat /\ \A n \in {a, b} : n <= a + b
  OBVIOUS
<1> QED BY <1>1, MaxOfNumbers

LEMMA GreaterOfThree ==
  ASSUME NEW a \in Nat, NEW b \in Nat, NEW c \in Nat
  PROVE  /\ Max({a, b, c}) \in {a, b, c}
         /\ Max({a, b, c}) >= a /\ Max({a, b, c}) >= b /\ Max({a, b, c}) >= c
<1>1. {a, b, c} \in SUBSET Nat /\ a + b + c \in Nat /\ \A n \in {a, b, c} : n <= a + b + c
  OBVIOUS
<1> QED BY <1>1, MaxOfNumbers

(* To be within the greater of two is to be within one of them.            *)
LEMMA WithinGreater ==
  ASSUME NEW a \in Nat, NEW b \in Nat, NEW n \in Int
  PROVE  n <= Max({a, b}) <=> n <= a \/ n <= b
<1>1. Max({a, b}) \in {a, b} /\ Max({a, b}) >= a /\ Max({a, b}) >= b
  BY GreaterOfTwo
<1>2. CASE Max({a, b}) = a
  BY <1>1, <1>2
<1>3. CASE Max({a, b}) = b
  BY <1>1, <1>3
<1> QED BY <1>1, <1>2, <1>3

-----------------------------------------------------------------------------
(* Initial segments of a history: what was rendered earlier.               *)

Segment(S, T) == S \subseteq T /\ \A d \in T, e \in S : d <= e => d \in S

LEMMA OrdinalsFinite ==
  ASSUME NEW S \in SUBSET Ordinal
  PROVE  IsFiniteSet(S)
<1>1. IsFiniteSet(0 .. MaxMessage)
  BY FS_Interval, ContextAssumption
<1> QED BY <1>1, FS_Subset DEF Ordinal

(* What m[1] adds to an m[0] that is an initial segment is the rest.       *)
LEMMA BeyondSegment ==
  ASSUME NEW T \in SUBSET Ordinal, NEW S, Segment(S, T)
  PROVE  Beyond(T, Cardinality(S)) = T \ S
<1> DEFINE Upto(e) == {d \in T : d <= e}
<1>1. S \in SUBSET Ordinal /\ IsFiniteSet(S) /\ IsFiniteSet(T)
  BY OrdinalsFinite DEF Segment
<1>2. Cardinality(S) \in Nat
  BY <1>1, FS_CardinalityType
<1>3. ASSUME NEW e \in T, e \notin S
      PROVE  Cardinality(Upto(e)) > Cardinality(S)
  <2>1. S \subseteq Upto(e)
    <3>1. SUFFICES ASSUME NEW d \in S PROVE d <= e
      BY DEF Segment
    <3>2. d \in Nat /\ e \in Nat
      BY <1>1, ContextAssumption DEF Ordinal
    <3>3. ~(e <= d)
      BY <1>3 DEF Segment
    <3> QED BY <3>2, <3>3
  <2>2. e \in Upto(e)
    BY ContextAssumption DEF Ordinal
  <2>3. IsFiniteSet(Upto(e))
    BY <1>1, FS_Subset
  <2>4. Cardinality(S) <= Cardinality(Upto(e)) /\ Cardinality(Upto(e)) \in Nat
    BY <2>1, <2>3, FS_Subset, FS_CardinalityType
  <2>5. Cardinality(S) # Cardinality(Upto(e))
    BY <1>3, <2>1, <2>2, <2>3, FS_Subset
  <2> QED BY <1>2, <2>4, <2>5
<1>4. ASSUME NEW e \in S
      PROVE  ~(Cardinality(Upto(e)) > Cardinality(S))
  <2>1. Upto(e) \subseteq S
    BY DEF Segment
  <2>2. Cardinality(Upto(e)) <= Cardinality(S) /\ Cardinality(Upto(e)) \in Nat
    BY <1>1, <2>1, FS_Subset, FS_CardinalityType
  <2> QED BY <1>2, <2>2
<1>5. Beyond(T, Cardinality(S)) = {e \in T : Cardinality(Upto(e)) > Cardinality(S)}
  BY DEF Beyond
<1> HIDE DEF Upto
<1> QED BY <1>3, <1>4, <1>5 DEF Segment

LEMMA SegmentOfAll ==
  ASSUME NEW T
  PROVE  Segment(T, T) /\ Segment({}, T)
BY DEF Segment

(* A history that grows at its end keeps its initial segments.             *)
LEMMA SegmentKept ==
  ASSUME NEW T \in SUBSET Ordinal, NEW S, Segment(S, T),
         NEW e \in End(T) + 1 .. MaxMessage - 1
  PROVE  /\ Segment(S, T \cup {e})
         /\ T \cup {e} \in SUBSET Ordinal
         /\ End(T \cup {e}) = e /\ End(T) < e
<1>1. End(T) \in Nat /\ \A d \in T : d \in Nat /\ d <= End(T)
  BY EndOf, ContextAssumption DEF Ordinal
<1>2. e \in Nat /\ End(T) < e /\ e \in Ordinal
  BY <1>1, ContextAssumption DEF Ordinal
<1>3. T \cup {e} \in SUBSET Ordinal
  BY <1>2
<1>4. \A d \in T \cup {e} : d <= e
  BY <1>1, <1>2
<1>5. End(T \cup {e}) = e
  BY <1>3, <1>4, EndIs
<1>6. ASSUME NEW s \in S PROVE ~(e <= s)
  BY <1>1, <1>2 DEF Segment
<1> QED BY <1>2, <1>3, <1>5, <1>6 DEF Segment
-----------------------------------------------------------------------------
(* The variables have the values their declarations say.                   *)

LEMMA Bounds ==
  /\ MaxMessage \in Nat /\ MaxMessage >= 1 /\ MaxRare \in Nat
  /\ Ordinal = 0 .. MaxMessage /\ 0 \in Ordinal /\ 0 \in 0 .. MaxRare
BY ContextAssumption DEF Ordinal

LEMMA Blank ==
  NoCache \in Cache /\ NoView \in View /\ NoPass \in Pass /\ NoPass.at = "idle"
<1>1. NoCache \in Cache
  BY Bounds DEF NoCache, Cache, Prompt
<1>2. NoView \in View
  BY Bounds DEF NoView, View
<1>3. NoPass \in Pass
  BY <1>2, Bounds DEF NoPass, Pass
<1> QED BY <1>1, <1>2, <1>3 DEF NoPass

LEMMA Rare ==
  ASSUME ContextTypeOK, RareLeft
  PROVE  /\ muts + 1 \in 0 .. MaxRare
         /\ prompt.model + 1 \in 0 .. MaxRare
         /\ prompt.hash + 1 \in 0 .. MaxRare
         /\ mishaps + 1 \in 0 .. MaxRare
<1>1. muts \in Nat /\ prompt.model \in Nat /\ prompt.hash \in Nat /\ mishaps \in Nat
  BY DEF ContextTypeOK, Prompt
<1>2. muts + prompt.model + prompt.hash + mishaps < MaxRare /\ MaxRare \in Nat
  BY Bounds DEF RareLeft
<1> QED BY <1>1, <1>2

LEMMA RearmedTyped == Rearmed \in SUBSET Signal /\ Deferred \in SUBSET Signal
BY DEF Rearmed, Signal

LEMMA RenderedTyped ==
  ASSUME ContextTypeOK, NEW frozen \in SUBSET Ordinal, NEW now \in SUBSET Ordinal
  PROVE  Rendered(frozen, now) \in Cache /\ Refreshed(cache, now) \in Cache
<1>1. End(frozen) \in Ordinal /\ End(now) \in Ordinal
  BY EndOf
<1>2. \A n : Beyond(now, n) \in SUBSET Ordinal
  BY DEF Beyond
<1>3. cache \in Cache /\ muts \in 0 .. MaxRare /\ prompt \in Prompt
  BY DEF ContextTypeOK
<1>4. Rendered(frozen, now) \in Cache
  BY <1>1, <1>2, <1>3 DEF Rendered, Cache
<1>5. Refreshed(cache, now) \in Cache
  <2> DEFINE m1 == Beyond(now, Cardinality(cache.m0))
             b  == IF now = {} THEN cache.boundary ELSE End(now)
  <2>1. m1 \in SUBSET Ordinal /\ b \in Ordinal
    BY <1>1, <1>2, <1>3 DEF Cache
  <2>2. Refreshed(cache, now) = [cache EXCEPT !.m1 = m1, !.boundary = b]
    BY DEF Refreshed
  <2> HIDE DEF m1, b
  <2> QED BY <1>3, <2>1, <2>2 DEF Cache
<1> QED BY <1>4, <1>5

LEMMA BoundaryTyped ==
  ASSUME NEW c \in Cache
  PROVE  BoundaryOf(c) \in Ordinal
BY Bounds DEF BoundaryOf, Cache

LEMMA FromTyped ==
  ASSUME NEW a \in Ordinal, NEW b \in Ordinal, NEW c \in Ordinal
  PROVE  /\ Max({a, b, c}) \in Ordinal /\ Max({a, b, c}) + 1 \in 1 .. MaxMessage + 1
         /\ Max({a, b}) \in Ordinal /\ Max({a, b}) + 1 \in 1 .. MaxMessage + 1
<1>1. a \in Nat /\ b \in Nat /\ c \in Nat
  BY Bounds
<1>2. Max({a, b, c}) \in {a, b, c} /\ Max({a, b}) \in {a, b}
  BY <1>1, GreaterOfTwo, GreaterOfThree
<1>3. Max({a, b, c}) \in Ordinal /\ Max({a, b}) \in Ordinal
  BY <1>2
<1>4. \A n \in Ordinal : n + 1 \in 1 .. MaxMessage + 1
  BY Bounds
<1> QED BY <1>3, <1>4

LEMMA ShownIs ==
  ASSUME ContextTypeOK, NEW c \in Cache, NEW fallback \in BOOLEAN
  PROVE  LET v == Shown(pass, c, fallback)
         IN /\ v \in View
            /\ v.injected /\ v.fallback = fallback /\ v.m0 = c.m0 /\ v.m1 = c.m1
            /\ v.from = Max({cut, pass.early, BoundaryOf(c)}) + 1
            /\ v.muts = c.muts
            /\ v.dropped = pass.view.dropped /\ v.cleared = pass.view.cleared
            /\ v.unsaved = pass.view.unsaved
<1> DEFINE f == Max({cut, pass.early, BoundaryOf(c)}) + 1
           w == [pass.view EXCEPT !.injected = TRUE, !.fallback = fallback, !.m0 = c.m0,
                                  !.m1 = c.m1, !.muts = c.muts, !.from = f]
<1>1. pass.view \in View /\ pass.early \in Ordinal /\ cut \in Ordinal
  BY DEF ContextTypeOK, Pass
<1>2. f \in 1 .. MaxMessage + 1
  BY <1>1, BoundaryTyped, FromTyped
<1>3. c.m0 \in SUBSET Ordinal /\ c.m1 \in SUBSET Ordinal /\ c.muts \in 0 .. MaxRare
  BY DEF Cache
<1>4. Shown(pass, c, fallback) = w
  BY DEF Shown
<1> HIDE DEF f
<1>5. w \in View
  BY <1>1, <1>2, <1>3 DEF View
<1>6. w.injected /\ w.fallback = fallback /\ w.m0 = c.m0 /\ w.m1 = c.m1 /\ w.from = f
      /\ w.muts = c.muts /\ w.dropped = pass.view.dropped /\ w.cleared = pass.view.cleared
      /\ w.unsaved = pass.view.unsaved
  BY <1>1 DEF View
<1> QED BY <1>4, <1>5, <1>6 DEF f

(* What an injection makes of the pass.                                    *)
LEMMA InjectsDoes ==
  ASSUME ContextTypeOK, NEW c \in Cache, NEW fallback \in BOOLEAN, NEW coverage \in Ordinal,
         Injects(pass, c, fallback, coverage)
  PROVE  /\ pass' \in Pass /\ signals' \in SUBSET Signal
         /\ pass'.at = "drain" /\ pass'.view = Shown(pass, c, fallback)
         /\ pass'.coverage = coverage /\ pass'.boundary = BoundaryOf(c)
         /\ pass'.snap = pass.snap /\ pass'.frozen = {} /\ pass'.drift = FALSE
         /\ pass'.early = pass.early /\ pass'.applied = pass.applied
         /\ pass'.eligible = pass.eligible /\ pass'.quiet = pass.quiet
<1> DEFINE v == Shown(pass, c, fallback)
           b == BoundaryOf(c)
           q == [pass EXCEPT !.at = "drain", !.view = v, !.coverage = coverage,
                             !.boundary = b, !.frozen = {}, !.tries = 0, !.drift = FALSE,
                             !.busting = FALSE, !.consumes = FALSE]
<1>1. pass \in Pass /\ signals \in SUBSET Signal
  BY DEF ContextTypeOK
<1>2. v \in View /\ b \in Ordinal
  BY ShownIs, BoundaryTyped
<1>3. pass' = q /\ signals' \in SUBSET Signal
  BY <1>1 DEF Injects
<1> HIDE DEF v, b
<1>4. q \in Pass
  BY <1>1, <1>2 DEF Pass
<1>5. /\ q.at = "drain" /\ q.view = v /\ q.coverage = coverage /\ q.boundary = b
      /\ q.snap = pass.snap /\ q.frozen = {} /\ q.drift = FALSE /\ q.early = pass.early
      /\ q.applied = pass.applied /\ q.eligible = pass.eligible /\ q.quiet = pass.quiet
  BY <1>1 DEF Pass
<1> HIDE DEF q
<1> QED BY <1>3, <1>4, <1>5 DEF v, b
-----------------------------------------------------------------------------
(* Steps keep the types: the session between passes.                       *)

LEMMA TypesBetween ==
  ASSUME ContextTypeOK,
         Turn \/ SwitchModel \/ Answer \/ Flush \/ HistorianEnds \/ Leave \/ Crash
  PROVE  ContextTypeOK'
<1> USE DEF ContextTypeOK, session, database, memory, past
<1>1. CASE Turn
  <2>1. prompt' \in Prompt
    BY <1>1, Rare DEF Turn, Prompt
  <2>2. signals' \in SUBSET Signal
    BY <1>1, RearmedTyped DEF Turn, Signal
  <2>3. due' \in BOOLEAN
    BY <1>1 DEF Turn
  <2> QED BY <1>1, <2>1, <2>2, <2>3 DEF Turn
<1>2. CASE SwitchModel
  <2>1. prompt' \in Prompt
    BY <1>2, Rare DEF SwitchModel, Prompt
  <2> QED BY <1>2, <2>1 DEF SwitchModel
<1>3. CASE Answer
  BY <1>3 DEF Answer
<1>4. CASE Flush
  BY <1>4 DEF Flush, Signal
<1>5. CASE HistorianEnds
  BY <1>5 DEF HistorianEnds
<1>6. sent \in View => Forgotten \in View
  BY Blank DEF Forgotten
<1>7. CASE Leave
  <2>1. live' \in 0 .. MaxRare /\ mishaps' \in 0 .. MaxRare
    BY <1>7, Rare DEF Leave, Prompt
  <2> QED BY <1>6, <1>7, <2>1 DEF Leave
<1>8. CASE Crash
  <2>1. live' \in 0 .. MaxRare /\ mishaps' \in 0 .. MaxRare
    BY <1>8, Rare DEF Crash, Prompt
  <2> QED BY <1>6, <1>8, <2>1, RearmedTyped, Blank DEF Crash
<1> QED BY <1>1, <1>2, <1>3, <1>4, <1>5, <1>7, <1>8

LEMMA PublishedTyped ==
  ASSUME ContextTypeOK, Published
  PROVE  comps' \in SUBSET Ordinal /\ queued' \in Ordinal /\ pending' \in Ordinal
<1>1. PICK e \in End(comps) + 1 .. MaxMessage - 1, kept \in BOOLEAN :
        /\ comps' = comps \cup {e}
        /\ queued' = Max({queued, e})
        /\ pending' = IF kept THEN e ELSE pending
  BY DEF Published
<1>2. comps \in SUBSET Ordinal /\ queued \in Ordinal /\ pending \in Ordinal
  BY DEF ContextTypeOK
<1>3. End(comps) \in Ordinal
  BY <1>2, EndOf
<1>4. e \in Ordinal
  BY <1>3, Bounds
<1>5. Max({queued, e}) \in Ordinal
  BY <1>2, <1>4, FromTyped
<1> QED BY <1>1, <1>2, <1>4, <1>5

LEMMA TypesPublish ==
  ASSUME ContextTypeOK, Publish \/ SiblingPublish \/ RecompPromotes \/ RecompFinishes
  PROVE  ContextTypeOK'
<1> USE DEF ContextTypeOK, session, database, memory, past
<1>1. CASE Publish
  <2>1. comps' \in SUBSET Ordinal /\ queued' \in Ordinal /\ pending' \in Ordinal
    BY <1>1, PublishedTyped DEF Publish
  <2>2. UNCHANGED <<muts, dropped, cleared, cache, answered>>
    BY <1>1 DEF Publish, Published
  <2>3. signals' \in SUBSET Signal /\ historian' = FALSE
    BY <1>1 DEF Publish, Signal
  <2>4. UNCHANGED <<prompt, cut, live, recomp, pass, sent, due, unbuilt, mishaps>>
    BY <1>1 DEF Publish
  <2> QED BY <2>1, <2>2, <2>3, <2>4
<1>2. CASE SiblingPublish
  <2>1. comps' \in SUBSET Ordinal /\ queued' \in Ordinal /\ pending' \in Ordinal
    BY <1>2, PublishedTyped DEF SiblingPublish
  <2>2. UNCHANGED <<muts, dropped, cleared, cache, answered>>
    BY <1>2 DEF SiblingPublish, Published
  <2>3. UNCHANGED <<prompt, cut, signals, live, historian, recomp, pass, sent, due, unbuilt, mishaps>>
    BY <1>2 DEF SiblingPublish
  <2> QED BY <2>1, <2>2, <2>3
<1>3. CASE RecompPromotes
  <2>1. comps' \in SUBSET Ordinal
    BY <1>3, Bounds DEF RecompPromotes
  <2>2. unbuilt' \in Ordinal
    <3>1. End(comps) \in Ordinal
      BY EndOf
    <3>2. Max({unbuilt, End(comps)}) \in Ordinal
      BY <3>1, FromTyped
    <3> QED BY <1>3, <3>2 DEF RecompPromotes
  <2>3. muts' \in 0 .. MaxRare
    BY <1>3, Rare DEF RecompPromotes
  <2>4. UNCHANGED <<prompt, cut, queued, dropped, cleared, pending, answered, signals, live,
                    historian, pass, sent, mishaps>>
        /\ cache' = NoCache /\ recomp' = TRUE /\ due' = TRUE
    BY <1>3 DEF RecompPromotes
  <2> QED BY <2>1, <2>2, <2>3, <2>4, Blank
<1>4. CASE RecompFinishes
  <2>1. End(comps) \in Ordinal
    BY EndOf
  <2>2. Max({queued, End(comps)}) \in Ordinal
    BY <2>1, FromTyped
  <2>3. queued' \in Ordinal /\ pending' \in Ordinal /\ recomp' = FALSE /\ signals' \in SUBSET Signal
    BY <1>4, <2>1, <2>2, RearmedTyped DEF RecompFinishes
  <2>4. UNCHANGED <<prompt, cut, comps, muts, dropped, cleared, cache, answered, live, historian,
                    pass, sent, due, unbuilt, mishaps>>
    BY <1>4 DEF RecompFinishes
  <2> QED BY <2>3, <2>4
<1> QED BY <1>1, <1>2, <1>3, <1>4

-----------------------------------------------------------------------------
(* Steps keep the types: the pass.                                         *)

LEMMA BeginDoes ==
  ASSUME ContextTypeOK, NEW emergency \in BOOLEAN, Begin(emergency)
  PROVE  /\ ContextTypeOK'
         /\ pass' = [NoPass EXCEPT !.at = "begun", !.waits = emergency /\ historian,
                                   !.early = EarlyTrim]
         /\ EarlyTrim \in Ordinal
<1>1. EarlyTrim \in Ordinal
  BY Bounds DEF EarlyTrim, ContextTypeOK, Cache
<1> DEFINE t == EarlyTrim
           w == emergency /\ historian
           q == [NoPass EXCEPT !.at = "begun", !.waits = w, !.early = t]
<1>2. w \in BOOLEAN
  BY DEF ContextTypeOK
<1>3. pass' = q
  BY DEF Begin
<1> HIDE DEF t, w
<1>4. t \in Ordinal
  BY <1>1 DEF t
<1>5. q \in Pass
  BY <1>2, <1>4, Blank DEF Pass
<1> HIDE DEF q
<1>6. live' \in 0 .. MaxRare /\ cleared' \in BOOLEAN
  BY DEF Begin, ContextTypeOK, Prompt
<1>7. UNCHANGED <<prompt, cut, comps, muts, queued, dropped, cache, pending, answered, signals,
                  historian, recomp, sent, due, unbuilt, mishaps>>
  BY DEF Begin, session, past
<1>8. ContextTypeOK'
  BY <1>3, <1>5, <1>6, <1>7 DEF ContextTypeOK
<1> QED BY <1>1, <1>3, <1>8 DEF q, t, w

(* What a decision makes of the pass.                                      *)
LEMMA DecideDoes ==
  ASSUME ContextTypeOK, NEW now \in Situation,
         NEW fails \in Failure, Decide(now, fails)
  PROVE  /\ ContextTypeOK'
         /\ pass.at = "begun"
         /\ pass'.at = (IF MustFold(now.expired) THEN "fold"
                        ELSE IF pass'.at = "refresh" THEN "refresh" ELSE "replay")
         /\ pass'.early = pass.early /\ pass'.snap = comps /\ pass'.frozen = {}
         /\ pass'.drift = FALSE /\ pass'.view.injected = FALSE
         /\ pass'.coverage = 0 /\ pass'.boundary = 0
         /\ pass'.eligible => pass'.applied
         /\ pass'.applied => pass'.at # "replay" /\ pass'.view.dropped = queued
         /\ sent' \in {sent, NoView}
         /\ UNCHANGED <<prompt, cut, comps, muts, queued, cache, pending, answered, due, unbuilt>>
<1> DEFINE consumes == Consumes(now) /\ "deferred history" \in signals
           busting  == "history" \in signals
           runs     == RunsHeuristics(now)
           ok       == runs /\ fails \notin {"heuristics", "midway"}
           used     == DropsConsumed(now, ok)
           quiet    == /\ ~Forced(now) /\ ~MustFold(now.expired)
                       /\ signals \cap {"history", "flush"} = {}
                       /\ now.midTurn \/ (now.usage = "low" /\ ~now.expired)
           applied  == AppliesDrops(now)
           eligible == /\ AppliesDrops(now) /\ (busting \/ consumes)
                       /\ signals \cap {"flush", "deferred history"} # {}
           midway == fails = "midway"
           v == [NoView EXCEPT !.dropped = dropped', !.cleared = cleared', !.unsaved = midway]
           p == [NoPass EXCEPT !.early = pass.early, !.quiet = quiet, !.busting = busting,
                               !.applied = applied, !.consumes = consumes,
                               !.eligible = eligible, !.used = used, !.snap = comps, !.view = v]
           at == IF MustFold(now.expired) THEN "fold"
                 ELSE IF Recomputes(p) THEN "refresh" ELSE "replay"
           q == [p EXCEPT !.at = at]
<1>1. /\ consumes \in BOOLEAN /\ busting \in BOOLEAN /\ used \in BOOLEAN /\ quiet \in BOOLEAN
      /\ applied \in BOOLEAN /\ eligible \in BOOLEAN /\ midway \in BOOLEAN
  BY DEF Consumes, DropsConsumed, AppliesDrops
<1>2. /\ pass.at = "begun"
      /\ dropped' = (IF applied THEN queued ELSE dropped)
      /\ cleared' = (cleared \/ (runs /\ fails # "reasoning"))
      /\ mishaps' = (IF fails = "nothing" THEN mishaps ELSE mishaps + 1)
      /\ fails # "nothing" => RareLeft
      /\ signals' \in SUBSET signals
      /\ sent' \in {sent, NoView}
      /\ UNCHANGED <<prompt, cut, comps, muts, queued, cache, pending, answered, live,
                     historian, recomp, due, unbuilt>>
  BY DEF Decide, session
<1>3. pass' = q
  BY DEF Decide
<1>4. dropped' \in Ordinal /\ cleared' \in BOOLEAN
  BY <1>2 DEF ContextTypeOK
<1>5. at \in {"fold", "refresh", "replay"}
  OBVIOUS
<1>6. pass.early \in Ordinal /\ comps \in SUBSET Ordinal
  BY DEF ContextTypeOK, Pass
<1>7. v \in View /\ v.injected = FALSE /\ v.dropped = dropped'
  BY <1>1, <1>4, Blank DEF View, NoView
<1>8. at = (IF MustFold(now.expired) THEN "fold" ELSE IF at = "refresh" THEN "refresh" ELSE "replay")
  OBVIOUS
<1>9. (eligible => applied) /\ (p.applied => at # "replay")
  BY DEF Recomputes
<1> HIDE DEF consumes, busting, ok, used, quiet, applied, eligible, midway, v, at
<1>10. p \in Pass
  BY <1>1, <1>6, <1>7, Blank DEF Pass
<1>11. /\ p.early = pass.early /\ p.snap = comps /\ p.view = v
       /\ p.frozen = {} /\ p.drift = FALSE /\ p.coverage = 0 /\ p.boundary = 0
       /\ p.applied = applied /\ p.eligible = eligible
  BY Blank DEF Pass, NoPass
<1> HIDE DEF p
<1>12. q \in Pass /\ q.at = at
  BY <1>5, <1>10 DEF Pass
<1>13. /\ q.early = pass.early /\ q.snap = comps /\ q.view = v
       /\ q.frozen = {} /\ q.drift = FALSE /\ q.coverage = 0 /\ q.boundary = 0
       /\ q.applied = applied /\ q.eligible = eligible
  BY <1>10, <1>11 DEF Pass
<1> HIDE DEF q
<1>14. mishaps' \in 0 .. MaxRare
  BY <1>2, Rare DEF ContextTypeOK
<1>15. sent' \in View
  BY <1>2, Blank DEF ContextTypeOK
<1>16. ContextTypeOK'
  BY <1>2, <1>3, <1>4, <1>12, <1>14, <1>15 DEF ContextTypeOK
<1>17. applied => v.dropped = queued
  BY <1>2, <1>7
<1> QED BY <1>2, <1>3, <1>7, <1>8, <1>9, <1>11, <1>12, <1>13, <1>16, <1>17

(* What the steps that only move the pass on make of it.                   *)
LEMMA MovesOn ==
  ASSUME ContextTypeOK, Freeze \/ RetryFold \/ InjectionFails
  PROVE  /\ ContextTypeOK'
         /\ UNCHANGED <<prompt, cut, comps, muts, cache, pending, answered, sent, due, unbuilt>>
         /\ pass'.early = pass.early /\ pass'.snap = pass.snap /\ pass'.drift = pass.drift
         /\ pass'.view.injected = pass.view.injected
         /\ pass'.view.dropped = pass.view.dropped /\ pass'.view.cleared = pass.view.cleared
         /\ pass'.view.unsaved = pass.view.unsaved
         /\ pass'.applied = pass.applied /\ pass'.eligible = pass.eligible
         /\ pass'.quiet = pass.quiet
         /\ \/ /\ pass'.at = "frozen" /\ pass'.frozen = comps /\ pass'.coverage = pass.coverage
               /\ pass.at = "fold"
            \/ /\ pass'.at = "fold" /\ pass'.frozen = pass.frozen
               /\ pass'.coverage = pass.coverage /\ pass.at = "frozen"
            \/ /\ pass'.at = "drain" /\ pass'.frozen = pass.frozen /\ pass'.coverage = 0
               /\ pass.at \in {"fold", "frozen", "refresh", "replay"}
<1>1. pass \in Pass /\ comps \in SUBSET Ordinal /\ cut \in Ordinal
  BY DEF ContextTypeOK
<1>2. CASE Freeze
  <2> DEFINE q == [pass EXCEPT !.at = "frozen", !.frozen = comps]
  <2>1. q \in Pass /\ q.at = "frozen" /\ q.frozen = comps /\ q.early = pass.early
        /\ q.snap = pass.snap /\ q.drift = pass.drift /\ q.view = pass.view
        /\ q.coverage = pass.coverage /\ q.applied = pass.applied
        /\ q.eligible = pass.eligible /\ q.quiet = pass.quiet
    BY <1>1 DEF Pass
  <2>2. pass' = q /\ pass.at = "fold" /\ UNCHANGED <<session, database, memory, past, mishaps>>
    BY <1>2 DEF Freeze
  <2> HIDE DEF q
  <2>3. ContextTypeOK'
    BY <2>1, <2>2 DEF ContextTypeOK, session, database, memory, past
  <2> QED BY <2>1, <2>2, <2>3 DEF session, database, past
<1>3. CASE RetryFold
  <2> DEFINE t == pass.tries + 1
             q == [pass EXCEPT !.at = "fold", !.tries = t]
  <2>1. t \in Nat
    BY <1>1 DEF Pass
  <2>2. pass' = q /\ pass.at = "frozen" /\ UNCHANGED <<session, database, memory, past, mishaps>>
    BY <1>3 DEF RetryFold
  <2> HIDE DEF t
  <2>3. q \in Pass /\ q.at = "fold" /\ q.frozen = pass.frozen /\ q.early = pass.early
        /\ q.snap = pass.snap /\ q.drift = pass.drift /\ q.view = pass.view
        /\ q.coverage = pass.coverage /\ q.applied = pass.applied
        /\ q.eligible = pass.eligible /\ q.quiet = pass.quiet
    BY <1>1, <2>1 DEF Pass
  <2> HIDE DEF q
  <2>4. ContextTypeOK'
    BY <2>3, <2>2 DEF ContextTypeOK, session, database, memory, past
  <2> QED BY <2>3, <2>2, <2>4 DEF session, database, past
<1>4. CASE InjectionFails
  <2> DEFINE f == Max({cut, pass.early}) + 1
             v == [pass.view EXCEPT !.from = f]
             q == [pass EXCEPT !.at = "drain", !.coverage = 0, !.view = v]
  <2>1. pass.early \in Ordinal /\ pass.view \in View
    BY <1>1 DEF Pass
  <2>2. f \in 1 .. MaxMessage + 1
    BY <1>1, <2>1, FromTyped
  <2>3. pass' = q /\ pass.at \in {"fold", "frozen", "refresh", "replay"}
        /\ mishaps' = mishaps + 1 /\ RareLeft
        /\ UNCHANGED <<session, database, memory, past>>
    BY <1>4 DEF InjectionFails
  <2> HIDE DEF f
  <2>4. v \in View /\ v.injected = pass.view.injected /\ v.dropped = pass.view.dropped
        /\ v.cleared = pass.view.cleared /\ v.unsaved = pass.view.unsaved
    BY <2>1, <2>2 DEF View
  <2> HIDE DEF v
  <2>5. q \in Pass /\ q.at = "drain" /\ q.frozen = pass.frozen /\ q.early = pass.early
        /\ q.snap = pass.snap /\ q.drift = pass.drift /\ q.view = v /\ q.coverage = 0
        /\ q.applied = pass.applied /\ q.eligible = pass.eligible /\ q.quiet = pass.quiet
    BY <1>1, <2>4, Bounds DEF Pass
  <2> HIDE DEF q
  <2>6. mishaps' \in 0 .. MaxRare
    BY <2>3, Rare
  <2>7. ContextTypeOK'
    BY <2>3, <2>5, <2>6 DEF ContextTypeOK, session, database, memory, past
  <2> QED BY <2>3, <2>4, <2>5, <2>7 DEF session, database, past
<1> QED BY <1>2, <1>3, <1>4

(* What the steps that end the pass make of it.                            *)
LEMMA Finishes ==
  ASSUME ContextTypeOK,
         Crash \/ DropsFail \/ ReturnUndrained \/ MarkerFails \/ ClearMarker
  PROVE  /\ ContextTypeOK'
         /\ UNCHANGED <<prompt, cut, comps, muts, cache, answered, due, unbuilt>>
         /\ pass' = NoPass
         /\ sent' \in {sent, NoView, pass.view}
<1> USE DEF session, database, memory, past
<1>1. pass.view \in View /\ pass.marker \in Ordinal
  BY DEF ContextTypeOK, Pass
<1>2. historian \in BOOLEAN /\ recomp \in BOOLEAN /\ signals \in SUBSET Signal
  BY DEF ContextTypeOK
<1>3. CASE Crash
  <2>1. ContextTypeOK'
    BY <1>3, TypesBetween
  <2> QED BY <1>3, <2>1 DEF Crash, Forgotten
<1>4. CASE DropsFail
  <2>1. mishaps' \in 0 .. MaxRare
    BY <1>4, Rare DEF DropsFail
  <2> QED BY <1>4, <2>1, Blank DEF DropsFail, ContextTypeOK
<1>5. CASE ReturnUndrained
  <2>1. signals' \in SUBSET Signal
    BY <1>2, <1>5 DEF ReturnUndrained, Signal, Deferred
  <2>2. pass' = NoPass /\ sent' = pass.view /\ historian' \in BOOLEAN
    BY <1>2, <1>5 DEF ReturnUndrained, Sends
  <2>3. UNCHANGED <<prompt, cut, comps, muts, queued, dropped, cleared, cache, pending, answered,
                    live, recomp, due, unbuilt, mishaps>>
    BY <1>5 DEF ReturnUndrained
  <2> QED BY <1>1, <2>1, <2>2, <2>3, Blank DEF ContextTypeOK
<1>6. CASE MarkerFails
  <2>1. mishaps' \in 0 .. MaxRare
    BY <1>6, Rare DEF MarkerFails
  <2>2. pass' = NoPass /\ sent' = pass.view /\ historian' \in BOOLEAN
    BY <1>2, <1>6 DEF MarkerFails, Sends
  <2>3. UNCHANGED <<prompt, cut, comps, muts, queued, dropped, cleared, cache, pending, answered,
                    signals, live, recomp, due, unbuilt>>
    BY <1>6 DEF MarkerFails
  <2> QED BY <1>1, <2>1, <2>2, <2>3, Blank DEF ContextTypeOK
<1>7. CASE ClearMarker
  <2>1. signals' \in SUBSET Signal
    BY <1>2, <1>7 DEF ClearMarker
  <2>2. pass' = NoPass /\ sent' = pass.view /\ historian' \in BOOLEAN
    BY <1>2, <1>7 DEF ClearMarker, Sends
  <2>3. pending' \in Ordinal
    BY <1>7, Bounds DEF ClearMarker, ClearedIf, ContextTypeOK
  <2>4. UNCHANGED <<prompt, cut, comps, muts, queued, dropped, cleared, cache, answered,
                    live, recomp, due, unbuilt, mishaps>>
    BY <1>7 DEF ClearMarker
  <2> QED BY <1>1, <2>1, <2>2, <2>3, <2>4, Blank DEF ContextTypeOK
<1> QED BY <1>3, <1>4, <1>5, <1>6, <1>7

LEMMA ApplyDoes ==
  ASSUME ContextTypeOK, ApplyMarker
  PROVE  /\ ContextTypeOK'
         /\ UNCHANGED <<prompt, comps, muts, cache, pending, answered, sent, due, unbuilt>>
         /\ pass' = [pass EXCEPT !.at = "clear", !.marker = pending]
         /\ cut' = IF pending \in comps THEN Max({cut, pending}) ELSE cut
         /\ pass.view.injected /\ ~pass.view.fallback /\ Covered(pass)
<1>1. pass \in Pass /\ pending \in Ordinal /\ cut \in Ordinal
  BY DEF ContextTypeOK
<1>2. Max({cut, pending}) \in Ordinal
  BY <1>1, FromTyped
<1> DEFINE q == [pass EXCEPT !.at = "clear", !.marker = pending]
<1>3. q \in Pass
  BY <1>1 DEF Pass
<1>4. pass' = q /\ cut' = (IF pending \in comps THEN Max({cut, pending}) ELSE cut)
      /\ UNCHANGED <<prompt, database, memory, past, mishaps>>
  BY DEF ApplyMarker
<1> HIDE DEF q
<1>5. cut' \in Ordinal
  BY <1>1, <1>2, <1>4
<1>6. ContextTypeOK'
  BY <1>3, <1>4, <1>5 DEF ContextTypeOK, database, memory, past
<1>7. pass.view.injected /\ ~pass.view.fallback /\ Covered(pass)
  BY DEF ApplyMarker, Covered
<1> QED BY <1>4, <1>6, <1>7 DEF q, database, past

-----------------------------------------------------------------------------
(* Steps keep the types: the injection.                                    *)

(* The pair c a step of the pass injects, and what it stores.              *)
Injected(c, fallback, coverage) ==
  \/ /\ c = cache /\ ~fallback /\ coverage = 0 /\ pass.at = "replay"
     /\ UNCHANGED <<cache, answered, due>>
  \/ /\ c = Rendered(pass.frozen, comps) /\ ~fallback /\ coverage = 0
     /\ pass.at = "frozen" /\ ~Stale
     /\ cache' = c /\ answered' = FALSE /\ due' = FALSE
  \/ /\ c = cache /\ ~fallback /\ coverage = pass.coverage /\ pass.drift
     /\ UNCHANGED <<cache, answered, due>>
  \/ /\ c = cache /\ fallback /\ coverage = 0 /\ cache.there
     /\ UNCHANGED <<cache, answered, due>>
  \/ /\ c = Rendered(pass.frozen, comps) /\ fallback /\ coverage = 0 /\ pass.at = "fresh"
     /\ UNCHANGED <<cache, answered, due>>
  \/ /\ c = Refreshed(cache, pass.snap) /\ ~fallback
     /\ coverage = (IF c.m1 = {} THEN 0 ELSE End(c.m1)) /\ pass.at = "refresh"
     /\ cache' = c /\ UNCHANGED <<answered, due>>

LEMMA InjectionDoes ==
  ASSUME ContextTypeOK,
         \/ Replay \/ Persist \/ RenderFresh \/ SoftRefresh(FALSE)
         \/ Contention /\ pass'.at # "fresh"
  PROVE  /\ ContextTypeOK'
         /\ UNCHANGED <<prompt, cut, comps, muts, pending, sent, unbuilt>>
         /\ \E c \in Cache, fallback \in BOOLEAN, coverage \in Ordinal :
              /\ Injects(pass, c, fallback, coverage)
              /\ Injected(c, fallback, coverage)
<1> DEFINE Others == UNCHANGED <<prompt, cut, comps, muts, queued, dropped, cleared, pending,
                                 live, historian, recomp, sent, unbuilt, mishaps>>
<1>1. /\ cache \in Cache /\ pass.frozen \in SUBSET Ordinal /\ comps \in SUBSET Ordinal
      /\ pass.snap \in SUBSET Ordinal /\ pass.coverage \in Ordinal /\ 0 \in Ordinal
      /\ TRUE \in BOOLEAN /\ FALSE \in BOOLEAN
  BY Bounds DEF ContextTypeOK, Pass
<1>2. Rendered(pass.frozen, comps) \in Cache /\ Refreshed(cache, pass.snap) \in Cache
  BY <1>1, RenderedTyped
<1>3. /\ Others /\ answered' \in BOOLEAN /\ due' \in BOOLEAN
      /\ \E c \in Cache, fallback \in BOOLEAN, coverage \in Ordinal :
           Injects(pass, c, fallback, coverage) /\ Injected(c, fallback, coverage)
  <2> USE DEF session, database, past
  <2>1. answered \in BOOLEAN /\ due \in BOOLEAN
    BY DEF ContextTypeOK
  <2>2. CASE Replay
    <3>1. Injects(pass, cache, FALSE, 0) /\ pass.at = "replay" /\ UNCHANGED <<cache, answered, due>>
      BY <2>2 DEF Replay
    <3>2. Injected(cache, FALSE, 0)
      BY <3>1 DEF Injected
    <3>3. Others
      BY <2>2 DEF Replay
    <3> QED BY <1>1, <2>1, <3>1, <3>2, <3>3
  <2>3. CASE Persist
    <3> DEFINE c == Rendered(pass.frozen, comps)
    <3>1. Injects(pass, c, FALSE, 0) /\ pass.at = "frozen" /\ ~Stale
          /\ cache' = c /\ answered' = FALSE /\ due' = FALSE
      BY <2>3 DEF Persist
    <3>2. Injected(c, FALSE, 0)
      BY <3>1 DEF Injected
    <3>3. Others
      BY <2>3 DEF Persist
    <3> HIDE DEF c
    <3>4. c \in Cache
      BY <1>2 DEF c
    <3> QED BY <1>1, <3>1, <3>2, <3>3, <3>4
  <2>4. CASE Contention /\ pass'.at # "fresh"
    <3>1. Others /\ UNCHANGED <<cache, answered, due>>
      BY <2>4 DEF Contention
    <3>2. pass' # [pass EXCEPT !.at = "fresh", !.frozen = comps]
      BY <2>4 DEF ContextTypeOK, Pass
    <3>3. \/ pass.drift /\ Injects(pass, cache, FALSE, pass.coverage)
          \/ cache.there /\ Injects(pass, cache, TRUE, 0)
      BY <2>4, <3>2 DEF Contention
    <3>4. CASE pass.drift /\ Injects(pass, cache, FALSE, pass.coverage)
      <4>1. Injected(cache, FALSE, pass.coverage)
        BY <3>1, <3>4 DEF Injected
      <4> QED BY <1>1, <2>1, <3>1, <3>4, <4>1
    <3>5. CASE cache.there /\ Injects(pass, cache, TRUE, 0)
      <4>1. Injected(cache, TRUE, 0)
        BY <3>1, <3>5 DEF Injected
      <4> QED BY <1>1, <2>1, <3>1, <3>5, <4>1
    <3> QED BY <3>3, <3>4, <3>5
  <2>5. CASE RenderFresh
    <3> DEFINE c == Rendered(pass.frozen, comps)
    <3>1. Injects(pass, c, TRUE, 0) /\ pass.at = "fresh" /\ UNCHANGED <<cache, answered, due>>
      BY <2>5 DEF RenderFresh
    <3>2. Injected(c, TRUE, 0)
      BY <3>1 DEF Injected
    <3>3. Others
      BY <2>5 DEF RenderFresh
    <3> HIDE DEF c
    <3>4. c \in Cache
      BY <1>2 DEF c
    <3> QED BY <1>1, <2>1, <3>1, <3>2, <3>3, <3>4
  <2>6. CASE SoftRefresh(FALSE)
    <3> DEFINE c == Refreshed(cache, pass.snap)
               n == IF c.m1 = {} THEN 0 ELSE End(c.m1)
    <3>1. Injects(pass, c, FALSE, n) /\ pass.at = "refresh" /\ cache' = c
          /\ UNCHANGED <<answered, due>>
      BY <2>6 DEF SoftRefresh
    <3>2. Injected(c, FALSE, n)
      BY <3>1 DEF Injected
    <3>3. Others
      BY <2>6 DEF SoftRefresh
    <3>4. c \in Cache
      BY <1>2
    <3>5. n \in Ordinal
      <4> HIDE DEF c
      <4>1. c.m1 \in SUBSET Ordinal
        BY <3>4 DEF Cache
      <4> QED BY <4>1, EndOf, Bounds
    <3> HIDE DEF c, n
    <3> QED BY <1>1, <2>1, <3>1, <3>2, <3>3, <3>4, <3>5
  <2> QED BY <2>2, <2>3, <2>4, <2>5, <2>6
<1>4. PICK c \in Cache, fallback \in BOOLEAN, coverage \in Ordinal :
        Injects(pass, c, fallback, coverage) /\ Injected(c, fallback, coverage)
  BY <1>3
<1>5. pass' \in Pass /\ signals' \in SUBSET Signal
  BY <1>4, InjectsDoes
<1>6. cache' \in Cache
  BY <1>1, <1>4 DEF Injected
<1>7. ContextTypeOK'
  BY <1>3, <1>5, <1>6 DEF ContextTypeOK
<1> QED BY <1>3, <1>7

LEMMA FreshDoes ==
  ASSUME ContextTypeOK, Contention, pass'.at = "fresh"
  PROVE  /\ ContextTypeOK'
         /\ UNCHANGED <<prompt, cut, comps, muts, cache, pending, answered, sent, due, unbuilt>>
         /\ pass' = [pass EXCEPT !.at = "fresh", !.frozen = comps]
         /\ pass.at = "frozen" /\ ~cache.there
<1>1. /\ cache \in Cache /\ pass \in Pass /\ pass.coverage \in Ordinal /\ comps \in SUBSET Ordinal
      /\ 0 \in Ordinal /\ TRUE \in BOOLEAN /\ FALSE \in BOOLEAN
  BY Bounds DEF ContextTypeOK, Pass
<1>2. ~Injects(pass, cache, FALSE, pass.coverage) /\ ~Injects(pass, cache, TRUE, 0)
  <2>1. Injects(pass, cache, FALSE, pass.coverage) => pass'.at = "drain"
    BY <1>1, InjectsDoes
  <2>2. Injects(pass, cache, TRUE, 0) => pass'.at = "drain"
    BY <1>1, InjectsDoes
  <2> QED BY <2>1, <2>2
<1> DEFINE q == [pass EXCEPT !.at = "fresh", !.frozen = comps]
<1>3. pass' = q /\ ~cache.there /\ pass.at = "frozen" /\ signals' = signals
      /\ UNCHANGED <<session, database, live, historian, recomp, past, mishaps>>
  BY <1>2 DEF Contention
<1>4. q \in Pass
  BY <1>1 DEF Pass
<1> HIDE DEF q
<1>5. ContextTypeOK'
  BY <1>3, <1>4 DEF ContextTypeOK, session, database, past
<1> QED BY <1>3, <1>5 DEF session, database, past, q

LEMMA DriftDoes ==
  ASSUME ContextTypeOK, SoftRefresh(TRUE)
  PROVE  /\ ContextTypeOK'
         /\ UNCHANGED <<prompt, cut, comps, muts, pending, answered, sent, due, unbuilt>>
         /\ pass.at = "refresh"
         /\ cache' = Refreshed(cache, pass.snap) /\ cache'.m1 # {}
         /\ pass'.at = "fold" /\ pass'.drift /\ pass'.coverage = End(cache'.m1)
         /\ pass'.view = pass.view /\ pass'.early = pass.early
         /\ pass'.snap = pass.snap /\ pass'.frozen = pass.frozen
         /\ pass'.applied = pass.applied /\ pass'.eligible = pass.eligible
         /\ pass'.quiet = pass.quiet
<1> DEFINE c == Refreshed(cache, pass.snap)
           n == IF c.m1 = {} THEN 0 ELSE End(c.m1)
           q == [pass EXCEPT !.at = "fold", !.drift = TRUE, !.coverage = n]
<1>1. cache \in Cache /\ pass \in Pass /\ pass.snap \in SUBSET Ordinal
  BY DEF ContextTypeOK, Pass
<1>2. c \in Cache
  BY <1>1, RenderedTyped
<1>3. n \in Ordinal
  <2> HIDE DEF c
  <2>1. c.m1 \in SUBSET Ordinal
    BY <1>2 DEF Cache
  <2> QED BY <2>1, EndOf, Bounds
<1>4. /\ pass.at = "refresh" /\ cache' = c /\ c.m1 # {} /\ pass' = q /\ signals' = signals
      /\ UNCHANGED <<prompt, cut, comps, muts, queued, dropped, cleared, pending, answered, live,
                     historian, recomp, sent, due, unbuilt, mishaps>>
  BY DEF SoftRefresh, session, past
<1>5. n = End(cache'.m1)
  BY <1>4
<1> HIDE DEF c, n
<1>6. /\ q \in Pass /\ q.at = "fold" /\ q.drift /\ q.coverage = n /\ q.view = pass.view
      /\ q.early = pass.early /\ q.snap = pass.snap /\ q.frozen = pass.frozen
      /\ q.applied = pass.applied /\ q.eligible = pass.eligible /\ q.quiet = pass.quiet
  BY <1>1, <1>3 DEF Pass
<1> HIDE DEF q
<1>7. ContextTypeOK'
  BY <1>2, <1>4, <1>6 DEF ContextTypeOK
<1> QED BY <1>4, <1>5, <1>6, <1>7 DEF c

LEMMA TypesKept ==
  ASSUME ContextTypeOK, [Next]_vars
  PROVE  ContextTypeOK'
<1>1. CASE UNCHANGED vars
  BY <1>1 DEF ContextTypeOK, vars, session, database, memory, past
<1>2. CASE Turn \/ SwitchModel \/ Answer \/ Flush \/ HistorianEnds \/ Leave
  BY <1>2, TypesBetween
<1>3. CASE Publish \/ SiblingPublish \/ RecompPromotes \/ RecompFinishes
  BY <1>3, TypesPublish
<1>4. CASE \E emergency \in BOOLEAN : Begin(emergency)
  BY <1>4, BeginDoes
<1>5. CASE \E now \in Situation, fails \in Failure :
             Decide(now, fails)
  BY <1>5, DecideDoes
<1>6. CASE Freeze \/ RetryFold \/ InjectionFails
  BY <1>6, MovesOn
<1>7. CASE Crash \/ DropsFail \/ ReturnUndrained \/ MarkerFails \/ ClearMarker
  BY <1>7, Finishes
<1>8. CASE ApplyMarker
  BY <1>8, ApplyDoes
<1>9. CASE \/ Replay \/ Persist \/ RenderFresh \/ SoftRefresh(FALSE)
           \/ Contention /\ pass'.at # "fresh"
  BY <1>9, InjectionDoes
<1>10. CASE Contention /\ pass'.at = "fresh"
  BY <1>10, FreshDoes
<1>11. CASE SoftRefresh(TRUE)
  BY <1>11, DriftDoes
<1>12. (\E drift \in BOOLEAN : SoftRefresh(drift)) => SoftRefresh(TRUE) \/ SoftRefresh(FALSE)
  <2>1. \A drift \in BOOLEAN : drift = TRUE \/ drift = FALSE
    OBVIOUS
  <2> QED BY <2>1
<1> QED BY <1>1, <1>2, <1>3, <1>4, <1>5, <1>6, <1>7, <1>8, <1>9, <1>10, <1>11, <1>12
        DEF Next

LEMMA TypesHoldFirst == Init => ContextTypeOK
BY Blank, Bounds DEF Init, ContextTypeOK, NoCache, Prompt, Cache

(* What a pass holds and what the database caches are of their kinds       *)
(* whatever number of messages, mishaps and retries there is.              *)
THEOREM ContextTypes == Spec => []ContextTypeOK
<1>1. Init => ContextTypeOK
  BY TypesHoldFirst
<1>2. ContextTypeOK /\ [Next]_vars => ContextTypeOK'
  BY TypesKept
<1> QED BY <1>1, <1>2, PTL DEF Spec
-----------------------------------------------------------------------------
(* The inductive invariant.                                                *)

(* What is cached is an initial segment of the history.                    *)
CacheInv ==
  cache.there => /\ Segment(cache.m0, comps)
                 /\ Segment(History(cache), comps)
                 /\ cache.muts = muts
                 /\ cache.boundary = End(History(cache))

(* What the next pass can at least show.                                   *)
Known == IF cache.there THEN History(cache) ELSE comps

CutInv == cut <= Max({unbuilt, End(Known)})

(* Until a cause arises the cached pair is one no pass would fold.         *)
DueInv == ~due => cache.there /\ cache.prompt = prompt /\ ~answered

StageInv ==
  /\ pass.at = "idle" => pass = NoPass
  /\ pass.at \in {"refresh", "replay"} \/ pass.drift => cache.there
  /\ pass.at = "fresh" => ~cache.there
  /\ pass.view.injected => pass.at \in {"drain", "clear"}

(* What a pass has read is an initial segment of what there is now.        *)
RenderInv ==
  /\ Segment(pass.snap, comps)
  /\ Segment(pass.frozen, comps)
  /\ pass.at = "refresh" => History(cache) \subseteq pass.snap
  /\ pass.early <= (IF cache.there THEN End(History(cache)) ELSE 0)
  /\ pass.drift => pass.coverage <= End(History(cache))

(* A pass that injected shows what it cuts off; from the database, what it *)
(* shows is what is cached until it returns.                               *)
ShownInv ==
  pass.view.injected =>
    /\ pass.view.from - 1 <= Max({End(History(pass.view)), unbuilt})
    /\ ~pass.view.fallback => /\ cache.there
                              /\ History(pass.view) = History(cache)
                              /\ pass.boundary <= End(History(cache))
                              /\ pass.coverage <= End(History(cache))

(* Between the cut and the clearing of its marker new compartments only    *)
(* come after it.                                                          *)
MarkerInv ==
  pass.at = "clear" => /\ pass.marker <= End(comps)
                       /\ pass.marker <= cut \/ pass.marker \notin comps

CtxInv ==
  /\ ContextTypeOK
  /\ CacheInv /\ CutInv /\ DueInv
  /\ StageInv /\ RenderInv /\ ShownInv /\ MarkerInv
  /\ WholeContext

LEMMA InvHoldsFirst == Init => CtxInv
<1> SUFFICES ASSUME Init PROVE CtxInv
  OBVIOUS
<1>1. ContextTypeOK
  BY TypesHoldFirst
<1>2. /\ cut = 0 /\ comps = {} /\ cache = NoCache /\ pass = NoPass /\ sent = NoView
      /\ due /\ unbuilt = 0
  BY DEF Init
<1>3. ~cache.there /\ ~pass.view.injected /\ pass.at = "idle" /\ ~pass.drift
      /\ pass.snap = {} /\ pass.frozen = {} /\ pass.early = 0 /\ ~sent.injected
  BY <1>2 DEF NoCache, NoPass, NoView
<1>4. CutInv
  <2>1. Max({0, 0}) \in {0, 0}
    BY GreaterOfTwo
  <2> QED BY <1>2, <1>3, <2>1, EndOfNone DEF CutInv, Known
<1>5. Segment({}, {})
  BY SegmentOfAll
<1> QED BY <1>1, <1>2, <1>3, <1>4, <1>5
        DEF CtxInv, CacheInv, DueInv, StageInv, RenderInv, ShownInv, MarkerInv, WholeContext
-----------------------------------------------------------------------------
(* Pairs that are rendered.                                                *)

(* Rendered from an initial segment of the history, m[0] and m[1] are all  *)
(* of it.                                                                  *)
LEMMA RenderedIs ==
  ASSUME ContextTypeOK, NEW frozen, Segment(frozen, comps)
  PROVE  LET c == Rendered(frozen, comps)
         IN /\ c \in Cache /\ c.there /\ c.m0 = frozen /\ History(c) = comps
            /\ c.muts = muts /\ c.prompt = prompt /\ c.boundary = End(frozen)
            /\ BoundaryOf(c) <= End(comps)
<1>1. comps \in SUBSET Ordinal /\ frozen \in SUBSET comps
  BY DEF ContextTypeOK, Segment
<1>2. Beyond(comps, Cardinality(frozen)) = comps \ frozen
  BY <1>1, BeyondSegment
<1>3. Rendered(frozen, comps) \in Cache
  BY <1>1, RenderedTyped
<1>4. End(frozen) <= End(comps) /\ End(comps) \in Nat
  BY <1>1, EndGrows, EndOf, Bounds
<1> QED BY <1>1, <1>2, <1>3, <1>4 DEF Rendered, History, BoundaryOf

(* A refresh renders what the pass has seen when it decided.               *)
LEMMA RefreshedIs ==
  ASSUME CtxInv, pass.at = "refresh"
  PROVE  LET c == Refreshed(cache, pass.snap)
         IN /\ c \in Cache /\ c.there /\ c.muts = muts /\ c.prompt = cache.prompt
            /\ Segment(c.m0, comps) /\ Segment(History(c), comps)
            /\ c.boundary = End(History(c)) /\ End(c.m1) <= End(History(c))
            /\ History(cache) \subseteq History(c) /\ History(c) = pass.snap
<1>1. /\ cache \in Cache /\ pass.snap \in SUBSET Ordinal /\ comps \in SUBSET Ordinal
      /\ cache.there /\ Segment(cache.m0, comps) /\ cache.muts = muts
      /\ Segment(pass.snap, comps) /\ History(cache) \subseteq pass.snap
      /\ cache.boundary = End(History(cache))
  BY DEF CtxInv, ContextTypeOK, Pass, StageInv, CacheInv, RenderInv
<1>2. Segment(cache.m0, pass.snap)
  BY <1>1 DEF Segment, History
<1>3. Beyond(pass.snap, Cardinality(cache.m0)) = pass.snap \ cache.m0
  BY <1>1, <1>2, BeyondSegment
<1> DEFINE c == Refreshed(cache, pass.snap)
           b == IF pass.snap = {} THEN cache.boundary ELSE End(pass.snap)
<1>4. c \in Cache
  BY <1>1, RenderedTyped DEF CtxInv
<1>5. /\ c.there = cache.there /\ c.muts = cache.muts /\ c.prompt = cache.prompt
      /\ c.m0 = cache.m0 /\ c.m1 = pass.snap \ cache.m0 /\ c.boundary = b
  BY <1>1, <1>3 DEF Refreshed, Cache
<1>6. History(c) = pass.snap
  BY <1>2, <1>5 DEF History, Segment
<1>7. b = End(pass.snap)
  <2>1. CASE pass.snap = {}
    <3>1. History(cache) = {}
      BY <1>1, <2>1
    <3> QED BY <1>1, <2>1, <3>1
  <2> QED BY <2>1
<1>8. End(c.m1) <= End(pass.snap)
  BY <1>1, <1>5, EndGrows
<1> HIDE DEF c, b
<1>9. c \in Cache /\ c.there /\ c.muts = muts /\ c.prompt = cache.prompt
      /\ Segment(c.m0, comps) /\ Segment(History(c), comps)
      /\ c.boundary = End(History(c)) /\ End(c.m1) <= End(History(c))
      /\ History(cache) \subseteq History(c) /\ History(c) = pass.snap
  BY <1>1, <1>4, <1>5, <1>6, <1>7, <1>8
<1> QED BY <1>9 DEF c

(* What was frozen is all there is unless something was published since.   *)
LEMMA FrozenIsAll ==
  ASSUME CtxInv, ~Stale
  PROVE  pass.frozen = comps
<1>1. comps \in SUBSET Ordinal /\ pass.frozen \in SUBSET comps
  BY DEF CtxInv, ContextTypeOK, RenderInv, Segment
<1>2. IsFiniteSet(comps)
  BY <1>1, OrdinalsFinite
<1> QED BY <1>1, <1>2, FS_Subset DEF Stale
-----------------------------------------------------------------------------
(* Steps keep the invariant.                                               *)

LEMMA EndsAreNumbers ==
  ASSUME ContextTypeOK
  PROVE  /\ cut \in Nat /\ unbuilt \in Nat /\ pass.early \in Nat /\ pending \in Nat
         /\ End(comps) \in Nat /\ End(History(cache)) \in Nat /\ End(Known) \in Nat
         /\ End(History(sent)) \in Nat /\ End(History(pass.view)) \in Nat
         /\ sent.from - 1 \in Int /\ pass.view.from - 1 \in Int
<1>1. /\ comps \in SUBSET Ordinal /\ History(cache) \in SUBSET Ordinal
      /\ History(sent) \in SUBSET Ordinal /\ History(pass.view) \in SUBSET Ordinal
  BY DEF ContextTypeOK, Cache, View, Pass, History
<1>2. /\ cut \in Ordinal /\ unbuilt \in Ordinal /\ pass.early \in Ordinal /\ pending \in Ordinal
      /\ sent.from \in 1 .. MaxMessage + 1 /\ pass.view.from \in 1 .. MaxMessage + 1
  BY DEF ContextTypeOK, Pass, View
<1>3. \A S \in SUBSET Ordinal : End(S) \in Nat
  BY EndOf, Bounds
<1> QED BY <1>1, <1>2, <1>3, Bounds DEF Known

(* Steps that leave the pass and what it works on alone.                   *)
LEMMA KeptAside ==
  ASSUME CtxInv, ContextTypeOK',
         UNCHANGED <<cut, comps, muts, cache, pass, unbuilt>>,
         sent' \in {sent, NoView},
         due' = TRUE \/ UNCHANGED <<prompt, answered, due>>
  PROVE  CtxInv'
<1>1. CacheInv' /\ CutInv' /\ StageInv' /\ RenderInv' /\ ShownInv' /\ MarkerInv'
  BY DEF CtxInv, CacheInv, CutInv, Known, StageInv, RenderInv, ShownInv, MarkerInv
<1>2. DueInv'
  BY DEF CtxInv, DueInv
<1>3. WholeContext'
  BY DEF CtxInv, WholeContext, NoView
<1> QED BY <1>1, <1>2, <1>3 DEF CtxInv

(* Publications.                                                           *)
LEMMA KeptPublished ==
  ASSUME CtxInv, ContextTypeOK', Published,
         UNCHANGED <<prompt, cut, pass, sent, due, unbuilt>>
  PROVE  CtxInv'
<1>1. PICK e \in End(comps) + 1 .. MaxMessage - 1 : comps' = comps \cup {e}
  BY DEF Published
<1>2. UNCHANGED <<muts, cache, answered>>
  BY DEF Published
<1>3. comps \in SUBSET Ordinal
  BY DEF CtxInv, ContextTypeOK
<1>4. \A S : Segment(S, comps) => Segment(S, comps')
  BY <1>1, <1>3, SegmentKept
<1>5. End(comps') = e /\ End(comps) < e
  <2>1. Segment({}, comps)
    BY SegmentOfAll
  <2> QED BY <1>1, <1>3, <2>1, SegmentKept
<1>6. CacheInv'
  BY <1>2, <1>4 DEF CtxInv, CacheInv
<1>7. CutInv'
  <2>1. End(Known) \in Nat /\ End(Known') \in Nat /\ unbuilt \in Nat /\ cut \in Int
    <3>1. Known' \in SUBSET Ordinal
      BY DEF ContextTypeOK, Known, Cache, History
    <3>2. End(Known') \in Nat
      BY <3>1, EndOf, Bounds
    <3> QED BY <3>2, EndsAreNumbers DEF CtxInv
  <2>2. End(Known) <= End(Known')
    BY <1>2, <1>5, <2>1 DEF Known
  <2> QED
    BY <2>1, <2>2, WithinGreater DEF CtxInv, CutInv
<1>8. RenderInv' /\ StageInv' /\ DueInv' /\ ShownInv' /\ WholeContext'
  BY <1>2, <1>4 DEF CtxInv, RenderInv, StageInv, DueInv, ShownInv, WholeContext
<1>9. MarkerInv'
  <2>1. pass.marker \in Nat /\ End(comps) \in Nat /\ e \in Nat
    <3>1. End(comps) \in Nat
      BY EndsAreNumbers DEF CtxInv
    <3> QED BY <3>1, Bounds DEF CtxInv, ContextTypeOK, Pass
  <2> QED BY <1>1, <1>5, <2>1 DEF CtxInv, MarkerInv
<1> QED BY <1>6, <1>7, <1>8, <1>9 DEF CtxInv

(* A recomp clears the pair and may leave less history than there was.     *)
LEMMA KeptPromoted ==
  ASSUME CtxInv, ContextTypeOK', RecompPromotes
  PROVE  CtxInv'
<1>1. /\ pass = NoPass /\ ~cache'.there /\ due'
      /\ UNCHANGED <<cut, pass, sent>>
      /\ unbuilt' = (IF End(comps') < End(comps) THEN Max({unbuilt, End(comps)}) ELSE unbuilt)
  BY DEF CtxInv, StageInv, RecompPromotes, Idle, session, NoCache
<1>2. /\ pass.at = "idle" /\ ~pass.drift /\ pass.snap = {} /\ pass.frozen = {} /\ pass.early = 0
      /\ ~pass.view.injected
  BY <1>1 DEF NoPass, NoView
<1>3. /\ End(Known) \in Nat /\ End(comps) \in Nat /\ unbuilt \in Nat /\ cut \in Int
      /\ End(History(sent)) \in Nat /\ sent.from - 1 \in Int
  BY EndsAreNumbers DEF CtxInv
<1>4. End(comps') \in Nat /\ unbuilt' \in Nat
  <2>1. comps' \in SUBSET Ordinal /\ unbuilt' \in Ordinal
    BY DEF ContextTypeOK
  <2> QED BY <2>1, EndOf, Bounds
<1>5. End(Known) <= End(comps)
  <2>1. comps \in SUBSET Ordinal /\ Known \in SUBSET comps
    BY DEF CtxInv, ContextTypeOK, CacheInv, Segment, Known
  <2> QED BY <2>1, EndGrows
<1>6. unbuilt <= unbuilt' /\ (End(comps) <= unbuilt' \/ End(comps) <= End(comps'))
  <2>1. Max({unbuilt, End(comps)}) >= unbuilt /\ Max({unbuilt, End(comps)}) >= End(comps)
    BY <1>3, GreaterOfTwo
  <2> QED BY <1>1, <1>3, <1>4, <2>1
<1>7. CutInv'
  <2>1. cut <= unbuilt \/ cut <= End(Known)
    BY <1>3, WithinGreater DEF CtxInv, CutInv
  <2>2. cut <= unbuilt' \/ cut <= End(comps')
    BY <1>3, <1>4, <1>5, <1>6, <2>1
  <2>3. cut' = cut /\ Known' = comps'
    BY <1>1 DEF Known
  <2> QED BY <1>3, <1>4, <2>2, <2>3, WithinGreater DEF CutInv
<1>8. WholeContext'
  <2>1. sent.injected => sent.from - 1 <= End(History(sent)) \/ sent.from - 1 <= unbuilt
    BY <1>3, WithinGreater DEF CtxInv, WholeContext
  <2>2. sent.injected => sent.from - 1 <= End(History(sent)) \/ sent.from - 1 <= unbuilt'
    BY <1>3, <1>4, <1>6, <2>1
  <2> QED BY <1>1, <1>3, <1>4, <2>2, WithinGreater DEF WholeContext
<1>9. CacheInv' /\ DueInv' /\ StageInv' /\ ShownInv' /\ MarkerInv'
  BY <1>1, <1>2 DEF CacheInv, DueInv, StageInv, ShownInv, MarkerInv
<1>10. RenderInv'
  <2>1. \A T : Segment({}, T)
    BY SegmentOfAll
  <2> QED BY <1>1, <1>2, <2>1 DEF RenderInv
<1> QED BY <1>7, <1>8, <1>9, <1>10 DEF CtxInv

(* The return of a pass, or its end otherwise.                             *)
LEMMA KeptFinished ==
  ASSUME CtxInv, ContextTypeOK',
         UNCHANGED <<prompt, cut, comps, muts, cache, answered, due, unbuilt>>,
         pass' = NoPass,
         sent' \in {sent, NoView, pass.view}
  PROVE  CtxInv'
<1>1. /\ pass'.at = "idle" /\ ~pass'.drift /\ pass'.snap = {} /\ pass'.frozen = {}
      /\ pass'.early = 0 /\ ~pass'.view.injected
  BY DEF NoPass, NoView
<1>2. CacheInv' /\ CutInv' /\ DueInv'
  BY DEF CtxInv, CacheInv, CutInv, Known, DueInv
<1>3. StageInv' /\ ShownInv' /\ MarkerInv'
  BY <1>1 DEF StageInv, ShownInv, MarkerInv
<1>4. RenderInv'
  <2>1. End(History(cache)) >= 0
    BY EndsAreNumbers DEF CtxInv
  <2>2. \A T : Segment({}, T)
    BY SegmentOfAll
  <2> QED BY <1>1, <2>1, <2>2 DEF RenderInv
<1>5. WholeContext'
  BY DEF CtxInv, WholeContext, ShownInv, NoView
<1> QED BY <1>2, <1>3, <1>4, <1>5 DEF CtxInv

(* Steps of the pass that inject nothing and store nothing.                *)
LEMMA KeptMoved ==
  ASSUME CtxInv, ContextTypeOK',
         UNCHANGED <<prompt, cut, comps, muts, cache, answered, due, unbuilt>>,
         sent' \in {sent, NoView},
         ~pass'.view.injected, pass'.at \notin {"idle", "clear"},
         pass'.at \in {"refresh", "replay"} \/ pass'.drift => cache.there,
         pass'.at = "fresh" => ~cache.there,
         RenderInv'
  PROVE  CtxInv'
<1>1. CacheInv' /\ CutInv' /\ DueInv'
  BY DEF CtxInv, CacheInv, CutInv, Known, DueInv
<1>2. StageInv' /\ ShownInv' /\ MarkerInv'
  BY DEF StageInv, ShownInv, MarkerInv
<1>3. WholeContext'
  BY DEF CtxInv, WholeContext, NoView
<1> QED BY <1>1, <1>2, <1>3 DEF CtxInv

LEMMA KeptBegun ==
  ASSUME CtxInv, NEW emergency \in BOOLEAN, Begin(emergency)
  PROVE  CtxInv'
<1>1. /\ ContextTypeOK'
      /\ pass' = [NoPass EXCEPT !.at = "begun", !.waits = emergency /\ historian,
                                !.early = EarlyTrim]
  BY BeginDoes DEF CtxInv
<1>2. UNCHANGED <<prompt, cut, comps, muts, cache, answered, due, unbuilt, sent>>
  BY DEF Begin, session, past
<1> DEFINE t == EarlyTrim
           w == emergency /\ historian
<1>3. t <= (IF cache.there THEN End(History(cache)) ELSE 0)
  <2>1. End(History(cache)) \in Nat
    BY EndsAreNumbers DEF CtxInv
  <2> QED BY <2>1 DEF CtxInv, CacheInv, EarlyTrim
<1>4. pass' = [NoPass EXCEPT !.at = "begun", !.waits = w, !.early = t]
  BY <1>1
<1> HIDE DEF t, w
<1>5. /\ pass'.at = "begun" /\ pass'.early = t /\ ~pass'.drift /\ pass'.snap = {}
      /\ pass'.frozen = {} /\ ~pass'.view.injected
  BY <1>4, Blank DEF NoPass, NoView
<1>6. RenderInv'
  <2>1. \A T : Segment({}, T)
    BY SegmentOfAll
  <2> QED BY <1>2, <1>3, <1>5, <2>1 DEF RenderInv
<1> QED BY <1>1, <1>2, <1>5, <1>6, KeptMoved

LEMMA KeptDecided ==
  ASSUME CtxInv, NEW now \in Situation,
         NEW fails \in Failure, Decide(now, fails)
  PROVE  CtxInv'
<1>1. /\ ContextTypeOK'
      /\ pass'.at = (IF MustFold(now.expired) THEN "fold"
                     ELSE IF pass'.at = "refresh" THEN "refresh" ELSE "replay")
      /\ pass'.early = pass.early /\ pass'.snap = comps /\ pass'.frozen = {}
      /\ pass'.drift = FALSE /\ pass'.view.injected = FALSE
      /\ sent' \in {sent, NoView}
      /\ UNCHANGED <<prompt, cut, comps, muts, cache, pending, answered, due, unbuilt>>
  BY DecideDoes DEF CtxInv
<1>2. pass'.at \in {"refresh", "replay"} => cache.there
  BY <1>1 DEF MustFold
<1>3. RenderInv'
  <2>1. Segment(comps, comps) /\ Segment({}, comps)
    BY SegmentOfAll
  <2>2. cache.there => History(cache) \subseteq comps
    BY DEF CtxInv, CacheInv, Segment
  <2> QED BY <1>1, <1>2, <2>1, <2>2 DEF CtxInv, RenderInv
<1>4. pass'.at \notin {"idle", "clear", "fresh"}
  BY <1>1
<1> QED BY <1>1, <1>2, <1>3, <1>4, KeptMoved

LEMMA KeptMovedOn ==
  ASSUME CtxInv,
         Freeze \/ RetryFold \/ InjectionFails \/ (Contention /\ pass'.at = "fresh")
  PROVE  CtxInv'
<1>1. ~pass.view.injected
  BY DEF CtxInv, StageInv, Freeze, RetryFold, InjectionFails, Contention
<1>2. Segment(comps, comps) /\ End(History(cache)) \in Nat
  BY SegmentOfAll, EndsAreNumbers DEF CtxInv
<1>3. CASE Freeze \/ RetryFold \/ InjectionFails
  <2>1. /\ ContextTypeOK'
        /\ UNCHANGED <<prompt, cut, comps, muts, cache, pending, answered, sent, due, unbuilt>>
        /\ pass'.early = pass.early /\ pass'.snap = pass.snap /\ pass'.drift = pass.drift
        /\ pass'.view.injected = pass.view.injected
        /\ pass'.at \in {"frozen", "fold", "drain"}
        /\ pass'.frozen \in {comps, pass.frozen} /\ pass'.coverage \in {pass.coverage, 0}
    BY <1>3, MovesOn DEF CtxInv
  <2>2. RenderInv'
    BY <1>2, <2>1 DEF CtxInv, RenderInv
  <2>3. pass.drift => cache.there
    BY DEF CtxInv, StageInv
  <2> QED BY <1>1, <2>1, <2>2, <2>3, KeptMoved
<1>4. CASE Contention /\ pass'.at = "fresh"
  <2>1. /\ ContextTypeOK'
        /\ UNCHANGED <<prompt, cut, comps, muts, cache, pending, answered, sent, due, unbuilt>>
        /\ pass' = [pass EXCEPT !.at = "fresh", !.frozen = comps] /\ ~cache.there
    BY <1>4, FreshDoes DEF CtxInv
  <2>2. pass \in Pass
    BY DEF CtxInv, ContextTypeOK
  <2>3. /\ pass'.early = pass.early /\ pass'.snap = pass.snap /\ pass'.drift = pass.drift
        /\ pass'.view = pass.view /\ pass'.frozen = comps /\ pass'.coverage = pass.coverage
    BY <2>1, <2>2 DEF Pass
  <2>4. RenderInv'
    BY <1>2, <1>4, <2>1, <2>3 DEF CtxInv, RenderInv
  <2>5. pass.drift => cache.there
    BY DEF CtxInv, StageInv
  <2> QED BY <1>1, <1>4, <2>1, <2>3, <2>4, <2>5, KeptMoved
<1> QED BY <1>3, <1>4

(* An injected pair shows the history at least as far as it was known, and *)
(* what is stored is as coherent as before.                                *)
LEMMA InjectedIs ==
  ASSUME CtxInv, ContextTypeOK', NEW c \in Cache, NEW fallback \in BOOLEAN,
         NEW coverage \in Ordinal, Injected(c, fallback, coverage),
         UNCHANGED <<prompt, comps, muts>>
  PROVE  /\ CacheInv' /\ DueInv'
         /\ cache.there => cache'.there /\ End(History(cache)) <= End(History(cache'))
         /\ End(Known) <= End(Known') /\ End(Known) <= End(History(c))
         /\ BoundaryOf(c) <= End(History(c))
         /\ ~fallback => cache'.there /\ c = cache' /\ coverage <= End(History(cache'))
<1>1. /\ comps \in SUBSET Ordinal /\ History(c) \in SUBSET Ordinal
      /\ History(cache) \in SUBSET Ordinal
  BY DEF CtxInv, ContextTypeOK, Cache, History
<1>2. /\ End(comps) \in Nat /\ End(History(c)) \in Nat /\ End(History(cache)) \in Nat
      /\ End(Known) \in Nat
  BY <1>1, EndOf, Bounds DEF Known
<1>3. cache.there => BoundaryOf(cache) <= End(History(cache))
  BY <1>2 DEF CtxInv, CacheInv, BoundaryOf
<1>4. End(Known) <= End(comps)
  <2>1. Known \in SUBSET comps
    BY <1>1 DEF Known, CtxInv, CacheInv, Segment
  <2> QED BY <1>1, <2>1, EndGrows
<1>5. ASSUME UNCHANGED <<cache, answered, due>>
      PROVE  CacheInv' /\ DueInv' /\ Known' = Known
  BY <1>5 DEF CtxInv, CacheInv, DueInv, Known
<1>6. ASSUME cache.there, c = cache, UNCHANGED <<cache, answered, due>>,
             coverage <= End(History(cache))
      PROVE  /\ CacheInv' /\ DueInv'
             /\ cache.there => cache'.there /\ End(History(cache)) <= End(History(cache'))
             /\ End(Known) <= End(Known') /\ End(Known) <= End(History(c))
             /\ BoundaryOf(c) <= End(History(c))
             /\ ~fallback => cache'.there /\ c = cache' /\ coverage <= End(History(cache'))
  <2>1. Known = History(cache)
    BY <1>6 DEF Known
  <2> QED BY <1>2, <1>3, <1>5, <1>6, <2>1
<1>7. CASE c = cache /\ ~fallback /\ coverage = 0 /\ pass.at = "replay"
           /\ UNCHANGED <<cache, answered, due>>
  <2>1. cache.there /\ coverage <= End(History(cache))
    BY <1>2, <1>7 DEF CtxInv, StageInv
  <2> QED BY <1>6, <1>7, <2>1
<1>8. CASE /\ c = Rendered(pass.frozen, comps) /\ ~fallback /\ coverage = 0
           /\ pass.at = "frozen" /\ ~Stale
           /\ cache' = c /\ answered' = FALSE /\ due' = FALSE
  <2>1. pass.frozen = comps /\ Segment(comps, comps)
    BY <1>8, FrozenIsAll, SegmentOfAll
  <2>2. /\ c.there /\ c.m0 = comps /\ History(c) = comps /\ c.muts = muts
        /\ c.prompt = prompt /\ c.boundary = End(comps) /\ BoundaryOf(c) <= End(comps)
    BY <1>8, <2>1, RenderedIs DEF CtxInv
  <2>3. CacheInv' /\ DueInv' /\ Known' = comps
    BY <1>8, <2>1, <2>2 DEF CacheInv, DueInv, Known
  <2>4. cache.there => History(cache) = Known
    BY DEF Known
  <2> QED BY <1>2, <1>4, <1>8, <2>2, <2>3, <2>4
<1>9. CASE c = cache /\ ~fallback /\ coverage = pass.coverage /\ pass.drift
           /\ UNCHANGED <<cache, answered, due>>
  <2>1. cache.there /\ coverage <= End(History(cache))
    BY <1>9 DEF CtxInv, StageInv, RenderInv
  <2> QED BY <1>6, <1>9, <2>1
<1>10. CASE c = cache /\ fallback /\ coverage = 0 /\ cache.there
            /\ UNCHANGED <<cache, answered, due>>
  <2>1. coverage <= End(History(cache))
    BY <1>2, <1>10
  <2> QED BY <1>6, <1>10, <2>1
<1>11. CASE c = Rendered(pass.frozen, comps) /\ fallback /\ coverage = 0 /\ pass.at = "fresh"
            /\ UNCHANGED <<cache, answered, due>>
  <2>1. Segment(pass.frozen, comps) /\ ~cache.there
    BY <1>11 DEF CtxInv, RenderInv, StageInv
  <2>2. History(c) = comps /\ BoundaryOf(c) <= End(comps)
    BY <1>11, <2>1, RenderedIs DEF CtxInv
  <2> QED BY <1>2, <1>4, <1>5, <1>11, <2>1, <2>2
<1>12. CASE /\ c = Refreshed(cache, pass.snap) /\ ~fallback
            /\ coverage = (IF c.m1 = {} THEN 0 ELSE End(c.m1)) /\ pass.at = "refresh"
            /\ cache' = c /\ UNCHANGED <<answered, due>>
  <2>1. /\ c.there /\ c.muts = muts /\ c.prompt = cache.prompt
        /\ Segment(c.m0, comps) /\ Segment(History(c), comps)
        /\ c.boundary = End(History(c)) /\ End(c.m1) <= End(History(c))
        /\ History(cache) \subseteq History(c)
    BY <1>12, RefreshedIs
  <2>2. cache.there /\ Known = History(cache)
    BY <1>12 DEF CtxInv, StageInv, Known
  <2>3. End(History(cache)) <= End(History(c))
    BY <1>1, <2>1, EndGrows
  <2>4. CacheInv' /\ DueInv' /\ Known' = History(c)
    BY <1>12, <2>1 DEF CtxInv, CacheInv, DueInv, Known
  <2>5. BoundaryOf(c) <= End(History(c))
    BY <1>2, <2>1 DEF BoundaryOf
  <2>6. coverage <= End(History(c))
    BY <1>2, <1>12, <2>1
  <2> QED BY <1>2, <1>12, <2>1, <2>2, <2>3, <2>4, <2>5, <2>6
<1> QED BY <1>7, <1>8, <1>9, <1>10, <1>11, <1>12 DEF Injected

LEMMA KeptInjected ==
  ASSUME CtxInv,
         \/ Replay \/ Persist \/ RenderFresh \/ SoftRefresh(FALSE)
         \/ Contention /\ pass'.at # "fresh"
  PROVE  CtxInv'
<1>1. ContextTypeOK' /\ UNCHANGED <<prompt, cut, comps, muts, pending, sent, unbuilt>>
  BY InjectionDoes DEF CtxInv
<1>2. PICK c \in Cache, fallback \in BOOLEAN, coverage \in Ordinal :
        Injects(pass, c, fallback, coverage) /\ Injected(c, fallback, coverage)
  BY InjectionDoes DEF CtxInv
<1>3. /\ CacheInv' /\ DueInv'
      /\ cache.there => cache'.there /\ End(History(cache)) <= End(History(cache'))
      /\ End(Known) <= End(Known') /\ End(Known) <= End(History(c))
      /\ BoundaryOf(c) <= End(History(c))
      /\ ~fallback => cache'.there /\ c = cache' /\ coverage <= End(History(cache'))
  BY <1>1, <1>2, InjectedIs
<1>4. /\ pass'.at = "drain" /\ pass'.view = Shown(pass, c, fallback)
      /\ pass'.coverage = coverage /\ pass'.boundary = BoundaryOf(c)
      /\ pass'.snap = pass.snap /\ pass'.frozen = {} /\ pass'.drift = FALSE
      /\ pass'.early = pass.early
  BY <1>2, InjectsDoes DEF CtxInv
<1>5. /\ pass'.view.fallback = fallback
      /\ pass'.view.m0 = c.m0 /\ pass'.view.m1 = c.m1
      /\ pass'.view.from = Max({cut, pass.early, BoundaryOf(c)}) + 1
  BY <1>4, ShownIs DEF CtxInv
<1>6. /\ cut \in Nat /\ unbuilt \in Nat /\ pass.early \in Nat /\ BoundaryOf(c) \in Nat
      /\ End(Known) \in Nat /\ End(History(cache)) \in Nat
      /\ End(Known') \in Nat /\ End(History(c)) \in Nat /\ End(History(cache')) \in Nat
  <2>1. Known' \in SUBSET Ordinal /\ History(c) \in SUBSET Ordinal
        /\ History(cache') \in SUBSET Ordinal
    BY <1>1 DEF ContextTypeOK, Cache, History, Known
  <2> QED BY <2>1, EndsAreNumbers, EndOf, BoundaryTyped, Bounds DEF CtxInv
<1>7. cut <= unbuilt \/ cut <= End(Known)
  BY <1>6, WithinGreater DEF CtxInv, CutInv
<1>8. pass.early <= (IF cache.there THEN End(History(cache)) ELSE 0)
  BY DEF CtxInv, RenderInv
<1>9. CutInv'
  <2>1. cut' <= unbuilt' \/ cut' <= End(Known')
    BY <1>1, <1>3, <1>6, <1>7
  <2> QED BY <1>1, <1>6, <2>1, WithinGreater DEF CutInv
<1>10. RenderInv'
  <2>1. Segment({}, comps) /\ Segment(pass.snap, comps)
    BY SegmentOfAll DEF CtxInv, RenderInv
  <2>2. pass'.early <= (IF cache'.there THEN End(History(cache')) ELSE 0)
    BY <1>3, <1>4, <1>6, <1>8
  <2> QED BY <1>1, <1>4, <2>1, <2>2 DEF RenderInv
<1>11. ShownInv'
  <2>1. pass'.view.from - 1 <= Max({End(History(c)), unbuilt})
    <3> DEFINE n == Max({cut, pass.early, BoundaryOf(c)})
    <3>1. n \in {cut, pass.early, BoundaryOf(c)}
      BY <1>6, GreaterOfThree
    <3>2. pass.early <= End(History(c))
      <4>1. cache.there => Known = History(cache)
        BY DEF Known
      <4> QED BY <1>3, <1>6, <1>8, <4>1
    <3> HIDE DEF n
    <3>3. n \in Nat /\ (n <= End(History(c)) \/ n <= unbuilt)
      BY <1>3, <1>6, <1>7, <3>1, <3>2
    <3>4. n <= Max({End(History(c)), unbuilt})
      BY <1>6, <3>3, WithinGreater
    <3>5. pass'.view.from - 1 = n
      BY <1>5, <3>3 DEF n
    <3> QED BY <3>4, <3>5
  <2>2. History(pass'.view) = History(c)
    BY <1>5 DEF History
  <2>3. ~fallback => /\ cache'.there
                     /\ History(pass'.view) = History(cache')
                     /\ pass'.boundary <= End(History(cache'))
                     /\ pass'.coverage <= End(History(cache'))
    BY <1>3, <1>4, <2>2
  <2> QED BY <1>1, <1>5, <2>1, <2>2, <2>3 DEF ShownInv
<1>12. StageInv' /\ MarkerInv'
  BY <1>4 DEF StageInv, MarkerInv
<1>13. WholeContext'
  BY <1>1 DEF CtxInv, WholeContext
<1> QED BY <1>1, <1>3, <1>9, <1>10, <1>11, <1>12, <1>13 DEF CtxInv

LEMMA KeptDrifted ==
  ASSUME CtxInv, SoftRefresh(TRUE)
  PROVE  CtxInv'
<1>1. /\ ContextTypeOK'
      /\ UNCHANGED <<prompt, cut, comps, muts, pending, answered, sent, due, unbuilt>>
      /\ pass.at = "refresh" /\ cache' = Refreshed(cache, pass.snap)
      /\ pass'.at = "fold" /\ pass'.drift /\ pass'.coverage = End(cache'.m1)
      /\ pass'.view = pass.view /\ pass'.early = pass.early
      /\ pass'.snap = pass.snap /\ pass'.frozen = pass.frozen
  BY DriftDoes DEF CtxInv
<1>2. /\ cache'.there /\ cache'.muts = muts /\ cache'.prompt = cache.prompt
      /\ Segment(cache'.m0, comps) /\ Segment(History(cache'), comps)
      /\ cache'.boundary = End(History(cache')) /\ End(cache'.m1) <= End(History(cache'))
      /\ History(cache) \subseteq History(cache')
  BY <1>1, RefreshedIs
<1>3. cache.there /\ ~pass.view.injected
  BY <1>1 DEF CtxInv, StageInv
<1>4. History(cache') \in SUBSET Ordinal
  BY <1>1 DEF ContextTypeOK, Cache, History
<1>5. End(History(cache)) <= End(History(cache'))
  BY <1>2, <1>4, EndGrows
<1>6. /\ cut \in Nat /\ unbuilt \in Nat /\ pass.early \in Nat
      /\ End(History(cache)) \in Nat /\ End(History(cache')) \in Nat
  BY <1>4, EndsAreNumbers, EndOf, Bounds DEF CtxInv
<1>7. CacheInv' /\ DueInv' /\ StageInv' /\ ShownInv' /\ MarkerInv'
  BY <1>1, <1>2, <1>3
     DEF CtxInv, CacheInv, DueInv, StageInv, ShownInv, MarkerInv
<1>8. CutInv'
  <2>1. Known = History(cache) /\ Known' = History(cache')
    BY <1>2, <1>3 DEF Known
  <2>2. cut <= unbuilt \/ cut <= End(History(cache))
    BY <1>6, <2>1, WithinGreater DEF CtxInv, CutInv
  <2>3. cut <= unbuilt \/ cut <= End(History(cache'))
    BY <1>5, <1>6, <2>2
  <2> QED BY <1>1, <1>6, <2>1, <2>3, WithinGreater DEF CutInv
<1>9. RenderInv'
  <2>1. pass.early <= End(History(cache'))
    BY <1>3, <1>5, <1>6 DEF CtxInv, RenderInv
  <2> QED BY <1>1, <1>2, <2>1 DEF CtxInv, RenderInv
<1>10. WholeContext'
  BY <1>1 DEF CtxInv, WholeContext
<1> QED BY <1>1, <1>7, <1>8, <1>9, <1>10 DEF CtxInv

(* The marker a pass may apply is of history it shows.                     *)
LEMMA CoveredIsShown ==
  ASSUME CtxInv, pass.view.injected, ~pass.view.fallback, Covered(pass)
  PROVE  /\ cache.there /\ History(pass.view) = History(cache)
         /\ pending <= End(History(cache)) /\ pending <= End(comps)
<1>1. /\ cache.there /\ History(pass.view) = History(cache)
      /\ pass.boundary <= End(History(cache)) /\ pass.coverage <= End(History(cache))
      /\ History(cache) \in SUBSET comps /\ comps \in SUBSET Ordinal
  BY DEF CtxInv, ShownInv, CacheInv, Segment, ContextTypeOK
<1>2. /\ pending \in Nat /\ pass.boundary \in Nat /\ pass.coverage \in Nat
      /\ End(History(cache)) \in Nat /\ End(comps) \in Nat
  BY EndsAreNumbers, Bounds DEF CtxInv, ContextTypeOK, Pass
<1>3. End(History(cache)) <= End(comps)
  BY <1>1, EndGrows
<1>4. pending <= End(History(cache))
  BY <1>1, <1>2 DEF Covered
<1> QED BY <1>1, <1>2, <1>3, <1>4

LEMMA KeptApplied ==
  ASSUME CtxInv, ApplyMarker
  PROVE  CtxInv'
<1>1. /\ ContextTypeOK'
      /\ UNCHANGED <<prompt, comps, muts, cache, pending, answered, sent, due, unbuilt>>
      /\ pass' = [pass EXCEPT !.at = "clear", !.marker = pending]
      /\ cut' = (IF pending \in comps THEN Max({cut, pending}) ELSE cut)
      /\ pass.view.injected /\ ~pass.view.fallback /\ Covered(pass)
  BY ApplyDoes DEF CtxInv
<1>2. /\ cache.there /\ pending <= End(History(cache)) /\ pending <= End(comps)
  BY <1>1, CoveredIsShown
<1>3. pass \in Pass
  BY DEF CtxInv, ContextTypeOK
<1>4. /\ pass'.at = "clear" /\ pass'.marker = pending /\ pass'.view = pass.view
      /\ pass'.early = pass.early /\ pass'.snap = pass.snap /\ pass'.frozen = pass.frozen
      /\ pass'.drift = pass.drift /\ pass'.coverage = pass.coverage
      /\ pass'.boundary = pass.boundary
  BY <1>1, <1>3 DEF Pass
<1>5. cut \in Nat /\ pending \in Nat /\ unbuilt \in Nat /\ End(History(cache)) \in Nat
  BY EndsAreNumbers DEF CtxInv
<1>6. Known = History(cache) /\ Known' = Known
  BY <1>1, <1>2 DEF Known
<1>7. cut <= unbuilt \/ cut <= End(History(cache))
  BY <1>5, <1>6, WithinGreater DEF CtxInv, CutInv
<1>8. cut' \in {cut, pending} /\ (pending <= cut' \/ pending \notin comps)
  BY <1>1, <1>5, GreaterOfTwo
<1>9. CutInv'
  <2>1. cut' \in Nat /\ (cut' <= unbuilt \/ cut' <= End(History(cache)))
    BY <1>2, <1>5, <1>7, <1>8
  <2> QED BY <1>1, <1>5, <1>6, <2>1, WithinGreater DEF CutInv
<1>10. MarkerInv'
  BY <1>1, <1>2, <1>4, <1>8 DEF MarkerInv
<1>11. CacheInv' /\ DueInv' /\ RenderInv' /\ WholeContext'
  BY <1>1, <1>4 DEF CtxInv, CacheInv, DueInv, RenderInv, WholeContext
<1>12. StageInv' /\ ShownInv'
  BY <1>1, <1>2, <1>4 DEF CtxInv, StageInv, ShownInv
<1> QED BY <1>1, <1>9, <1>10, <1>11, <1>12 DEF CtxInv

LEMMA InvKept ==
  ASSUME CtxInv, [Next]_vars
  PROVE  CtxInv'
<1>1. ContextTypeOK'
  BY TypesKept DEF CtxInv
<1>2. CASE UNCHANGED vars
  <2>1. UNCHANGED <<prompt, cut, comps, muts, cache, pass, unbuilt, answered, due, sent>>
    BY <1>2 DEF vars, session, database, past
  <2> QED BY <1>1, <2>1, KeptAside
<1>3. CASE Turn \/ SwitchModel \/ Answer \/ Flush \/ HistorianEnds \/ Leave \/ RecompFinishes
  <2> USE DEF session, database, memory, past
  <2>1. due \in BOOLEAN
    BY DEF CtxInv, ContextTypeOK
  <2>2. UNCHANGED <<cut, comps, muts, cache, pass, unbuilt>>
    BY <1>3 DEF Turn, SwitchModel, Answer, Flush, HistorianEnds, Leave, RecompFinishes
  <2>3. sent' \in {sent, NoView}
    BY <1>3 DEF Turn, SwitchModel, Answer, Flush, HistorianEnds, Leave, Forgotten,
                RecompFinishes
  <2>4. due' = TRUE \/ UNCHANGED <<prompt, answered, due>>
    <3>1. CASE Turn
      <4>1. PICK changed \in BOOLEAN :
              /\ prompt' = IF changed THEN [prompt EXCEPT !.hash = @ + 1] ELSE prompt
              /\ due' = (due \/ changed)
        BY <3>1 DEF Turn
      <4>2. UNCHANGED answered
        BY <3>1 DEF Turn
      <4> QED BY <2>1, <4>1, <4>2
    <3>2. CASE SwitchModel \/ Answer
      BY <3>2 DEF SwitchModel, Answer
    <3>3. CASE Flush \/ HistorianEnds \/ Leave \/ RecompFinishes
      BY <3>3 DEF Flush, HistorianEnds, Leave, RecompFinishes
    <3> QED BY <1>3, <3>1, <3>2, <3>3
  <2> QED BY <1>1, <2>2, <2>3, <2>4, KeptAside
<1>4. CASE Publish \/ SiblingPublish
  <2>1. Published /\ UNCHANGED <<prompt, cut, pass, sent, due, unbuilt>>
    BY <1>4 DEF Publish, SiblingPublish, session, past
  <2> QED BY <1>1, <2>1, KeptPublished
<1>5. CASE RecompPromotes
  BY <1>1, <1>5, KeptPromoted
<1>6. CASE \E emergency \in BOOLEAN : Begin(emergency)
  BY <1>6, KeptBegun
<1>7. CASE \E now \in Situation, fails \in Failure :
             Decide(now, fails)
  BY <1>7, KeptDecided
<1>8. CASE Freeze \/ RetryFold \/ InjectionFails \/ (Contention /\ pass'.at = "fresh")
  BY <1>8, KeptMovedOn
<1>9. CASE Crash \/ DropsFail \/ ReturnUndrained \/ MarkerFails \/ ClearMarker
  <2>1. /\ UNCHANGED <<prompt, cut, comps, muts, cache, answered, due, unbuilt>>
        /\ pass' = NoPass
        /\ sent' \in {sent, NoView, pass.view}
    BY <1>9, Finishes DEF CtxInv
  <2> QED BY <1>1, <2>1, KeptFinished
<1>10. CASE \/ Replay \/ Persist \/ RenderFresh \/ SoftRefresh(FALSE)
            \/ Contention /\ pass'.at # "fresh"
  BY <1>10, KeptInjected
<1>11. CASE SoftRefresh(TRUE)
  BY <1>11, KeptDrifted
<1>12. CASE ApplyMarker
  BY <1>12, KeptApplied
<1>13. (\E drift \in BOOLEAN : SoftRefresh(drift)) => SoftRefresh(TRUE) \/ SoftRefresh(FALSE)
  <2>1. \A drift \in BOOLEAN : drift = TRUE \/ drift = FALSE
    OBVIOUS
  <2> QED BY <2>1
<1> QED BY <1>2, <1>3, <1>4, <1>5, <1>6, <1>7, <1>8, <1>9, <1>10, <1>11, <1>12, <1>13 DEF Next

(* The invariant holds in every state of every behaviour.                  *)
THEOREM ContextInvariant == Spec => []CtxInv
<1>1. Init => CtxInv
  BY InvHoldsFirst
<1>2. CtxInv /\ [Next]_vars => CtxInv'
  BY InvKept
<1> QED BY <1>1, <1>2, PTL DEF Spec
-----------------------------------------------------------------------------
(* The properties.                                                         *)

(* What a pass has sent accounts for every message it cut off, however     *)
(* publications, folds, native cuts and mishaps interleave.                *)
THEOREM ContextIsWhole == Spec => []WholeContext
<1>1. CtxInv => WholeContext
  BY DEF CtxInv
<1> QED BY <1>1, ContextInvariant, PTL

(* The cached pair is the history of some moment since the last recomp and *)
(* ends at its boundary.                                                   *)
THEOREM CacheIsCoherent == Spec => []CacheCoherent
<1>1. CtxInv => CacheCoherent
  BY DEF CtxInv, CacheInv, CacheCoherent, Segment
<1> QED BY <1>1, ContextInvariant, PTL

(* The native context is cut only after history the pass shows from the    *)
(* database.                                                               *)
THEOREM CutsAreShown == Spec => CutWasShown
<1>1. ASSUME CtxInv, [Next]_vars, cut' > cut
      PROVE  /\ pass.view.injected /\ ~pass.view.fallback
             /\ cut' <= End(History(pass.view))
  <2>1. cut \in Nat /\ pending \in Nat
    BY <1>1, EndsAreNumbers DEF CtxInv
  <2>2. ApplyMarker
    <3>1. cut' # cut
      BY <1>1, <2>1
    <3>2. ASSUME cut' # cut, Next PROVE ApplyMarker
      <4>1. \A emergency \in BOOLEAN : ~Begin(emergency)
        BY <3>2 DEF Begin, session
      <4>2. \A now, fails : ~Decide(now, fails)
        BY <3>2 DEF Decide, session
      <4>3. \A drift \in BOOLEAN : ~SoftRefresh(drift)
        BY <3>2 DEF SoftRefresh, session
      <4>4. ~(Turn \/ SwitchModel \/ Answer \/ Flush \/ Publish \/ HistorianEnds
              \/ SiblingPublish \/ RecompPromotes \/ RecompFinishes \/ Leave \/ Crash)
        BY <3>2 DEF Turn, SwitchModel, Answer, Flush, Publish, HistorianEnds, SiblingPublish,
                    RecompPromotes, RecompFinishes, Leave, Crash, session
      <4>5. ~(DropsFail \/ Replay \/ Freeze \/ Persist \/ RetryFold \/ Contention
              \/ RenderFresh \/ InjectionFails \/ ReturnUndrained \/ MarkerFails \/ ClearMarker)
        BY <3>2 DEF DropsFail, Replay, Freeze, Persist, RetryFold, Contention, RenderFresh,
                    InjectionFails, ReturnUndrained, MarkerFails, ClearMarker, session
      <4> QED BY <3>2, <4>1, <4>2, <4>3, <4>4, <4>5 DEF Next
    <3>3. CASE UNCHANGED vars
      BY <3>1, <3>3 DEF vars, session
    <3> QED BY <1>1, <3>1, <3>2, <3>3
  <2>3. /\ pass.view.injected /\ ~pass.view.fallback /\ Covered(pass)
        /\ cut' = (IF pending \in comps THEN Max({cut, pending}) ELSE cut)
    BY <1>1, <2>2, ApplyDoes DEF CtxInv
  <2>4. History(pass.view) = History(cache) /\ pending <= End(History(cache))
    BY <1>1, <2>3, CoveredIsShown
  <2>5. cut' = pending
    BY <1>1, <2>1, <2>3, GreaterOfTwo
  <2> QED BY <2>3, <2>4, <2>5
<1>2. CtxInv /\ [Next]_vars =>
        [cut' > cut => /\ pass.view.injected /\ ~pass.view.fallback
                       /\ cut' <= End(History(pass.view))]_vars
  BY <1>1
<1> QED BY <1>2, ContextInvariant, PTL DEF Spec, CutWasShown

(* A pending native marker goes only for a newer one, or when its cut has  *)
(* been made or its compartment is gone.                                   *)
THEOREM MarkersAreKept == Spec => MarkerNotLost
<1>1. ASSUME CtxInv, [Next]_vars, pending' # pending
      PROVE  pending' > pending \/ pending <= cut \/ pending \notin comps
  <2>1. pending \in Nat /\ comps \in SUBSET Ordinal
    BY <1>1, EndsAreNumbers DEF CtxInv, ContextTypeOK
  <2>2. /\ End(comps) \in Nat
        /\ \A e \in comps : e <= End(comps)
    BY <2>1, EndOf, Bounds
  <2>3. CASE Published
    <3>1. PICK e \in End(comps) + 1 .. MaxMessage - 1 : pending' = e
      BY <1>1, <2>3 DEF Published
    <3> QED BY <2>1, <2>2, <3>1, Bounds
  <2>4. CASE RecompFinishes
    <3>1. pending' = End(comps)
      BY <1>1, <2>4 DEF RecompFinishes
    <3> QED BY <1>1, <2>1, <2>2, <3>1
  <2>5. CASE ClearMarker
    <3>1. pass.at = "clear" /\ pending = pass.marker
      BY <1>1, <2>5 DEF ClearMarker, ClearedIf
    <3> QED BY <1>1, <3>1 DEF CtxInv, MarkerInv
  <2>6. Published \/ RecompFinishes \/ ClearMarker
    <3>1. ASSUME Next PROVE Published \/ RecompFinishes \/ ClearMarker
      <4>1. \A emergency \in BOOLEAN : ~Begin(emergency)
        BY <1>1 DEF Begin
      <4>2. \A now, fails : ~Decide(now, fails)
        BY <1>1 DEF Decide
      <4>3. \A drift \in BOOLEAN : ~SoftRefresh(drift)
        BY <1>1 DEF SoftRefresh
      <4>4. ~(Turn \/ SwitchModel \/ Answer \/ Flush \/ HistorianEnds
              \/ RecompPromotes \/ Leave \/ Crash)
        BY <1>1 DEF Turn, SwitchModel, Answer, Flush, HistorianEnds, RecompPromotes, Leave,
                    Crash, database
      <4>5. ~(DropsFail \/ Replay \/ Freeze \/ Persist \/ RetryFold \/ Contention \/ RenderFresh
              \/ InjectionFails \/ ReturnUndrained \/ ApplyMarker \/ MarkerFails)
        BY <1>1 DEF DropsFail, Replay, Freeze, Persist, RetryFold, Contention, RenderFresh,
                    InjectionFails, ReturnUndrained, ApplyMarker, MarkerFails, database
      <4>6. Publish \/ SiblingPublish => Published
        BY DEF Publish, SiblingPublish
      <4> QED BY <3>1, <4>1, <4>2, <4>3, <4>4, <4>5, <4>6 DEF Next
    <3>2. CASE UNCHANGED vars
      BY <1>1, <3>2 DEF vars, database
    <3> QED BY <1>1, <3>1, <3>2
  <2> QED BY <2>3, <2>4, <2>5, <2>6
<1>2. CtxInv /\ [Next]_vars =>
        [pending' # pending => \/ pending' > pending
                               \/ pending <= cut
                               \/ pending \notin comps]_vars
  BY <1>1
<1> QED BY <1>2, ContextInvariant, PTL DEF Spec, MarkerNotLost

(* A decision to fold the history, which breaks the provider's cache, has  *)
(* a cause no earlier fold has consumed.                                   *)
THEOREM FoldsHaveCauses == Spec => FoldsAreCaused
<1>1. ASSUME CtxInv, [Next]_vars, pass.at = "begun", pass'.at = "fold"
      PROVE  due
  <2>1. PICK now \in Situation, fails \in Failure :
          Decide(now, fails)
    <3>1. pass' # pass
      BY <1>1
    <3>2. ~(Turn \/ SwitchModel \/ Answer \/ Flush \/ Publish \/ HistorianEnds
            \/ SiblingPublish \/ RecompPromotes \/ RecompFinishes \/ Leave)
      BY <3>1 DEF Turn, SwitchModel, Answer, Flush, Publish, HistorianEnds, SiblingPublish,
                  RecompPromotes, RecompFinishes, Leave
    <3>3. ~(Crash \/ DropsFail)
      BY <1>1, Blank DEF Crash, DropsFail
    <3>4. ~(Replay \/ Freeze \/ Persist \/ RetryFold \/ Contention \/ RenderFresh
            \/ InjectionFails \/ ReturnUndrained \/ ApplyMarker \/ MarkerFails \/ ClearMarker)
      BY <1>1 DEF Replay, Freeze, Persist, RetryFold, Contention, RenderFresh, InjectionFails,
                  ReturnUndrained, ApplyMarker, MarkerFails, ClearMarker
    <3>5. \A drift \in BOOLEAN : ~SoftRefresh(drift)
      BY <1>1 DEF SoftRefresh
    <3>6. \A emergency \in BOOLEAN : ~Begin(emergency)
      BY <1>1 DEF Begin, Idle
    <3>7. ~UNCHANGED vars
      BY <3>1 DEF vars
    <3> QED BY <1>1, <3>2, <3>3, <3>4, <3>5, <3>6, <3>7 DEF Next
  <2>2. MustFold(now.expired)
    <3>1. pass'.at = (IF MustFold(now.expired) THEN "fold"
                      ELSE IF pass'.at = "refresh" THEN "refresh" ELSE "replay")
      BY <1>1, <2>1, DecideDoes DEF CtxInv
    <3> QED BY <1>1, <3>1
  <2> QED BY <1>1, <2>2 DEF CtxInv, DueInv, CacheInv, MustFold
<1>2. CtxInv /\ [Next]_vars => [pass.at = "begun" /\ pass'.at = "fold" => due]_vars
  BY <1>1
<1> QED BY <1>2, ContextInvariant, PTL DEF Spec, FoldsAreCaused
-----------------------------------------------------------------------------
(* Applied drops and drained announcements.                                *)

(* Drops are queued only for messages that the history covers, or covered; *)
(* a pass that applies them renders m[1] again, or folds, and what it then *)
(* shows from the database covers what it saw when it decided.             *)
DropsInv ==
  /\ queued <= Max({End(comps), unbuilt})
  /\ pass.eligible => pass.applied
  /\ pass.applied => pass.at # "replay" /\ pass.view.dropped <= Max({End(pass.snap), unbuilt})
  /\ pass.applied /\ (pass.drift \/ (pass.view.injected /\ ~pass.view.fallback))
       => pass.snap \subseteq History(cache)
  /\ pass.at = "clear" => pass.view.injected /\ ~pass.view.fallback /\ pass.eligible

LEMMA DropsHoldFirst == Init => DropsInv
<1> SUFFICES ASSUME Init PROVE DropsInv
  OBVIOUS
<1>1. queued = 0 /\ comps = {} /\ pass = NoPass /\ unbuilt = 0
  BY DEF Init
<1>2. ~pass.applied /\ ~pass.eligible /\ pass.at = "idle"
  BY <1>1 DEF NoPass
<1>3. 0 <= Max({0, 0})
  BY WithinGreater
<1> QED BY <1>1, <1>2, <1>3, EndOfNone DEF DropsInv

(* Steps that leave the pass and what it has rendered alone, and may queue *)
(* drops for what is published.                                            *)
LEMMA DropsKeptAside ==
  ASSUME CtxInv, DropsInv, ContextTypeOK', UNCHANGED <<pass, cache>>,
         UNCHANGED unbuilt \/ (pass = NoPass /\ unbuilt <= unbuilt'),
         queued' = queued \/ queued' <= End(comps'),
         End(comps) <= End(comps') \/ End(comps) <= unbuilt'
  PROVE  DropsInv'
<1>1. /\ queued \in Nat /\ unbuilt \in Nat /\ End(comps) \in Nat
      /\ queued' \in Nat /\ unbuilt' \in Nat /\ End(comps') \in Nat
  <2>1. /\ queued \in Ordinal /\ unbuilt \in Ordinal /\ queued' \in Ordinal
        /\ unbuilt' \in Ordinal /\ comps \in SUBSET Ordinal /\ comps' \in SUBSET Ordinal
    BY DEF CtxInv, ContextTypeOK
  <2> QED BY <2>1, EndOf, Bounds
<1>2. unbuilt <= unbuilt'
  BY <1>1
<1>3. queued <= End(comps) \/ queued <= unbuilt
  BY <1>1, WithinGreater DEF DropsInv
<1>4. queued' <= End(comps') \/ queued' <= unbuilt'
  BY <1>1, <1>2, <1>3
<1>5. queued' <= Max({End(comps'), unbuilt'})
  BY <1>1, <1>4, WithinGreater
<1>6. CASE UNCHANGED unbuilt
  BY <1>5, <1>6 DEF DropsInv
<1>7. CASE pass = NoPass
  <2>1. ~pass.applied /\ ~pass.eligible /\ pass.at = "idle"
    BY <1>7 DEF NoPass
  <2> QED BY <1>5, <2>1 DEF DropsInv
<1> QED BY <1>6, <1>7

(* Steps that move the pass and leave what is published alone.             *)
LEMMA DropsKeptMoved ==
  ASSUME DropsInv, UNCHANGED <<comps, queued, unbuilt>>,
         pass'.eligible => pass'.applied,
         pass'.applied => pass'.at # "replay"
                          /\ pass'.view.dropped <= Max({End(pass'.snap), unbuilt}),
         pass'.applied /\ (pass'.drift \/ (pass'.view.injected /\ ~pass'.view.fallback))
           => pass'.snap \subseteq History(cache'),
         pass'.at # "clear"
  PROVE  DropsInv'
BY DEF DropsInv

LEMMA DropsKeptInjected ==
  ASSUME CtxInv, DropsInv,
         \/ Replay \/ Persist \/ RenderFresh \/ SoftRefresh(FALSE)
         \/ Contention /\ pass'.at # "fresh",
         UNCHANGED queued
  PROVE  DropsInv'
<1>1. UNCHANGED <<comps, unbuilt>>
  BY InjectionDoes DEF CtxInv
<1>2. PICK c \in Cache, fallback \in BOOLEAN, coverage \in Ordinal :
        Injects(pass, c, fallback, coverage) /\ Injected(c, fallback, coverage)
  BY InjectionDoes DEF CtxInv
<1>3. /\ pass'.at = "drain" /\ pass'.view = Shown(pass, c, fallback)
      /\ pass'.snap = pass.snap /\ pass'.drift = FALSE
      /\ pass'.applied = pass.applied /\ pass'.eligible = pass.eligible
  BY <1>2, InjectsDoes DEF CtxInv
<1>4. pass'.view.fallback = fallback /\ pass'.view.dropped = pass.view.dropped
  <2> DEFINE v == Shown(pass, c, fallback)
  <2>1. v.fallback = fallback /\ v.dropped = pass.view.dropped
    BY ShownIs DEF CtxInv
  <2> HIDE DEF v
  <2> QED BY <1>3, <2>1 DEF v
<1>5. pass.applied /\ ~fallback => pass.snap \subseteq History(cache')
  <2> SUFFICES ASSUME pass.applied, ~fallback PROVE pass.snap \subseteq History(cache')
    OBVIOUS
  <2>1. pass.at # "replay" /\ pass.snap \subseteq comps
    BY DEF DropsInv, CtxInv, RenderInv, Segment
  <2>2. CASE /\ c = Rendered(pass.frozen, comps) /\ pass.at = "frozen" /\ ~Stale /\ cache' = c
    <3>1. pass.frozen = comps /\ Segment(comps, comps)
      BY <2>2, FrozenIsAll, SegmentOfAll
    <3>2. History(c) = comps
      BY <2>2, <3>1, RenderedIs DEF CtxInv
    <3> QED BY <2>1, <2>2, <3>2
  <2>3. CASE pass.drift /\ UNCHANGED cache
    BY <2>3 DEF DropsInv
  <2>4. CASE c = Refreshed(cache, pass.snap) /\ pass.at = "refresh" /\ cache' = c
    <3>1. History(c) = pass.snap
      BY <2>4, RefreshedIs
    <3> QED BY <2>4, <3>1
  <2> QED BY <1>2, <2>1, <2>2, <2>3, <2>4 DEF Injected
<1> QED BY <1>1, <1>3, <1>4, <1>5, DropsKeptMoved DEF DropsInv

LEMMA DropsKept ==
  ASSUME CtxInv, DropsInv, [Next]_vars
  PROVE  DropsInv'
<1> USE DEF session, database, memory, past
<1>1. ContextTypeOK'
  BY TypesKept DEF CtxInv
<1>2. CASE UNCHANGED vars
  BY <1>2 DEF vars, DropsInv
<1>3. CASE Turn \/ SwitchModel \/ Answer \/ Flush \/ HistorianEnds \/ Leave
  <2>1. UNCHANGED <<pass, cache, comps, queued, unbuilt>>
    BY <1>3 DEF Turn, SwitchModel, Answer, Flush, HistorianEnds, Leave
  <2> QED BY <2>1 DEF DropsInv
<1>4. CASE Publish \/ SiblingPublish
  <2>1. Published /\ UNCHANGED <<pass, unbuilt>>
    BY <1>4 DEF Publish, SiblingPublish
  <2>2. PICK e \in End(comps) + 1 .. MaxMessage - 1 :
          comps' = comps \cup {e} /\ queued' = Max({queued, e}) /\ UNCHANGED cache
    BY <2>1 DEF Published
  <2>3. comps \in SUBSET Ordinal /\ queued \in Nat /\ End(comps) \in Nat
    BY EndsAreNumbers, Bounds DEF CtxInv, ContextTypeOK
  <2>4. End(comps') = e /\ End(comps) < e
    <3>1. Segment({}, comps)
      BY SegmentOfAll
    <3> QED BY <2>2, <2>3, <3>1, SegmentKept
  <2>5. queued' \in {queued, e} /\ e \in Nat /\ End(comps) <= End(comps')
    BY <2>2, <2>3, <2>4, GreaterOfTwo
  <2>6. queued' = queued \/ queued' <= End(comps')
    BY <2>4, <2>5
  <2> QED BY <1>1, <2>1, <2>2, <2>5, <2>6, DropsKeptAside
<1>5. CASE RecompFinishes
  <2>1. UNCHANGED <<pass, cache, comps, unbuilt>> /\ queued' = Max({queued, End(comps)})
    BY <1>5 DEF RecompFinishes
  <2>2. queued \in Nat /\ End(comps) \in Nat
    BY EndsAreNumbers, Bounds DEF CtxInv, ContextTypeOK
  <2>3. queued' = queued \/ queued' <= End(comps')
    BY <2>1, <2>2, GreaterOfTwo
  <2>4. End(comps) <= End(comps')
    BY <2>1, <2>2
  <2> QED BY <1>1, <2>1, <2>3, <2>4, DropsKeptAside
<1>6. CASE RecompPromotes
  <2>1. /\ pass = NoPass /\ UNCHANGED <<pass, queued>>
        /\ unbuilt' = (IF End(comps') < End(comps) THEN Max({unbuilt, End(comps)}) ELSE unbuilt)
    BY <1>6 DEF CtxInv, StageInv, RecompPromotes, Idle
  <2>2. /\ unbuilt \in Nat /\ End(comps) \in Nat /\ End(comps') \in Nat
        /\ queued \in Nat /\ unbuilt' \in Nat
    <3>1. comps' \in SUBSET Ordinal /\ unbuilt' \in Ordinal
      BY <1>1 DEF ContextTypeOK
    <3> QED BY <3>1, EndsAreNumbers, EndOf, Bounds DEF CtxInv, ContextTypeOK
  <2>3. Max({unbuilt, End(comps)}) >= unbuilt /\ Max({unbuilt, End(comps)}) >= End(comps)
    BY <2>2, GreaterOfTwo
  <2>4. unbuilt <= unbuilt' /\ (End(comps) <= End(comps') \/ End(comps) <= unbuilt')
    BY <2>1, <2>2, <2>3
  <2>5. queued' <= End(comps') \/ queued' <= unbuilt'
    <3>1. queued <= End(comps) \/ queued <= unbuilt
      BY <2>2, WithinGreater DEF DropsInv
    <3> QED BY <2>1, <2>2, <2>4, <3>1
  <2>6. queued' <= Max({End(comps'), unbuilt'})
    BY <2>1, <2>2, <2>5, WithinGreater
  <2>7. ~pass'.applied /\ ~pass'.eligible /\ pass'.at = "idle"
    BY <2>1 DEF NoPass
  <2> QED BY <2>6, <2>7 DEF DropsInv
<1>7. CASE \/ \E emergency \in BOOLEAN : Begin(emergency)
           \/ Crash \/ DropsFail \/ ReturnUndrained \/ MarkerFails \/ ClearMarker
  <2>1. ~pass'.applied /\ ~pass'.eligible /\ pass'.at \in {"idle", "begun"}
    <3>1. NoPass \in Pass /\ ~NoPass.applied /\ ~NoPass.eligible /\ NoPass.at = "idle"
      BY Blank DEF NoPass
    <3>2. CASE \E emergency \in BOOLEAN : Begin(emergency)
      <4>1. PICK emergency \in BOOLEAN : Begin(emergency)
        BY <3>2
      <4> DEFINE w == emergency /\ historian
                 t == EarlyTrim
      <4>2. pass' = [NoPass EXCEPT !.at = "begun", !.waits = w, !.early = t]
        BY <4>1 DEF Begin
      <4> HIDE DEF w, t
      <4> QED BY <3>1, <4>2 DEF Pass
    <3>3. CASE Crash \/ DropsFail \/ ReturnUndrained \/ MarkerFails \/ ClearMarker
      BY <3>1, <3>3, Finishes DEF CtxInv
    <3> QED BY <1>7, <3>2, <3>3
  <2>2. UNCHANGED <<comps, queued, unbuilt>>
    BY <1>7 DEF Begin, Crash, DropsFail, ReturnUndrained, MarkerFails, ClearMarker
  <2> QED BY <2>1, <2>2, DropsKeptMoved
<1>8. CASE \E now \in Situation, fails \in Failure :
             Decide(now, fails)
  <2>1. /\ pass'.eligible => pass'.applied
        /\ pass'.applied => pass'.at # "replay" /\ pass'.view.dropped = queued
        /\ pass'.drift = FALSE /\ pass'.view.injected = FALSE /\ pass'.snap = comps
        /\ UNCHANGED <<comps, queued, unbuilt>>
    BY <1>8, DecideDoes DEF CtxInv
  <2>2. pass'.at # "clear"
    BY <1>8, DecideDoes DEF CtxInv
  <2>3. pass'.applied => pass'.view.dropped <= Max({End(pass'.snap), unbuilt})
    BY <2>1 DEF DropsInv
  <2> QED BY <2>1, <2>2, <2>3, DropsKeptMoved
<1>9. CASE Freeze \/ RetryFold \/ InjectionFails
  <2>1. /\ UNCHANGED <<comps, cache, unbuilt>>
        /\ pass'.snap = pass.snap /\ pass'.drift = pass.drift
        /\ pass'.view.injected = pass.view.injected
        /\ pass'.view.dropped = pass.view.dropped
        /\ pass'.applied = pass.applied /\ pass'.eligible = pass.eligible
        /\ pass'.at \in {"frozen", "fold", "drain"}
        /\ pass.at \in {"frozen", "fold", "refresh", "replay"}
    BY <1>9, MovesOn DEF CtxInv
  <2>2. UNCHANGED queued
    BY <1>9 DEF Freeze, RetryFold, InjectionFails
  <2>3. ~pass.view.injected
    BY <2>1 DEF CtxInv, StageInv
  <2> QED BY <2>1, <2>2, <2>3, DropsKeptMoved DEF DropsInv
<1>10. CASE Contention /\ pass'.at = "fresh"
  <2>1. /\ UNCHANGED <<comps, cache, unbuilt>> /\ pass.at = "frozen"
        /\ pass' = [pass EXCEPT !.at = "fresh", !.frozen = comps]
    BY <1>10, FreshDoes DEF CtxInv
  <2>2. pass \in Pass
    BY DEF CtxInv, ContextTypeOK
  <2>3. /\ pass'.snap = pass.snap /\ pass'.drift = pass.drift /\ pass'.view = pass.view
        /\ pass'.applied = pass.applied /\ pass'.eligible = pass.eligible
    BY <2>1, <2>2 DEF Pass
  <2>4. UNCHANGED queued
    BY <1>10 DEF Contention
  <2> QED BY <1>10, <2>1, <2>3, <2>4, DropsKeptMoved DEF DropsInv
<1>11. CASE \/ Replay \/ Persist \/ RenderFresh \/ SoftRefresh(FALSE)
            \/ Contention /\ pass'.at # "fresh"
  <2>1. UNCHANGED queued
    BY <1>11 DEF Replay, Persist, RenderFresh, SoftRefresh, Contention
  <2> QED BY <1>11, <2>1, DropsKeptInjected
<1>12. CASE SoftRefresh(TRUE)
  <2>1. /\ UNCHANGED <<comps, unbuilt>> /\ pass.at = "refresh"
        /\ cache' = Refreshed(cache, pass.snap) /\ pass'.at = "fold"
        /\ pass'.view = pass.view /\ pass'.snap = pass.snap
        /\ pass'.applied = pass.applied /\ pass'.eligible = pass.eligible
    BY <1>12, DriftDoes DEF CtxInv
  <2>2. History(cache') = pass.snap
    BY <2>1, RefreshedIs
  <2>3. UNCHANGED queued
    BY <1>12 DEF SoftRefresh
  <2> QED BY <2>1, <2>2, <2>3, DropsKeptMoved DEF DropsInv
<1>13. CASE ApplyMarker
  <2>1. /\ UNCHANGED <<comps, cache, unbuilt>>
        /\ pass' = [pass EXCEPT !.at = "clear", !.marker = pending]
        /\ pass.view.injected /\ ~pass.view.fallback
    BY <1>13, ApplyDoes DEF CtxInv
  <2>2. pass \in Pass
    BY DEF CtxInv, ContextTypeOK
  <2>3. /\ pass'.at = "clear" /\ pass'.view = pass.view /\ pass'.snap = pass.snap
        /\ pass'.drift = pass.drift
        /\ pass'.applied = pass.applied /\ pass'.eligible = pass.eligible
    BY <2>1, <2>2 DEF Pass
  <2>4. pass.eligible /\ UNCHANGED queued
    BY <1>13 DEF ApplyMarker, Eligible
  <2> QED BY <2>1, <2>3, <2>4 DEF DropsInv
<1>14. (\E drift \in BOOLEAN : SoftRefresh(drift)) => SoftRefresh(TRUE) \/ SoftRefresh(FALSE)
  <2>1. \A drift \in BOOLEAN : drift = TRUE \/ drift = FALSE
    OBVIOUS
  <2> QED BY <2>1
<1> QED BY <1>2, <1>3, <1>4, <1>5, <1>6, <1>7, <1>8, <1>9, <1>10, <1>11, <1>12, <1>13, <1>14
        DEF Next

(* The second invariant, on top of the first.                              *)
THEOREM DropsInvariant == Spec => [](CtxInv /\ DropsInv)
<1>1. Init => CtxInv /\ DropsInv
  BY InvHoldsFirst, DropsHoldFirst
<1>2. CtxInv /\ DropsInv /\ [Next]_vars => (CtxInv /\ DropsInv)'
  BY InvKept, DropsKept
<1> QED BY <1>1, <1>2, PTL DEF Spec

(* A pass that drops messages from the context sends the history they are  *)
(* summarised in.                                                          *)
THEOREM DropsAreShown == Spec => AppliedDropsShown
<1>1. ASSUME CtxInv, DropsInv, pass.applied, pass.view.injected, ~pass.view.fallback
      PROVE  pass.view.dropped <= Max({End(History(pass.view)), unbuilt})
  <2>1. /\ pass.snap \subseteq History(pass.view)
        /\ pass.view.dropped <= Max({End(pass.snap), unbuilt})
    BY <1>1 DEF CtxInv, ShownInv, DropsInv
  <2>2. /\ History(pass.view) \in SUBSET Ordinal /\ pass.snap \in SUBSET Ordinal
        /\ pass.view.dropped \in Nat /\ unbuilt \in Nat
    BY <1>1, Bounds DEF CtxInv, ContextTypeOK, Pass, View, History
  <2>3. End(pass.snap) <= End(History(pass.view)) /\ End(pass.snap) \in Nat
        /\ End(History(pass.view)) \in Nat
    BY <2>1, <2>2, EndGrows, EndOf, Bounds
  <2>4. pass.view.dropped <= End(pass.snap) \/ pass.view.dropped <= unbuilt
    BY <2>1, <2>2, <2>3, WithinGreater
  <2>5. pass.view.dropped <= End(History(pass.view)) \/ pass.view.dropped <= unbuilt
    BY <2>2, <2>3, <2>4
  <2> QED BY <2>2, <2>3, <2>5, WithinGreater
<1>2. CtxInv /\ DropsInv =>
        [Returns /\ pass.applied /\ pass.view.injected /\ ~pass.view.fallback
         => pass.view.dropped <= Max({End(History(pass.view)), unbuilt})]_vars
  BY <1>1
<1> QED BY <1>2, DropsInvariant, PTL DEF AppliedDropsShown

(* A pass returns by one of two steps, and sends what it has shown.        *)
LEMMA ReturningSteps ==
  ASSUME CtxInv, [Next]_vars, Returns
  PROVE  ReturnUndrained \/ ClearMarker
<1>1. pass.at \in {"drain", "clear"} /\ pass'.at = "idle" /\ mishaps' = mishaps
  BY DEF Returns
<1>2. mishaps \in Int
  <2>1. mishaps \in 0 .. MaxRare
    BY DEF CtxInv, ContextTypeOK
  <2> QED BY <2>1, Bounds
<1>3. pass' # pass /\ ~UNCHANGED vars
  BY <1>1 DEF vars
<1>4. ~(Turn \/ SwitchModel \/ Answer \/ Flush \/ Publish \/ HistorianEnds
        \/ SiblingPublish \/ RecompPromotes \/ RecompFinishes \/ Leave)
  BY <1>3 DEF Turn, SwitchModel, Answer, Flush, Publish, HistorianEnds, SiblingPublish,
              RecompPromotes, RecompFinishes, Leave
<1>5. ~(Crash \/ DropsFail \/ InjectionFails \/ MarkerFails)
  BY <1>1, <1>2 DEF Crash, DropsFail, InjectionFails, MarkerFails
<1>6. ~(Replay \/ Freeze \/ Persist \/ RetryFold \/ Contention \/ RenderFresh)
  BY <1>1 DEF Replay, Freeze, Persist, RetryFold, Contention, RenderFresh
<1>7. \A drift \in BOOLEAN : ~SoftRefresh(drift)
  BY <1>1 DEF SoftRefresh
<1>8. \A emergency \in BOOLEAN : ~Begin(emergency)
  BY <1>1 DEF Begin, Idle
<1>9. \A now, fails : ~Decide(now, fails)
  BY <1>1 DEF Decide
<1>10. ~ApplyMarker
  <2>1. ApplyMarker => pass' = [pass EXCEPT !.at = "clear", !.marker = pending]
    BY DEF ApplyMarker
  <2>2. pass \in Pass
    BY DEF CtxInv, ContextTypeOK
  <2>3. ApplyMarker => pass'.at = "clear"
    BY <2>1, <2>2 DEF Pass
  <2> QED BY <1>1, <2>3
<1> QED BY <1>3, <1>4, <1>5, <1>6, <1>7, <1>8, <1>9, <1>10 DEF Next

(* The announcement of new history is withdrawn only by a pass that sends  *)
(* it from the database.                                                   *)
THEOREM DrainsAreShown == Spec => DrainedIsShown
<1>1. ASSUME CtxInv, DropsInv, [Next]_vars, Returns,
             "deferred history" \in signals, "deferred history" \notin signals'
      PROVE  /\ pass.view.injected /\ ~pass.view.fallback
             /\ pass.snap \subseteq History(pass.view)
  <2>1. ReturnUndrained \/ ClearMarker
    BY <1>1, ReturningSteps
  <2>2. pass.view.injected /\ ~pass.view.fallback /\ pass.eligible
    <3>1. CASE ReturnUndrained
      BY <1>1, <3>1 DEF ReturnUndrained, Eligible
    <3>2. CASE ClearMarker
      BY <1>1, <3>2 DEF ClearMarker, DropsInv
    <3> QED BY <2>1, <3>1, <3>2
  <2> QED BY <1>1, <2>2 DEF CtxInv, ShownInv, DropsInv
<1>2. CtxInv /\ DropsInv /\ [Next]_vars =>
        [Returns /\ "deferred history" \in signals /\ "deferred history" \notin signals'
         => /\ pass.view.injected /\ ~pass.view.fallback
            /\ pass.snap \subseteq History(pass.view)]_vars
  BY <1>1
<1> QED BY <1>2, DropsInvariant, PTL DEF Spec, DrainedIsShown
-----------------------------------------------------------------------------
(* The bytes of a quiet pass.                                              *)

InPass == pass.at \notin {"idle", "begun"}

(* The cached pair is of the model and the system prompt in use.           *)
OwnCache == cache.there /\ cache.prompt = prompt

(* A change of model that this process has not yet noticed is one the      *)
(* cached pair is not of: what resets the watermark also folds.            *)
PromptInv ==
  /\ cache.prompt.model <= prompt.model /\ cache.prompt.hash <= prompt.hash
  /\ pass.at # "idle" => live = prompt.model
  /\ cache.there /\ cache.prompt.model = prompt.model => live = prompt.model

(* The view is of the pair in the row, cut where a replay cuts it now or   *)
(* before the row's boundary.                                              *)
Serves(v) ==
  cache.there =>
    /\ v.m0 = cache.m0 /\ v.m1 = cache.m1 /\ v.muts = cache.muts
    /\ v.from - 1 <= cut \/ v.from - 1 <= cache.boundary
    /\ cut <= v.from - 1 \/ cut <= cache.boundary

(* What was sent last is what the row and the drops say, but for drops     *)
(* and changes of model the next pass has yet to answer.                   *)
LastInv ==
  sent.injected => /\ Serves(sent)
                   /\ "flush" \notin signals => sent.dropped = dropped
                   /\ OwnCache => sent.cleared = cleared

ViewInv ==
  /\ pass.view.injected => Serves(pass.view)
  /\ InPass => pass.view.dropped = dropped /\ pass.view.cleared = cleared

(* A quiet pass replays the row it was cut by, and its heuristics have not *)
(* run; any other forgets the last.                                        *)
ReasonInv ==
  /\ pass.at = "begun" => ~pass.quiet /\ (cache.there => pass.early = cache.boundary)
  /\ InPass /\ ~pass.quiet => ~sent.injected
  /\ pass.quiet => /\ pass.at \in {"replay", "drain"}
                   /\ ~pass.eligible /\ OwnCache /\ "flush" \notin signals
                   /\ ~pass.view.unsaved
                   /\ pass.at = "replay" => pass.early = cache.boundary
                   /\ pass.view.injected => cache.boundary <= pass.view.from - 1

QuietInv == PromptInv /\ LastInv /\ ViewInv /\ ReasonInv

(* A new process has sent and cached nothing.                              *)
LEMMA QuietHoldsFirst == Init => QuietInv
<1> SUFFICES ASSUME Init PROVE QuietInv
  OBVIOUS
<1>1. /\ prompt = NoCache.prompt /\ cache = NoCache /\ pass = NoPass /\ sent = NoView
  BY DEF Init
<1>2. /\ cache.prompt = prompt /\ prompt.model = 0 /\ prompt.hash = 0 /\ ~cache.there
      /\ pass.at = "idle" /\ ~pass.view.injected /\ ~pass.quiet /\ ~sent.injected
  BY <1>1 DEF NoCache, NoPass, NoView
<1>3. PromptInv /\ LastInv
  BY <1>2 DEF PromptInv, LastInv
<1>4. ViewInv /\ ReasonInv
  BY <1>2 DEF ViewInv, ReasonInv, InPass
<1> QED BY <1>3, <1>4 DEF QuietInv

(* The counters of prompts are numbers.                                    *)
LEMMA PromptsAreNumbers ==
  ASSUME ContextTypeOK
  PROVE  /\ prompt.model \in Nat /\ prompt.hash \in Nat
         /\ cache.prompt.model \in Nat /\ cache.prompt.hash \in Nat
         /\ cut \in Nat /\ cache.boundary \in Nat /\ pass.early \in Nat
         /\ sent.from - 1 \in Int /\ pass.view.from - 1 \in Int
<1>1. prompt \in Prompt /\ cache \in Cache /\ cut \in Ordinal /\ pass.early \in Ordinal
  BY DEF ContextTypeOK, Pass
<1>2. cache.prompt \in Prompt /\ cache.boundary \in Ordinal
  BY <1>1 DEF Cache
<1> QED BY <1>1, <1>2, EndsAreNumbers, Bounds DEF Prompt

(* Steps that leave the pass and the row alone.                            *)
LEMMA QuietAside ==
  ASSUME QuietInv, PromptInv',
         UNCHANGED <<cut, cache, pass, cleared>>,
         sent' \in {sent, NoView},
         OwnCache' => OwnCache,
         sent'.injected /\ "flush" \notin signals'
           => "flush" \notin signals /\ UNCHANGED dropped,
         InPass => UNCHANGED <<prompt, dropped>> /\ ("flush" \in signals' => "flush" \in signals)
  PROVE  QuietInv'
<1>1. LastInv'
  <2>1. CASE sent' = NoView
    BY <2>1 DEF LastInv, NoView
  <2>2. CASE sent' = sent
    <3>1. sent.injected => Serves(sent)'
      BY <2>2 DEF QuietInv, LastInv, Serves
    <3>2. sent.injected /\ OwnCache' => sent.cleared = cleared
      BY DEF QuietInv, LastInv
    <3> QED BY <2>2, <3>1, <3>2 DEF QuietInv, LastInv, Serves
  <2> QED BY <2>1, <2>2
<1>2. ViewInv'
  BY DEF QuietInv, ViewInv, InPass, Serves
<1>3. ReasonInv'
  <2>1. pass.quiet => InPass
    BY DEF QuietInv, ReasonInv, InPass
  <2>2. ~sent.injected => ~sent'.injected
    BY DEF NoView
  <2>3. OwnCache /\ InPass => OwnCache'
    BY DEF OwnCache
  <2> QED BY <2>1, <2>2, <2>3 DEF QuietInv, ReasonInv, InPass
<1> QED BY <1>1, <1>2, <1>3 DEF QuietInv

(* The steps between passes, publications and flushes.                     *)
LEMMA QuietBetween ==
  ASSUME CtxInv, QuietInv,
         \/ Turn \/ SwitchModel \/ Answer \/ Flush \/ Publish \/ HistorianEnds
         \/ SiblingPublish \/ RecompFinishes \/ Leave
  PROVE  QuietInv'
<1> USE DEF session, database, memory, past
<1>1. /\ prompt \in Prompt /\ prompt.model \in Nat /\ prompt.hash \in Nat
      /\ cache.prompt.model \in Nat /\ cache.prompt.hash \in Nat
  BY PromptsAreNumbers DEF CtxInv, ContextTypeOK
<1>2. /\ cache.prompt.model <= prompt.model /\ cache.prompt.hash <= prompt.hash
      /\ pass.at # "idle" => live = prompt.model
      /\ cache.there /\ cache.prompt.model = prompt.model => live = prompt.model
  BY DEF QuietInv, PromptInv
<1>3. CASE Turn
  <2>1. PICK changed \in BOOLEAN :
          /\ prompt' = (IF changed THEN [prompt EXCEPT !.hash = @ + 1] ELSE prompt)
          /\ signals' = signals \cup Rearmed \cup (IF changed THEN {"history", "flush"} ELSE {})
    BY <1>3 DEF Turn
  <2>2. UNCHANGED <<cut, cache, pass, cleared, dropped, sent, live>> /\ pass.at = "idle"
    BY <1>3 DEF Turn, Idle
  <2>3. prompt'.model = prompt.model /\ prompt'.hash \in {prompt.hash, prompt.hash + 1}
        /\ (prompt' # prompt => prompt'.hash = prompt.hash + 1)
    BY <1>1, <2>1 DEF Prompt
  <2>4. PromptInv'
    BY <1>1, <1>2, <2>2, <2>3 DEF PromptInv
  <2>5. OwnCache' => OwnCache
    BY <1>1, <1>2, <2>2, <2>3 DEF OwnCache
  <2>6. "flush" \notin signals' => "flush" \notin signals
    BY <2>1
  <2> QED BY <2>2, <2>4, <2>5, <2>6, QuietAside DEF InPass
<1>4. CASE SwitchModel
  <2>1. prompt' = [prompt EXCEPT !.model = @ + 1]
    BY <1>4 DEF SwitchModel
  <2>2. UNCHANGED <<cut, cache, pass, cleared, dropped, sent, live, signals>> /\ pass.at = "idle"
    BY <1>4 DEF SwitchModel, Idle
  <2>3. prompt'.model = prompt.model + 1 /\ prompt'.hash = prompt.hash
    BY <1>1, <2>1 DEF Prompt
  <2>4. PromptInv'
    BY <1>1, <1>2, <2>2, <2>3 DEF PromptInv
  <2>5. OwnCache' => OwnCache
    BY <1>1, <1>2, <2>2, <2>3 DEF OwnCache
  <2> QED BY <2>2, <2>4, <2>5, QuietAside DEF InPass
<1>5. CASE Flush
  <2>1. UNCHANGED <<prompt, cut, cache, pass, cleared, sent, live>> /\ "flush" \in signals'
        /\ pass.at \in {"idle", "begun"}
    BY <1>5 DEF Flush, Free, Idle, Waiting
  <2>2. PromptInv' /\ (OwnCache' => OwnCache)
    BY <1>2, <2>1 DEF PromptInv, OwnCache
  <2> QED BY <2>1, <2>2, QuietAside DEF InPass
<1>6. CASE Answer \/ Publish \/ HistorianEnds \/ SiblingPublish \/ RecompFinishes
  <2>1. UNCHANGED <<prompt, cut, cache, pass, cleared, dropped, sent, live>>
    BY <1>6 DEF Answer, Publish, HistorianEnds, SiblingPublish, RecompFinishes, Published
  <2>2. signals' = signals \/ signals' = signals \cup Deferred
    BY <1>6 DEF Answer, Publish, HistorianEnds, SiblingPublish, RecompFinishes
  <2>3. PromptInv' /\ (OwnCache' => OwnCache)
    BY <1>2, <2>1 DEF PromptInv, OwnCache
  <2>4. "flush" \in signals' <=> "flush" \in signals
    <3>1. "flush" \notin Deferred
      BY DEF Deferred
    <3> QED BY <2>2, <3>1
  <2> QED BY <2>1, <2>3, <2>4, QuietAside
<1>7. CASE Leave
  <2>1. UNCHANGED <<prompt, cut, cache, pass, cleared, dropped>> /\ pass.at = "idle"
        /\ live' = prompt.model
    BY <1>7 DEF Leave, Idle
  <2>2. sent' = (IF "flush" \notin signals THEN sent ELSE NoView)
    BY <1>7 DEF Leave, Forgotten, Idle
  <2>3. PromptInv' /\ (OwnCache' => OwnCache)
    BY <1>2, <2>1 DEF PromptInv, OwnCache
  <2>4. sent'.injected => "flush" \notin signals
    BY <2>2 DEF NoView
  <2> QED BY <2>1, <2>2, <2>3, <2>4, QuietAside DEF InPass
<1> QED BY <1>3, <1>4, <1>5, <1>6, <1>7

(* Between two passes a view shows nothing and nothing is quiet.           *)
LEMMA QuietNothing ==
  ASSUME pass' = NoPass
  PROVE  ViewInv' /\ ReasonInv' /\ pass'.at = "idle"
<1>1. pass'.at = "idle" /\ ~pass'.view.injected /\ ~pass'.quiet
  BY DEF NoPass, NoView
<1> QED BY <1>1 DEF ViewInv, ReasonInv, InPass

(* A recomp takes the row away.                                            *)
LEMMA QuietPromoted ==
  ASSUME CtxInv, QuietInv, RecompPromotes
  PROVE  QuietInv'
<1>1. /\ cache' = NoCache /\ UNCHANGED <<prompt, dropped, cleared, signals, live, pass, sent>>
      /\ pass' = NoPass
  BY DEF RecompPromotes, session, CtxInv, StageInv, Idle
<1>2. prompt.model \in Nat /\ prompt.hash \in Nat
  BY PromptsAreNumbers DEF CtxInv
<1>3. ~cache'.there /\ cache'.prompt.model = 0 /\ cache'.prompt.hash = 0
  BY <1>1 DEF NoCache
<1>4. PromptInv'
  BY <1>1, <1>2, <1>3, QuietNothing DEF PromptInv
<1>5. LastInv'
  BY <1>1, <1>3 DEF QuietInv, LastInv, Serves, OwnCache
<1> QED BY <1>1, <1>4, <1>5, QuietNothing DEF QuietInv

(* The early trim of a pass is at the boundary in the row: it is where     *)
(* cached history ends, so it is a compartment's end or there is none.     *)
LEMMA TrimIsBoundary ==
  ASSUME CtxInv, cache.there
  PROVE  EarlyTrim = cache.boundary
<1>1. /\ History(cache) \subseteq comps /\ cache.boundary = End(History(cache))
      /\ comps \in SUBSET Ordinal
  BY DEF CtxInv, CacheInv, Segment, ContextTypeOK
<1>2. End(History(cache)) \in History(cache) \cup {0}
  BY <1>1, EndOf
<1>3. cache.boundary \in comps \/ cache.boundary = 0
  BY <1>1, <1>2
<1> QED BY <1>3 DEF EarlyTrim

(* A pass begins on the row as it is; a change of model or prompt that it  *)
(* notices makes the cached pair one of another prompt.                    *)
LEMMA QuietBegun ==
  ASSUME CtxInv, QuietInv, NEW emergency \in BOOLEAN, Begin(emergency)
  PROVE  QuietInv'
<1>1. /\ ContextTypeOK'
      /\ pass' = [NoPass EXCEPT !.at = "begun", !.waits = emergency /\ historian,
                                !.early = EarlyTrim]
  BY BeginDoes DEF CtxInv
<1> DEFINE t == EarlyTrim
           w == emergency /\ historian
<1>2. pass' = [NoPass EXCEPT !.at = "begun", !.waits = w, !.early = t]
  BY <1>1
<1>3. cache.there => t = cache.boundary
  BY TrimIsBoundary
<1> HIDE DEF t, w
<1>4. pass'.at = "begun" /\ pass'.early = t /\ ~pass'.quiet /\ ~pass'.view.injected
  BY <1>2, Blank DEF NoPass, NoView
<1>5. /\ UNCHANGED <<prompt, cut, dropped, cache, signals, sent>>
      /\ live' = prompt.model /\ cleared' = (cleared /\ live = prompt.model)
  BY DEF Begin, session, past
<1>6. PromptInv'
  BY <1>5 DEF QuietInv, PromptInv
<1>7. OwnCache => cleared' = cleared
  <2>1. OwnCache => live = prompt.model
    BY DEF OwnCache, QuietInv, PromptInv
  <2>2. cleared \in BOOLEAN
    BY DEF CtxInv, ContextTypeOK
  <2> QED BY <1>5, <2>1, <2>2
<1>8. LastInv'
  BY <1>5, <1>7 DEF QuietInv, LastInv, Serves, OwnCache
<1>9. ViewInv' /\ ReasonInv'
  BY <1>3, <1>4, <1>5 DEF ViewInv, ReasonInv, InPass
<1> QED BY <1>6, <1>8, <1>9 DEF QuietInv

(* A pass that is quiet defers: it executes nothing.                       *)
LEMMA QuietDefers ==
  ASSUME NEW now \in Situation, ~Forced(now), ~MustFold(now.expired),
         signals \cap {"history", "flush"} = {},
         now.midTurn \/ (now.usage = "low" /\ ~now.expired)
  PROVE  ~Executes(now) /\ ~Consumes(now) /\ ~AppliesDrops(now) /\ ~RunsHeuristics(now)
<1>1. "history" \notin signals /\ "flush" \notin signals
  OBVIOUS
<1>2. ~Executes(now)
  BY <1>1 DEF Executes, NotDeferred, Forced
<1>3. ~Consumes(now)
  BY <1>2 DEF Consumes
<1>4. ~Asked(now)
  BY <1>1, <1>3 DEF Asked
<1> QED BY <1>2, <1>3, <1>4 DEF AppliesDrops, RunsHeuristics

(* A decision is quiet only if it finds no reason to do anything, and then *)
(* it does nothing.                                                        *)
LEMMA QuietDoes ==
  ASSUME ContextTypeOK, NEW now \in Situation,
         NEW fails \in Failure, Decide(now, fails)
  PROVE  /\ UNCHANGED <<prompt, cut, cache, live>>
         /\ signals' \subseteq signals
         /\ pass'.view.dropped = dropped' /\ pass'.view.cleared = cleared'
         /\ sent' = IF pass'.quiet THEN sent ELSE NoView
         /\ pass'.quiet => /\ pass'.at = "replay" /\ ~pass'.eligible
                           /\ cache.there /\ cache.prompt = prompt /\ "flush" \notin signals
                           /\ UNCHANGED <<dropped, cleared>> /\ ~pass'.view.unsaved
<1> DEFINE consumes == Consumes(now) /\ "deferred history" \in signals
           busting  == "history" \in signals
           runs     == RunsHeuristics(now)
           ok       == runs /\ fails \notin {"heuristics", "midway"}
           used     == DropsConsumed(now, ok)
           quiet    == /\ ~Forced(now) /\ ~MustFold(now.expired)
                       /\ signals \cap {"history", "flush"} = {}
                       /\ now.midTurn \/ (now.usage = "low" /\ ~now.expired)
           applied  == AppliesDrops(now)
           eligible == /\ AppliesDrops(now) /\ (busting \/ consumes)
                       /\ signals \cap {"flush", "deferred history"} # {}
           midway == fails = "midway"
           v == [NoView EXCEPT !.dropped = dropped', !.cleared = cleared', !.unsaved = midway]
           p == [NoPass EXCEPT !.early = pass.early, !.quiet = quiet, !.busting = busting,
                               !.applied = applied, !.consumes = consumes,
                               !.eligible = eligible, !.used = used, !.snap = comps, !.view = v]
           at == IF MustFold(now.expired) THEN "fold"
                 ELSE IF Recomputes(p) THEN "refresh" ELSE "replay"
           q == [p EXCEPT !.at = at]
<1>1. /\ dropped' = (IF applied THEN queued ELSE dropped)
      /\ cleared' = (cleared \/ (runs /\ fails # "reasoning"))
      /\ signals' \in SUBSET signals
      /\ fails # "nothing" => runs
      /\ UNCHANGED <<prompt, cut, cache, live>>
  BY DEF Decide, session
<1>2. pass' = q
  BY DEF Decide
<1>3. sent' = (IF p.quiet THEN sent ELSE NoView)
  BY DEF Decide
<1>4. quiet => /\ ~Executes(now) /\ ~Consumes(now) /\ ~AppliesDrops(now)
               /\ ~RunsHeuristics(now)
  BY QuietDefers
<1>5. quiet => /\ ~eligible /\ ~applied /\ ~runs /\ ~busting /\ ~consumes
               /\ ~MustFold(now.expired) /\ "flush" \notin signals /\ ~midway
  BY <1>1, <1>4
<1>6. ~MustFold(now.expired) => cache.there /\ cache.prompt = prompt
  BY DEF MustFold
<1>7. dropped' \in Ordinal /\ cleared' \in BOOLEAN /\ cleared \in BOOLEAN
  BY <1>1 DEF ContextTypeOK
<1>8. v.dropped = dropped' /\ v.cleared = cleared' /\ v.unsaved = midway
  BY DEF NoView
<1>9. p.busting = busting /\ p.consumes = consumes /\ p.applied = applied /\ p.quiet = quiet
      /\ p.view = v /\ p.eligible = eligible
  BY DEF NoPass
<1>10. quiet => at = "replay"
  BY <1>5, <1>9 DEF Recomputes
<1> HIDE DEF consumes, busting, ok, used, quiet, applied, eligible, midway, v, at, runs
<1>11. q.at = at /\ q.quiet = quiet /\ q.view = v /\ q.eligible = eligible
  BY DEF NoPass
<1> HIDE DEF p, q
<1>12. quiet => UNCHANGED <<dropped, cleared>>
  BY <1>1, <1>5, <1>7
<1>13. pass'.at = at /\ pass'.quiet = quiet /\ pass'.view = v /\ pass'.eligible = eligible
  BY <1>2, <1>11
<1>14. sent' = IF pass'.quiet THEN sent ELSE NoView
  BY <1>9, <1>13, <1>3
<1>15. pass'.quiet => /\ pass'.at = "replay" /\ ~pass'.eligible
                      /\ cache.there /\ cache.prompt = prompt /\ "flush" \notin signals
                      /\ UNCHANGED <<dropped, cleared>> /\ ~pass'.view.unsaved
  BY <1>5, <1>6, <1>8, <1>10, <1>12, <1>13
<1> QED BY <1>1, <1>8, <1>13, <1>14, <1>15

(* A quiet decision leaves the row and what was sent as they are; any      *)
(* other forgets what was sent.                                            *)
LEMMA QuietDecided ==
  ASSUME CtxInv, QuietInv, NEW now \in Situation,
         NEW fails \in Failure, Decide(now, fails)
  PROVE  QuietInv'
<1>1. /\ UNCHANGED <<prompt, cut, cache, live>>
      /\ signals' \subseteq signals
      /\ pass'.view.dropped = dropped' /\ pass'.view.cleared = cleared'
      /\ sent' = IF pass'.quiet THEN sent ELSE NoView
      /\ pass'.quiet => /\ pass'.at = "replay" /\ ~pass'.eligible
                        /\ cache.there /\ cache.prompt = prompt /\ "flush" \notin signals
                        /\ UNCHANGED <<dropped, cleared>> /\ ~pass'.view.unsaved
  BY QuietDoes DEF CtxInv
<1>2. /\ pass.at = "begun" /\ pass'.early = pass.early /\ ~pass'.view.injected
      /\ pass'.at \in {"fold", "refresh", "replay"}
  BY DecideDoes DEF CtxInv
<1>3. PromptInv'
  BY <1>1, <1>2 DEF QuietInv, PromptInv
<1>4. LastInv'
  <2>1. CASE pass'.quiet
    <3>1. sent' = sent /\ "flush" \notin signals /\ UNCHANGED <<dropped, cleared>>
      BY <1>1, <2>1
    <3> QED BY <1>1, <3>1 DEF QuietInv, LastInv, Serves, OwnCache
  <2>2. CASE ~pass'.quiet
    BY <1>1, <2>2 DEF LastInv, NoView
  <2> QED BY <2>1, <2>2
<1>5. ViewInv'
  BY <1>1, <1>2 DEF ViewInv
<1>6. ReasonInv'
  <2>1. ~pass'.quiet => ~sent'.injected
    BY <1>1 DEF NoView
  <2>2. pass'.quiet => pass'.early = cache'.boundary /\ OwnCache' /\ "flush" \notin signals'
    BY <1>1, <1>2 DEF QuietInv, ReasonInv, OwnCache
  <2> QED BY <1>1, <1>2, <2>1, <2>2 DEF ReasonInv
<1> QED BY <1>3, <1>4, <1>5, <1>6 DEF QuietInv

(* Steps of a pass that inject nothing.                                    *)
LEMMA QuietMoved ==
  ASSUME QuietInv, InPass, pass'.at \in {"fold", "frozen", "fresh", "drain"},
         UNCHANGED <<prompt, cut, dropped, cleared, signals, live, sent>>,
         cache'.prompt = cache.prompt, cache'.there = cache.there,
         UNCHANGED cache \/ ~sent.injected,
         ~pass'.view.injected, pass'.view.dropped = pass.view.dropped,
         pass'.view.cleared = pass.view.cleared, pass'.view.unsaved = pass.view.unsaved,
         pass'.quiet = pass.quiet, pass'.eligible = pass.eligible,
         pass.quiet => pass'.at = "drain"
  PROVE  QuietInv'
<1>1. PromptInv'
  BY DEF QuietInv, PromptInv, InPass
<1>2. LastInv'
  BY DEF QuietInv, LastInv, Serves, OwnCache
<1>3. ViewInv'
  BY DEF QuietInv, ViewInv, InPass
<1>4. OwnCache => OwnCache'
  BY DEF OwnCache
<1>5. ReasonInv'
  BY <1>4 DEF QuietInv, ReasonInv, InPass
<1> QED BY <1>1, <1>2, <1>3, <1>5 DEF QuietInv

(* Steps after which the pass still has to inject.                         *)
LEMMA QuietMovedOn ==
  ASSUME CtxInv, QuietInv,
         \/ Freeze \/ RetryFold \/ InjectionFails \/ SoftRefresh(TRUE)
         \/ Contention /\ pass'.at = "fresh"
  PROVE  QuietInv'
<1> USE DEF session, database, memory, past
<1>1. CASE Freeze \/ RetryFold \/ InjectionFails
  <2>1. /\ pass'.view.injected = pass.view.injected
        /\ pass'.view.dropped = pass.view.dropped /\ pass'.view.cleared = pass.view.cleared
        /\ pass'.view.unsaved = pass.view.unsaved
        /\ pass'.eligible = pass.eligible /\ pass'.quiet = pass.quiet
        /\ pass'.at \in {"frozen", "fold", "drain"}
        /\ pass.at \in {"fold", "frozen", "refresh", "replay"}
        /\ pass'.at # "drain" => pass.at \in {"fold", "frozen"}
    BY <1>1, MovesOn DEF CtxInv
  <2>2. UNCHANGED <<prompt, cut, dropped, cleared, signals, live, sent, cache>>
    BY <1>1 DEF Freeze, RetryFold, InjectionFails
  <2>3. ~pass.view.injected /\ InPass
    BY <2>1 DEF CtxInv, StageInv, InPass
  <2>4. pass.quiet => pass'.at = "drain"
    BY <2>1 DEF QuietInv, ReasonInv
  <2> QED BY <2>1, <2>2, <2>3, <2>4, QuietMoved
<1>2. CASE Contention /\ pass'.at = "fresh"
  <2>1. /\ pass' = [pass EXCEPT !.at = "fresh", !.frozen = comps]
        /\ pass.at = "frozen" /\ UNCHANGED <<prompt, cut, cache, sent>>
    BY <1>2, FreshDoes DEF CtxInv
  <2>2. pass \in Pass
    BY DEF CtxInv, ContextTypeOK
  <2>3. pass'.view = pass.view /\ pass'.eligible = pass.eligible /\ pass'.quiet = pass.quiet
    BY <2>1, <2>2 DEF Pass
  <2>4. UNCHANGED <<dropped, cleared, live>>
    BY <1>2 DEF Contention
  <2>5. UNCHANGED signals
    <3>1. ~Injects(pass, cache, FALSE, pass.coverage) /\ ~Injects(pass, cache, TRUE, 0)
      <4>1. cache \in Cache /\ pass.coverage \in Ordinal /\ 0 \in Ordinal
        BY Bounds DEF CtxInv, ContextTypeOK, Pass
      <4>2. Injects(pass, cache, FALSE, pass.coverage) => pass'.at = "drain"
        BY <4>1, InjectsDoes DEF CtxInv
      <4>3. Injects(pass, cache, TRUE, 0) => pass'.at = "drain"
        BY <4>1, InjectsDoes DEF CtxInv
      <4> QED BY <1>2, <4>2, <4>3
    <3> QED BY <1>2, <3>1 DEF Contention
  <2>6. ~pass.view.injected /\ InPass /\ ~pass.quiet
    BY <2>1 DEF CtxInv, StageInv, InPass, QuietInv, ReasonInv
  <2> QED BY <1>2, <2>1, <2>3, <2>4, <2>5, <2>6, QuietMoved
<1>3. CASE SoftRefresh(TRUE)
  <2>1. /\ UNCHANGED <<prompt, cut, sent>> /\ pass.at = "refresh"
        /\ cache' = Refreshed(cache, pass.snap) /\ pass'.at = "fold"
        /\ pass'.view = pass.view
        /\ pass'.eligible = pass.eligible /\ pass'.quiet = pass.quiet
    BY <1>3, DriftDoes DEF CtxInv
  <2>2. cache'.there = cache.there /\ cache'.prompt = cache.prompt
    <3>1. cache'.there /\ cache'.prompt = cache.prompt /\ cache.there
      BY <2>1, RefreshedIs DEF CtxInv, StageInv
    <3>2. cache.there \in BOOLEAN /\ cache'.there \in BOOLEAN
      <4>1. ContextTypeOK'
        BY <1>3, DriftDoes DEF CtxInv
      <4> QED BY <4>1 DEF CtxInv, ContextTypeOK, Cache
    <3> QED BY <3>1, <3>2
  <2>3. UNCHANGED <<dropped, cleared, live, signals>>
    BY <1>3 DEF SoftRefresh
  <2>4. ~pass.view.injected /\ InPass /\ ~pass.quiet /\ ~sent.injected
    BY <2>1 DEF CtxInv, StageInv, InPass, QuietInv, ReasonInv
  <2> QED BY <2>1, <2>2, <2>3, <2>4, QuietMoved
<1> QED BY <1>1, <1>2, <1>3

(* What an injection shows is what is in the row then, cut at the native   *)
(* cut, the early trim or the boundary, none of which is past the row's.   *)
LEMMA InjectedServes ==
  ASSUME CtxInv, ContextTypeOK', CacheInv', NEW c \in Cache, NEW fallback \in BOOLEAN,
         NEW coverage \in Ordinal, Injected(c, fallback, coverage),
         pass'.view = Shown(pass, c, fallback), UNCHANGED <<prompt, cut, comps, muts>>
  PROVE  /\ Serves(pass.view)'
         /\ pass'.view.from - 1 >= pass.early
         /\ cache'.there => cache.there \/ cache' = Rendered(pass.frozen, comps)
         /\ cache'.prompt = cache.prompt \/ cache'.prompt = prompt
<1> DEFINE v == Shown(pass, c, fallback)
           f == Max({cut, pass.early, BoundaryOf(c)})
<1>1. /\ v.m0 = c.m0 /\ v.m1 = c.m1 /\ v.muts = c.muts /\ v.from = f + 1
  BY ShownIs DEF CtxInv
<1>2. cut \in Nat /\ pass.early \in Nat /\ BoundaryOf(c) \in Nat
  BY PromptsAreNumbers, BoundaryTyped, Bounds DEF CtxInv
<1>3. f \in {cut, pass.early, BoundaryOf(c)} /\ f >= cut /\ f >= pass.early
  BY <1>2, GreaterOfThree
<1>4. /\ cache.there => cache'.there /\ End(History(cache)) <= End(History(cache'))
      /\ BoundaryOf(c) <= End(History(c))
  BY InjectedIs
<1>5. cache'.there => c = cache'
  <2>1. c = Rendered(pass.frozen, comps) /\ pass.at = "fresh" /\ UNCHANGED cache => ~cache'.there
    BY DEF CtxInv, StageInv
  <2> QED BY <2>1 DEF Injected
<1>6. /\ End(History(cache')) \in Nat /\ End(History(cache)) \in Nat
      /\ cache'.boundary \in Nat
  <2>1. History(cache') \in SUBSET Ordinal /\ cache'.boundary \in Ordinal
    BY DEF ContextTypeOK, Cache, History
  <2> QED BY <2>1, EndOf, Bounds, EndsAreNumbers DEF CtxInv
<1>7. cache'.there => cache'.boundary = End(History(cache'))
  BY DEF CacheInv
<1>8. cache'.there => pass.early <= cache'.boundary
  <2>1. pass.early <= (IF cache.there THEN End(History(cache)) ELSE 0)
    BY DEF CtxInv, RenderInv
  <2> QED BY <1>2, <1>4, <1>6, <1>7, <2>1
<1>9. cache'.there => BoundaryOf(c) <= cache'.boundary
  BY <1>4, <1>5, <1>7
<1> HIDE DEF f, v
<1>10. f \in Nat /\ v.from - 1 = f
  BY <1>1, <1>2, <1>3
<1>11. cache'.there => /\ v.from - 1 <= cut' \/ v.from - 1 <= cache'.boundary
                       /\ cut' <= v.from - 1
  BY <1>2, <1>3, <1>6, <1>8, <1>9, <1>10
<1>12. pass'.view = v
  BY DEF v
<1>13. Serves(pass.view)'
  BY <1>1, <1>5, <1>11, <1>12 DEF Serves
<1>14. pass'.view.from - 1 >= pass.early
  BY <1>3, <1>10, <1>12
<1>15. cache'.there => cache.there \/ cache' = Rendered(pass.frozen, comps)
  <2>1. pass.at = "refresh" => cache.there
    BY DEF CtxInv, StageInv
  <2> QED BY <2>1 DEF Injected
<1>16. cache'.prompt = cache.prompt \/ cache'.prompt = prompt
  <2>1. Rendered(pass.frozen, comps).prompt = prompt
    BY DEF Rendered
  <2>2. pass.at = "refresh" => Refreshed(cache, pass.snap).prompt = cache.prompt
    BY RefreshedIs
  <2> QED BY <2>1, <2>2 DEF Injected
<1> QED BY <1>13, <1>14, <1>15, <1>16

(* Steps that inject: a view of the row as it then is.                     *)
LEMMA QuietInjected ==
  ASSUME CtxInv, QuietInv,
         \/ Replay \/ Persist \/ RenderFresh \/ SoftRefresh(FALSE)
         \/ Contention /\ pass'.at # "fresh"
  PROVE  QuietInv'
<1>1. ContextTypeOK' /\ UNCHANGED <<prompt, cut, comps, muts, sent>>
  BY InjectionDoes DEF CtxInv
<1>2. PICK c \in Cache, fallback \in BOOLEAN, coverage \in Ordinal :
        Injects(pass, c, fallback, coverage) /\ Injected(c, fallback, coverage)
  BY InjectionDoes DEF CtxInv
<1>3. /\ pass'.at = "drain" /\ pass'.view = Shown(pass, c, fallback)
      /\ pass'.eligible = pass.eligible /\ pass'.quiet = pass.quiet
  BY <1>2, InjectsDoes DEF CtxInv
<1>4. CacheInv'
  BY <1>1, <1>2, InjectedIs
<1>5. /\ Serves(pass.view)'
      /\ pass'.view.from - 1 >= pass.early
      /\ cache'.there => cache.there \/ cache' = Rendered(pass.frozen, comps)
      /\ cache'.prompt = cache.prompt \/ cache'.prompt = prompt
  BY <1>1, <1>2, <1>3, <1>4, InjectedServes
<1>6. /\ pass'.view.dropped = pass.view.dropped /\ pass'.view.cleared = pass.view.cleared
      /\ pass'.view.unsaved = pass.view.unsaved
  <2> DEFINE v == Shown(pass, c, fallback)
  <2>1. /\ v.dropped = pass.view.dropped /\ v.cleared = pass.view.cleared
        /\ v.unsaved = pass.view.unsaved
    BY ShownIs DEF CtxInv
  <2> HIDE DEF v
  <2> QED BY <1>3, <2>1 DEF v
<1>7. UNCHANGED <<dropped, cleared, live>> /\ pass.at \in {"replay", "frozen", "fresh", "refresh"}
  BY DEF Replay, Persist, RenderFresh, SoftRefresh, Contention, database
<1>8. "flush" \in signals' <=> "flush" \in signals
  BY <1>2 DEF Injects
<1>9. InPass /\ pass.at # "idle" /\ live = prompt.model
  BY <1>7 DEF InPass, QuietInv, PromptInv
<1>10. PromptInv'
  <2>1. /\ prompt.model \in Nat /\ prompt.hash \in Nat
    BY PromptsAreNumbers DEF CtxInv
  <2> QED BY <1>1, <1>5, <1>7, <1>9, <2>1 DEF QuietInv, PromptInv
<1>11. pass.quiet => pass.at = "replay" /\ UNCHANGED cache /\ pass.early = cache.boundary
  <2>1. pass.quiet => pass.at = "replay" /\ pass.early = cache.boundary
    BY <1>7 DEF QuietInv, ReasonInv
  <2> QED BY <1>2, <2>1 DEF Injected
<1>12. ~pass.quiet => ~sent.injected
  BY <1>9 DEF QuietInv, ReasonInv
<1>13. LastInv'
  <2>1. CASE pass.quiet
    <3>1. UNCHANGED cache
      BY <1>11, <2>1
    <3> QED BY <1>1, <1>7, <1>8, <3>1 DEF QuietInv, LastInv, Serves, OwnCache
  <2>2. CASE ~pass.quiet
    BY <1>1, <1>12, <2>2 DEF LastInv
  <2> QED BY <2>1, <2>2
<1>14. ViewInv'
  <2>1. pass.view.dropped = dropped /\ pass.view.cleared = cleared
    BY <1>9 DEF QuietInv, ViewInv
  <2> QED BY <1>5, <1>6, <1>7, <2>1 DEF ViewInv, Serves
<1>15. ReasonInv'
  <2>1. pass.quiet => /\ ~pass.eligible /\ OwnCache /\ "flush" \notin signals
                      /\ ~pass.view.unsaved
    BY DEF QuietInv, ReasonInv
  <2>2. pass.quiet => OwnCache' /\ cache'.boundary <= pass'.view.from - 1
    BY <1>1, <1>5, <1>11, <2>1 DEF OwnCache
  <2> QED BY <1>1, <1>3, <1>6, <1>8, <1>12, <2>1, <2>2 DEF ReasonInv
<1> QED BY <1>10, <1>13, <1>14, <1>15 DEF QuietInv

(* The steps that end a pass: what it has sent is what it has shown.       *)
LEMMA QuietFinished ==
  ASSUME CtxInv, QuietInv,
         Crash \/ DropsFail \/ ReturnUndrained \/ MarkerFails \/ ClearMarker
  PROVE  QuietInv'
<1> USE DEF session, database, memory, past
<1>1. UNCHANGED <<prompt, cut, cache>> /\ pass' = NoPass
  BY Finishes DEF CtxInv
<1>2. UNCHANGED <<dropped, cleared>>
  BY DEF Crash, DropsFail, ReturnUndrained, MarkerFails, ClearMarker
<1>3. live' = prompt.model \/ UNCHANGED live
  BY DEF Crash, DropsFail, ReturnUndrained, MarkerFails, ClearMarker
<1>4. PromptInv'
  BY <1>1, <1>3, QuietNothing DEF QuietInv, PromptInv
<1>5. LastInv'
  <2>1. CASE Crash
    <3>1. sent' = (IF Idle /\ "flush" \notin signals THEN sent ELSE NoView)
      BY <2>1 DEF Crash, Forgotten
    <3>2. CASE sent' = NoView
      BY <3>2 DEF LastInv, NoView
    <3>3. CASE sent' = sent /\ "flush" \notin signals
      BY <1>1, <1>2, <3>3 DEF QuietInv, LastInv, Serves, OwnCache
    <3> QED BY <3>1, <3>2, <3>3
  <2>2. CASE DropsFail
    <3>1. sent' = NoView
      BY <2>2 DEF DropsFail
    <3> QED BY <3>1 DEF LastInv, NoView
  <2>3. CASE ReturnUndrained \/ MarkerFails \/ ClearMarker
    <3>1. sent' = pass.view /\ InPass
      BY <2>3 DEF ReturnUndrained, MarkerFails, ClearMarker, Sends, InPass
    <3> QED BY <1>1, <1>2, <3>1 DEF QuietInv, ViewInv, LastInv, Serves
  <2> QED BY <2>1, <2>2, <2>3
<1> QED BY <1>1, <1>4, <1>5, QuietNothing DEF QuietInv

(* The native cut does not go past the history that is shown.              *)
LEMMA QuietApplied ==
  ASSUME CtxInv, QuietInv, ApplyMarker
  PROVE  QuietInv'
<1>1. /\ UNCHANGED <<prompt, cache, sent>>
      /\ pass' = [pass EXCEPT !.at = "clear", !.marker = pending]
      /\ cut' = (IF pending \in comps THEN Max({cut, pending}) ELSE cut)
      /\ pass.view.injected /\ ~pass.view.fallback /\ Covered(pass)
  BY ApplyDoes DEF CtxInv
<1>2. UNCHANGED <<dropped, cleared, live, signals>> /\ pass.eligible /\ InPass
  BY DEF ApplyMarker, database, memory, Eligible, InPass
<1>3. /\ pass'.at = "clear" /\ pass'.view = pass.view /\ pass'.quiet = pass.quiet
      /\ pass'.eligible = pass.eligible
  <2>1. pass \in Pass
    BY DEF CtxInv, ContextTypeOK
  <2> QED BY <1>1, <2>1 DEF Pass
<1>4. ~pass.quiet /\ ~sent.injected /\ live = prompt.model
  BY <1>2 DEF QuietInv, ReasonInv, PromptInv, InPass
<1>5. cut \in Nat /\ pending \in Nat /\ cache.boundary \in Nat /\ pass.view.from - 1 \in Int
  BY PromptsAreNumbers, EndsAreNumbers DEF CtxInv
<1>6. pending <= cache.boundary
  BY <1>1, CoveredIsShown DEF CtxInv, CacheInv
<1>7. cut' \in {cut, pending} /\ cut <= cut'
  BY <1>1, <1>5, GreaterOfTwo
<1>8. Serves(pass.view)'
  <2>1. Serves(pass.view)
    BY <1>1 DEF QuietInv, ViewInv
  <2>2. cache.there =>
          /\ pass.view.from - 1 <= cut' \/ pass.view.from - 1 <= cache.boundary
          /\ cut' <= pass.view.from - 1 \/ cut' <= cache.boundary
    BY <1>5, <1>6, <1>7, <2>1 DEF Serves
  <2> QED BY <1>1, <1>3, <2>1, <2>2 DEF Serves
<1>9. PromptInv'
  BY <1>1, <1>2, <1>4 DEF QuietInv, PromptInv
<1>10. ViewInv'
  BY <1>2, <1>3, <1>8 DEF QuietInv, ViewInv, InPass, Serves
<1>11. LastInv' /\ ReasonInv'
  BY <1>1, <1>3, <1>4 DEF LastInv, ReasonInv
<1> QED BY <1>9, <1>10, <1>11 DEF QuietInv

(* Every step keeps the invariant.                                         *)
LEMMA QuietKept ==
  ASSUME CtxInv, QuietInv, [Next]_vars
  PROVE  QuietInv'
<1>1. CASE UNCHANGED vars
  <2>1. UNCHANGED <<prompt, cut, cache, pass, cleared, dropped, sent, live, signals>>
    BY <1>1 DEF vars, session, database, memory, past
  <2>2. PromptInv' /\ (OwnCache' => OwnCache)
    BY <2>1 DEF QuietInv, PromptInv, OwnCache
  <2> QED BY <2>1, <2>2, QuietAside
<1>2. CASE \/ Turn \/ SwitchModel \/ Answer \/ Flush \/ Publish \/ HistorianEnds
           \/ SiblingPublish \/ RecompFinishes \/ Leave
  BY <1>2, QuietBetween
<1>3. CASE RecompPromotes
  BY <1>3, QuietPromoted
<1>4. CASE \E emergency \in BOOLEAN : Begin(emergency)
  BY <1>4, QuietBegun
<1>5. CASE \E now \in Situation, fails \in Failure :
             Decide(now, fails)
  BY <1>5, QuietDecided
<1>6. CASE Freeze \/ RetryFold \/ InjectionFails \/ SoftRefresh(TRUE)
  BY <1>6, QuietMovedOn
<1>7. CASE Replay \/ Persist \/ RenderFresh \/ SoftRefresh(FALSE)
  BY <1>7, QuietInjected
<1>8. CASE Contention
  BY <1>8, QuietMovedOn, QuietInjected
<1>9. CASE Crash \/ DropsFail \/ ReturnUndrained \/ MarkerFails \/ ClearMarker
  BY <1>9, QuietFinished
<1>10. CASE ApplyMarker
  BY <1>10, QuietApplied
<1>11. (\E drift \in BOOLEAN : SoftRefresh(drift)) => SoftRefresh(TRUE) \/ SoftRefresh(FALSE)
  <2>1. \A drift \in BOOLEAN : drift = TRUE \/ drift = FALSE
    OBVIOUS
  <2> QED BY <2>1
<1> QED BY <1>1, <1>2, <1>3, <1>4, <1>5, <1>6, <1>7, <1>9, <1>10, <1>11, <1>8 DEF Next

(* The third invariant, on top of the first.                               *)
THEOREM QuietInvariant == Spec => [](CtxInv /\ QuietInv)
<1>1. Init => CtxInv /\ QuietInv
  BY InvHoldsFirst, QuietHoldsFirst
<1>2. CtxInv /\ QuietInv /\ [Next]_vars => (CtxInv /\ QuietInv)'
  BY InvKept, QuietKept
<1> QED BY <1>1, <1>2, PTL DEF Spec

(* Views that differ in nothing but the fallback mark are the same bytes.  *)
LEMMA SameBytes ==
  ASSUME NEW v \in View, NEW w \in View, v.injected = w.injected, v.m0 = w.m0, v.m1 = w.m1,
         v.muts = w.muts, v.from = w.from, v.dropped = w.dropped, v.cleared = w.cleared,
         v.unsaved = w.unsaved
  PROVE  Bytes(v) = Bytes(w)
<1> DEFINE d == IF v.dropped < v.from THEN 0 ELSE v.dropped
           e == IF w.dropped < w.from THEN 0 ELSE w.dropped
<1>1. Bytes(v) = [v EXCEPT !.fallback = FALSE, !.dropped = d]
      /\ Bytes(w) = [w EXCEPT !.fallback = FALSE, !.dropped = e]
  BY DEF Bytes
<1>2. d = e
  OBVIOUS
<1> HIDE DEF d, e
<1>3. ASSUME NEW mark \in BOOLEAN, NEW n
      PROVE  [v EXCEPT !.fallback = mark, !.dropped = n] = [w EXCEPT !.fallback = mark, !.dropped = n]
  BY <1>3 DEF View
<1> QED BY <1>1, <1>2, <1>3

(* A pass that defers and has no reason to change anything sends the bytes *)
(* of the pass before it, whatever was published, cut, or restarted in     *)
(* between, if that one sent each message once and none that was changed   *)
(* and not saved.                                                          *)
THEOREM QuietIsStable == Spec => QuietPassIsStable
<1>1. ASSUME CtxInv, QuietInv, [Next]_vars, Returns, pass.quiet, pass.view.injected,
             sent.injected, sent.from > End(History(sent)), ~sent.unsaved
      PROVE  Bytes(sent') = Bytes(sent)
  <2>1. pass.at = "drain" /\ OwnCache /\ "flush" \notin signals
        /\ cache.boundary <= pass.view.from - 1 /\ ~pass.view.unsaved
    BY <1>1 DEF QuietInv, ReasonInv, CtxInv, StageInv
  <2>2. sent' = pass.view
    BY <1>1, ReturningSteps DEF ReturnUndrained, ClearMarker, Sends
  <2>3. Serves(sent) /\ sent.dropped = dropped /\ sent.cleared = cleared
    BY <1>1, <2>1 DEF QuietInv, LastInv
  <2>4. Serves(pass.view) /\ pass.view.dropped = dropped /\ pass.view.cleared = cleared
    BY <1>1, <2>1 DEF QuietInv, ViewInv, InPass
  <2>5. cache.there
    BY <2>1 DEF OwnCache
  <2>6. /\ sent \in View /\ pass.view \in View
        /\ sent.m0 = pass.view.m0 /\ sent.m1 = pass.view.m1 /\ sent.muts = pass.view.muts
    BY <1>1, <2>3, <2>4, <2>5 DEF Serves, CtxInv, ContextTypeOK, Pass
  <2>7. cache.boundary = End(History(sent))
    BY <1>1, <2>3, <2>5 DEF Serves, CtxInv, CacheInv, History
  <2>8. /\ cut \in Nat /\ cache.boundary \in Nat
        /\ sent.from \in Nat /\ pass.view.from \in Nat
    BY <1>1, <2>6, PromptsAreNumbers, Bounds DEF CtxInv, View
  <2>9. sent.from = pass.view.from
    <3>1. /\ sent.from - 1 <= cut \/ sent.from - 1 <= cache.boundary
          /\ cut <= sent.from - 1 \/ cut <= cache.boundary
          /\ pass.view.from - 1 <= cut \/ pass.view.from - 1 <= cache.boundary
          /\ cut <= pass.view.from - 1 \/ cut <= cache.boundary
      BY <2>3, <2>4, <2>5 DEF Serves
    <3>2. sent.from > cache.boundary
      BY <1>1, <2>7
    <3> QED BY <2>1, <2>8, <3>1, <3>2
  <2>10. sent.injected = pass.view.injected /\ sent.unsaved = pass.view.unsaved
    BY <1>1, <2>1, <2>6 DEF View
  <2> QED BY <2>2, <2>3, <2>4, <2>6, <2>9, <2>10, SameBytes
<1>2. CtxInv /\ QuietInv /\ [Next]_vars =>
        [Returns /\ pass.quiet /\ pass.view.injected
           /\ sent.injected /\ sent.from > End(History(sent)) /\ ~sent.unsaved
         => Bytes(sent') = Bytes(sent)]_vars
  BY <1>1
<1> QED BY <1>2, QuietInvariant, PTL DEF Spec, QuietPassIsStable
=============================================================================
