----------------------------- MODULE TagStoreProofs -----------------------------
(***************************************************************************)
(* Proofs about TagStore, for any processes, branches and drivers, any     *)
(* margin and any number of retries.                                       *)
(***************************************************************************)
EXTENDS TagStore, NumberLemmas, FiniteSetTheorems

-----------------------------------------------------------------------------
LEMMA GreaterTyped ==
  ASSUME NEW a \in Nat, NEW b \in Nat
  PROVE  Greater(a, b) \in Nat /\ Greater(a, b) >= a /\ Greater(a, b) >= b
BY DEF Greater
-----------------------------------------------------------------------------
(* The inductive invariant: beside the types and what is to be shown, a    *)
(* wire lies on its branch, the stored counter bounds the numbers, and a   *)
(* pass that is past its look-up is at a part, and inserts no zero.        *)

WireOnBranch == \A p \in Process : wire[p].last <= Len(Branch[p])

NumbersCounted == \A r \in rows : r.number <= stored

AtPart == {"propose", "insert", "recheck"}

Poised ==
  \A p \in Process :
    /\ pass[p].at \in AtPart => Untagged(p) # {}
    /\ pass[p].at = "insert" => pass[p].next # 0

TagInv ==
  /\ TagTypeOK
  /\ WireOnBranch
  /\ NumbersCounted
  /\ NumberNamesOne
  /\ Poised

Mem     == [counter : Nat, bound : [Part -> Nat], floor : Nat \cup {None}]
Pass    == [at    : {"idle", "load", "tag", "propose", "insert", "recheck"},
            floor : Nat, next : Nat, tries : 0 .. (Retries - 1)]
Place   == [head : Nat \ {0}, last : Nat]

LEMMA NumbersBounded ==
  ASSUME TagInv, NEW e
  PROVE  NumbersOf(e) \in SUBSET (Nat \ {0}) /\ \A n \in NumbersOf(e) : n <= stored
BY DEF TagInv, TagTypeOK, NumbersCounted, NumbersOf, Row

LEMMA LookupFinds ==
  ASSUME TagInv, NEW e
  PROVE  /\ Lookup(e) \in Nat /\ Lookup(e) <= stored
         /\ Lookup(e) # 0 => [number |-> Lookup(e), part |-> e] \in rows
<1>1. CASE NumbersOf(e) = {}
  BY <1>1 DEF Lookup, TagInv, TagTypeOK
<1>2. CASE NumbersOf(e) # {}
  <2>1. Lookup(e) \in NumbersOf(e)
    BY <1>2, NumbersBounded, MinOfNumbers DEF Lookup
  <2>2. PICK r \in rows : r.part = e /\ r.number = Lookup(e)
    BY <2>1 DEF NumbersOf
  <2>3. r = [number |-> Lookup(e), part |-> e]
    BY <2>2 DEF TagInv, TagTypeOK, Row
  <2>4. Lookup(e) \in Nat /\ Lookup(e) <= stored
    BY <2>1, NumbersBounded
  <2> QED BY <2>2, <2>3, <2>4
<1> QED BY <1>1, <1>2

LEMMA MaxNumberTyped ==
  ASSUME TagInv
  PROVE  MaxNumber \in Nat
<1> DEFINE S == {r.number : r \in rows} \cup {0}
<1>1. S \in SUBSET Nat /\ S # {} /\ stored \in Nat /\ \A n \in S : n <= stored
  BY DEF TagInv, TagTypeOK, NumbersCounted, Row
<1>2. Max(S) \in S
  <2> HIDE DEF S
  <2> QED BY <1>1, MaxOfNumbers
<1> QED BY <1>1, <1>2 DEF MaxNumber

(* What a reload binds is a row.                                           *)
LEMMA LoadedFinds ==
  ASSUME TagInv, NEW floor \in Nat, NEW e \in Part
  PROVE  /\ Loaded(floor)[e] \in Nat
         /\ Loaded(floor)[e] # 0 => [number |-> Loaded(floor)[e], part |-> e] \in rows
<1> DEFINE S == {n \in NumbersOf(e) : n >= floor} \cup {0}
<1>1. S \in SUBSET Nat /\ S # {} /\ stored \in Nat /\ \A n \in S : n <= stored
  BY NumbersBounded DEF TagInv, TagTypeOK
<1>2. Max(S) \in S
  <2> HIDE DEF S
  <2> QED BY <1>1, MaxOfNumbers
<1>3. Loaded(floor)[e] = Max(S)
  BY DEF Loaded
<1>4. ASSUME Max(S) # 0
      PROVE  [number |-> Max(S), part |-> e] \in rows
  <2>1. PICK r \in rows : r.part = e /\ r.number = Max(S)
    BY <1>2, <1>4 DEF NumbersOf
  <2> HIDE DEF S
  <2>2. r = [number |-> Max(S), part |-> e]
    BY <2>1 DEF TagInv, TagTypeOK, Row
  <2> QED BY <2>1, <2>2
<1> HIDE DEF S
<1> QED BY <1>1, <1>2, <1>3, <1>4

LEMMA FloorTyped ==
  ASSUME TagInv, NEW p \in Process
  PROVE  Floor(p) \in Nat
<1> DEFINE tagged == {i \in wire[p].head .. wire[p].last :
                        Branch[p][i] \notin Tools /\ NumbersOf(Branch[p][i]) # {}}
<1>1. tagged \in SUBSET Nat
  BY DEF TagInv, TagTypeOK
<1>2. CASE tagged = {}
  BY <1>2 DEF Floor
<1>3. CASE tagged # {}
  <2>1. Min(tagged) \in tagged
    <3> HIDE DEF tagged
    <3> QED BY <1>1, <1>3, MinOfNumbers
  <2> DEFINE N == NumbersOf(Branch[p][Min(tagged)])
  <2>2. N # {} /\ N \in SUBSET Nat
    <3>1. N # {}
      BY <2>1
    <3> QED BY <3>1, NumbersBounded
  <2>3. Min(N) \in Nat
    <3> HIDE DEF N
    <3> QED BY <2>2, MinOfNumbers
  <2>4. Floor(p) = Greater(Min(N) - Margin, 0)
    BY <1>3 DEF Floor
  <2> HIDE DEF N
  <2> QED BY <2>3, <2>4, TagAssumption DEF Greater
<1> QED BY <1>2, <1>3

(* The part a pass is at is a part.                                        *)
LEMMA CurrentIsPart ==
  ASSUME TagInv, NEW p \in Process, Untagged(p) # {}
  PROVE  Current(p) \in Part
<1>1. Untagged(p) \in SUBSET Nat
  BY DEF Untagged, TagInv, TagTypeOK
<1>2. Min(Untagged(p)) \in Untagged(p)
  BY <1>1, MinOfNumbers
<1>3. Branch[p] \in Seq(Part)
  BY TagAssumption
<1>4. wire[p].head \in Nat \ {0} /\ wire[p].last \in Nat /\ wire[p].last <= Len(Branch[p])
  BY DEF TagInv, TagTypeOK, WireOnBranch
<1>5. Min(Untagged(p)) \in wire[p].head .. wire[p].last
  BY <1>2 DEF Untagged
<1> DEFINE i == Min(Untagged(p))
<1>6. i \in 1 .. Len(Branch[p])
  <2>1. Len(Branch[p]) \in Nat
    BY <1>3
  <2> HIDE DEF i
  <2>2. i \in wire[p].head .. wire[p].last
    BY <1>5 DEF i
  <2> QED BY <2>1, <2>2, <1>4
<1>7. Branch[p][i] \in Part
  <2> HIDE DEF i
  <2> QED BY <1>3, <1>6
<1> QED BY <1>7 DEF Current
-----------------------------------------------------------------------------
(* Init establishes the invariant.                                         *)

LEMMA InitTag == Init => TagInv
<1> SUFFICES ASSUME Init PROVE TagInv
  OBVIOUS
<1>1. NoPass \in Pass
  <2>1. 0 \in 0 .. (Retries - 1)
    BY TagAssumption
  <2> QED BY <2>1 DEF NoPass, Pass
<1>2. Forgotten \in Mem
  BY DEF Forgotten, Unbound, Mem
<1>3. TagTypeOK
  BY <1>1, <1>2, TagAssumption DEF Init, TagTypeOK, Pass, Mem
<1>4. WireOnBranch
  <2>1. SUFFICES ASSUME NEW p \in Process PROVE wire[p].last <= Len(Branch[p])
    BY DEF WireOnBranch
  <2>2. Branch[p] \in Seq(Part)
    BY TagAssumption
  <2>3. Len(Branch[p]) \in Nat
    BY <2>2
  <2>4. wire[p].last = 0
    BY DEF Init
  <2> QED BY <2>3, <2>4
<1>5. NumberNamesOne
  BY DEF Init, NumberNamesOne, Forgotten, Unbound
<1>6. Poised
  BY DEF Init, Poised, NoPass, AtPart
<1> QED BY <1>3, <1>4, <1>5, <1>6 DEF TagInv, NumbersCounted, Init

-----------------------------------------------------------------------------
(* What a step does to the table: it adds rows and keeps its key.          *)

TableOK ==
  /\ rows \subseteq Row
  /\ stored \in Nat
  /\ NumbersCounted
  /\ \A r, s \in rows : r.number = s.number => r = s

LEMMA TableStays ==
  ASSUME TagInv
  PROVE  TableOK
BY DEF TagInv, TagTypeOK, NumberNamesOne, TableOK

LEMMA TableUntouched ==
  ASSUME TagInv, UNCHANGED <<rows, stored>>
  PROVE  TableOK' /\ rows \subseteq rows'
<1>1. TableOK
  BY TableStays
<1> QED BY <1>1 DEF TableOK, NumbersCounted

LEMMA TableCounts ==
  ASSUME TagInv, rows' = rows, NEW c \in Nat, stored' = Greater(stored, c)
  PROVE  TableOK' /\ rows \subseteq rows'
<1>1. TableOK
  BY TableStays
<1>2. stored' \in Nat /\ stored' >= stored
  BY <1>1, GreaterTyped DEF TableOK
<1>3. NumbersCounted'
  BY <1>1, <1>2 DEF TableOK, NumbersCounted, Row
<1> QED BY <1>1, <1>2, <1>3 DEF TableOK

(* A step of a pass: the memory of the process becomes m and its pass new, *)
(* and what m binds are rows.                                              *)
LEMMA StepKeeps ==
  ASSUME TagInv, TableOK', rows \subseteq rows', wire' = wire,
         changed' \in [Process -> BOOLEAN], rare' \in 0 .. MaxRare,
         NEW p \in Process, NEW m \in Mem, NEW new \in Pass,
         mem' = [mem EXCEPT ![p] = m], pass' = [pass EXCEPT ![p] = new],
         \A e \in Part : m.bound[e] # 0 => [number |-> m.bound[e], part |-> e] \in rows',
         new.at \in AtPart => m.bound = mem[p].bound /\ Untagged(p) # {},
         new.at = "insert" => new.next # 0
  PROVE  TagInv'
<1>1. mem \in [Process -> Mem] /\ pass \in [Process -> Pass]
  BY DEF TagInv, TagTypeOK, Mem, Pass
<1>2. mem' \in [Process -> Mem] /\ pass' \in [Process -> Pass]
  BY <1>1
<1>3. TagTypeOK'
  BY <1>2 DEF TagInv, TagTypeOK, TableOK, Mem, Pass
<1>4. WireOnBranch'
  BY DEF TagInv, WireOnBranch
<1>5. NumberNamesOne'
  <2>1. \A r, s \in rows' : r.number = s.number => r = s
    BY DEF TableOK
  <2>2. ASSUME NEW q \in Process, NEW e \in Part, mem'[q].bound[e] # 0
        PROVE  [number |-> mem'[q].bound[e], part |-> e] \in rows'
    <3>1. CASE q = p
      BY <1>1, <2>2, <3>1
    <3>2. CASE q # p
      <4>1. mem'[q] = mem[q]
        BY <1>1, <3>2
      <4> QED BY <2>2, <4>1 DEF TagInv, NumberNamesOne
    <3> QED BY <3>1, <3>2
  <2> QED BY <2>1, <2>2 DEF NumberNamesOne
<1>6. Poised'
  <2>1. SUFFICES ASSUME NEW q \in Process
                 PROVE  /\ pass'[q].at \in AtPart => Untagged(q)' # {}
                        /\ pass'[q].at = "insert" => pass'[q].next # 0
    BY DEF Poised
  <2>2. CASE q = p
    <3>1. pass'[q] = new /\ mem'[q] = m
      BY <1>1, <2>2
    <3>2. m.bound = mem[p].bound => Untagged(q)' = Untagged(q)
      BY <2>2, <3>1 DEF Untagged
    <3> QED BY <2>2, <3>1, <3>2
  <2>3. CASE q # p
    <3>1. pass'[q] = pass[q] /\ mem'[q] = mem[q]
      BY <1>1, <2>3
    <3>2. Untagged(q)' = Untagged(q)
      BY <3>1 DEF Untagged
    <3> QED BY <3>1, <3>2 DEF TagInv, Poised
  <2> QED BY <2>2, <2>3
<1> QED BY <1>3, <1>4, <1>5, <1>6 DEF TagInv, TableOK

(* A step that reads: only the pass moves.                                 *)
LEMMA ReadKeeps ==
  ASSUME TagInv, UNCHANGED <<rows, stored, mem, wire>>,
         changed' \in [Process -> BOOLEAN], rare' \in 0 .. MaxRare,
         NEW p \in Process, NEW new \in Pass, pass' = [pass EXCEPT ![p] = new],
         new.at \in AtPart => Untagged(p) # {},
         new.at = "insert" => new.next # 0
  PROVE  TagInv'
<1>1. TableOK' /\ rows \subseteq rows'
  BY TableUntouched
<1>2. mem \in [Process -> Mem]
  BY DEF TagInv, TagTypeOK, Mem
<1>3. mem[p] \in Mem /\ mem' = [mem EXCEPT ![p] = mem[p]]
  BY <1>2
<1>4. \A e \in Part : mem[p].bound[e] # 0 => [number |-> mem[p].bound[e], part |-> e] \in rows'
  BY DEF TagInv, NumberNamesOne
<1> QED BY <1>1, <1>3, <1>4, StepKeeps

(* The pass of a process that starts to walk, or has ended.                *)
LEMMA FreshPass ==
  /\ Walking \in Pass /\ Walking.at = "tag"
  /\ NoPass \in Pass /\ NoPass.at = "idle"
<1>1. 0 \in 0 .. (Retries - 1)
  BY TagAssumption
<1>2. NoPass \in Pass /\ NoPass.at = "idle"
  BY <1>1 DEF NoPass, Pass
<1> QED BY <1>2 DEF Walking, Pass
-----------------------------------------------------------------------------
(* One lemma per action.                                                   *)

LEMMA WireKeeps ==
  ASSUME TagInv, UNCHANGED <<rows, stored, mem, pass, changed>>,
         rare' \in 0 .. MaxRare,
         NEW p \in Process, pass[p].at = "idle",
         NEW at \in Place, at.last <= Len(Branch[p]),
         wire' = [wire EXCEPT ![p] = at]
  PROVE  TagInv'
<1>1. wire \in [Process -> Place]
  BY DEF TagInv, TagTypeOK, Place
<1>2. wire' \in [Process -> Place]
  BY <1>1
<1>3. TagTypeOK'
  BY <1>2 DEF TagInv, TagTypeOK, Place
<1>4. WireOnBranch'
  BY <1>1 DEF TagInv, WireOnBranch
<1>5. TableOK'
  BY TableUntouched
<1>6. NumberNamesOne'
  BY DEF TagInv, NumberNamesOne
<1>7. Poised'
  <2>1. SUFFICES ASSUME NEW q \in Process
                 PROVE  /\ pass'[q].at \in AtPart => Untagged(q)' # {}
                        /\ pass'[q].at = "insert" => pass'[q].next # 0
    BY DEF Poised
  <2>2. CASE q = p
    BY <2>2 DEF AtPart
  <2>3. CASE q # p
    <3>1. wire'[q] = wire[q]
      BY <1>1, <2>3
    <3>2. Untagged(q)' = Untagged(q)
      BY <3>1 DEF Untagged
    <3> QED BY <3>2 DEF TagInv, Poised
  <2> QED BY <2>2, <2>3
<1> QED BY <1>3, <1>4, <1>5, <1>6, <1>7 DEF TagInv, TableOK

LEMMA Values ==
  ASSUME TagInv, NEW p \in Process
  PROVE  /\ mem[p] \in Mem
         /\ pass[p] \in Pass
         /\ wire[p] \in Place
         /\ changed \in [Process -> BOOLEAN]
         /\ rare \in 0 .. MaxRare /\ MaxRare \in Nat
         /\ stored \in Nat
BY TagAssumption DEF TagInv, TagTypeOK, Mem, Pass, Place

LEMMA RareCounts ==
  ASSUME TagInv, rare < MaxRare
  PROVE  rare + 1 \in 0 .. MaxRare
BY TagAssumption DEF TagInv, TagTypeOK

LEMMA CommitsTyped ==
  ASSUME TagInv, NEW p \in Process, Commits(p)
  PROVE  changed' \in [Process -> BOOLEAN]
BY DEF Commits, TagInv, TagTypeOK

LEMMA GrowKeeps ==
  ASSUME TagInv, NEW p \in Process, Grow(p)
  PROVE  TagInv'
<1> DEFINE at == [wire[p] EXCEPT !.last = @ + 1]
<1>1. at \in Place
  BY Values DEF Place
<1>2. wire' = [wire EXCEPT ![p] = at]
  BY DEF Grow
<1>3. at.last <= Len(Branch[p])
  <2>1. Branch[p] \in Seq(Part)
    BY TagAssumption
  <2>2. wire[p].last + 1 \in 1 .. Len(Branch[p])
    BY <2>1 DEF Grow
  <2>3. at.last = wire[p].last + 1
    BY Values DEF Place
  <2>4. Len(Branch[p]) \in Nat
    BY <2>1
  <2> QED BY <2>2, <2>3, <2>4
<1>4. pass[p].at = "idle" /\ UNCHANGED <<rows, stored, mem, pass, changed>> /\ rare' \in 0 .. MaxRare
  BY Values DEF Grow
<1> HIDE DEF at
<1> QED BY <1>1, <1>2, <1>3, <1>4, WireKeeps

LEMMA MoveHeadKeeps ==
  ASSUME TagInv, NEW p \in Process, MoveHead(p)
  PROVE  TagInv'
<1>1. PICK k \in 1 .. wire[p].last : wire' = [wire EXCEPT ![p].head = k]
  BY DEF MoveHead
<1> DEFINE at == [wire[p] EXCEPT !.head = k]
<1>2. at \in Place
  <2>1. k \in Nat \ {0}
    BY Values DEF Place
  <2> QED BY <2>1, Values DEF Place
<1>3. wire' = [wire EXCEPT ![p] = at]
  BY <1>1
<1>4. at.last <= Len(Branch[p])
  <2>1. at.last = wire[p].last
    BY Values DEF Place
  <2> QED BY <2>1 DEF TagInv, WireOnBranch
<1>5. pass[p].at = "idle" /\ UNCHANGED <<rows, stored, mem, pass, changed>> /\ rare' \in 0 .. MaxRare
  BY RareCounts DEF MoveHead
<1> HIDE DEF at
<1> QED BY <1>2, <1>3, <1>4, <1>5, WireKeeps

LEMMA RestartKeeps ==
  ASSUME TagInv, NEW p \in Process, Restart(p)
  PROVE  TagInv'
<1>1. TableOK' /\ rows \subseteq rows'
  BY TableUntouched DEF Restart
<1>2. Forgotten \in Mem /\ \A e \in Part : Forgotten.bound[e] = 0
  BY DEF Forgotten, Unbound, Mem
<1>3. changed' \in [Process -> BOOLEAN]
  BY Values DEF Restart
<1>4. /\ wire' = wire /\ rare' \in 0 .. MaxRare
      /\ mem' = [mem EXCEPT ![p] = Forgotten]
      /\ pass' = [pass EXCEPT ![p] = NoPass]
  BY RareCounts DEF Restart
<1>5. NoPass.at \notin AtPart /\ NoPass.at # "insert" /\ NoPass \in Pass
  BY FreshPass DEF AtPart
<1> QED BY <1>1, <1>2, <1>3, <1>4, <1>5, StepKeeps

LEMMA BeginKeeps ==
  ASSUME TagInv, NEW p \in Process, Begin(p)
  PROVE  TagInv'
<1>1. UNCHANGED <<rows, stored, mem, wire>> /\ rare' \in 0 .. MaxRare
  BY Values DEF Begin
<1>2. CASE Outdated(p)
  <2> DEFINE new == [pass[p] EXCEPT !.at = "load", !.floor = Floor(p)]
  <2>1. pass' = [pass EXCEPT ![p] = new]
    BY <1>2 DEF Begin
  <2>2. new \in Pass /\ new.at = "load"
    BY Values, FloorTyped DEF Pass
  <2>3. changed' \in [Process -> BOOLEAN]
    BY <1>2, Values DEF Begin
  <2>4. new.at \notin AtPart /\ new.at # "insert"
    BY <2>2 DEF AtPart
  <2> HIDE DEF new
  <2> QED BY <1>1, <2>1, <2>2, <2>3, <2>4, ReadKeeps
<1>3. CASE ~Outdated(p)
  <2>1. pass' = [pass EXCEPT ![p] = Walking]
    BY <1>3 DEF Begin, Walks
  <2>2. changed' \in [Process -> BOOLEAN]
    BY <1>3, Values DEF Begin
  <2>3. Walking.at \notin AtPart /\ Walking.at # "insert" /\ Walking \in Pass
    BY FreshPass DEF AtPart
  <2> QED BY <1>1, <2>1, <2>2, <2>3, ReadKeeps
<1> QED BY <1>2, <1>3

LEMMA LoadKeeps ==
  ASSUME TagInv, NEW p \in Process, Load(p)
  PROVE  TagInv'
<1> DEFINE floor == pass[p].floor
           C == {mem[p].counter, stored} \cup {r.number : r \in {s \in rows : s.number >= floor}}
           m == [mem[p] EXCEPT !.bound = Loaded(floor), !.counter = Max(C), !.floor = floor]
<1>1. floor \in Nat
  BY Values DEF Pass
<1>2. Max(C) \in Nat
  <2>1. mem[p].counter \in Nat /\ stored \in Nat
    BY Values DEF Mem
  <2>2. C \in SUBSET Nat /\ C # {}
    BY <2>1 DEF TagInv, TagTypeOK, Row
  <2> DEFINE b == mem[p].counter + stored
  <2>3. \A r \in rows : r.number \in Nat /\ r.number <= stored
    BY DEF TagInv, TagTypeOK, NumbersCounted, Row
  <2>4. b \in Nat /\ \A n \in C : n <= b
    BY <2>1, <2>3
  <2> HIDE DEF b, C
  <2>5. Max(C) \in C
    BY <2>2, <2>4, MaxOfNumbers
  <2> QED BY <2>2, <2>5
<1>3. m \in Mem /\ m.bound = Loaded(floor)
  <2>1. Loaded(floor) \in [Part -> Nat]
    <3>1. \A e \in Part : Loaded(floor)[e] \in Nat
      <4> HIDE DEF floor
      <4> QED BY <1>1, LoadedFinds
    <3> QED BY <3>1 DEF Loaded
  <2>2. mem[p] \in Mem
    BY Values
  <2> DEFINE c == Max(C)
             l == Loaded(floor)
  <2>3. c \in Nat /\ l \in [Part -> Nat] /\ floor \in Nat
    BY <1>1, <1>2, <2>1
  <2> HIDE DEF C, floor, c, l
  <2>4. [mem[p] EXCEPT !.bound = l, !.counter = c, !.floor = floor] \in Mem
    BY <2>2, <2>3 DEF Mem
  <2>5. [mem[p] EXCEPT !.bound = l, !.counter = c, !.floor = floor].bound = l
    BY <2>2 DEF Mem
  <2> QED BY <2>4, <2>5 DEF c, l
<1>4. mem' = [mem EXCEPT ![p] = m]
  BY DEF Load
<1>5. TableOK' /\ rows \subseteq rows'
  BY TableUntouched DEF Load
<1>6. \A e \in Part : m.bound[e] # 0 => [number |-> m.bound[e], part |-> e] \in rows'
  <2>1. m.bound = Loaded(floor) /\ rows' = rows
    BY <1>3 DEF Load
  <2> HIDE DEF floor, m
  <2> QED BY <1>1, <2>1, LoadedFinds
<1>7. /\ wire' = wire /\ rare' \in 0 .. MaxRare /\ changed' \in [Process -> BOOLEAN]
      /\ pass' = [pass EXCEPT ![p] = Walking]
  BY Values DEF Load, Walks
<1>8. Walking.at \notin AtPart /\ Walking.at # "insert" /\ Walking \in Pass
  BY FreshPass DEF AtPart
<1> HIDE DEF m
<1> QED BY <1>3, <1>4, <1>5, <1>6, <1>7, <1>8, StepKeeps

LEMMA DoneKeeps ==
  ASSUME TagInv, NEW p \in Process, Done(p)
  PROVE  TagInv'
<1>1. /\ UNCHANGED <<rows, stored, mem, wire>> /\ rare' \in 0 .. MaxRare
      /\ changed' \in [Process -> BOOLEAN] /\ pass' = [pass EXCEPT ![p] = NoPass]
  BY Values DEF Done
<1>2. NoPass.at \notin AtPart /\ NoPass.at # "insert" /\ NoPass \in Pass
  BY FreshPass DEF AtPart
<1> QED BY <1>1, <1>2, ReadKeeps
(* A binding to a row of the table after the step, and the counter with it.*)
LEMMA BindKeeps ==
  ASSUME TagInv, NEW p \in Process, NEW e \in Part, NEW n \in Nat, NEW counter \in Nat,
         Bind(p, e, n, counter), Walks(p), wire' = wire,
         changed' \in [Process -> BOOLEAN], rare' = rare,
         TableOK', rows \subseteq rows', [number |-> n, part |-> e] \in rows'
  PROVE  TagInv'
<1> DEFINE m == [mem[p] EXCEPT !.bound[e] = n, !.counter = counter]
<1>1. mem[p] \in Mem
  BY Values
<1>2. m \in Mem
  BY <1>1 DEF Mem
<1>3. m.bound = [mem[p].bound EXCEPT ![e] = n]
  BY <1>1 DEF Mem
<1>4. mem' = [mem EXCEPT ![p] = m]
  BY DEF Bind
<1>5. ASSUME NEW d \in Part, m.bound[d] # 0
      PROVE  [number |-> m.bound[d], part |-> d] \in rows'
  <2>1. mem[p].bound \in [Part -> Nat]
    BY <1>1 DEF Mem
  <2>2. CASE d = e
    BY <1>3, <2>1, <2>2
  <2>3. CASE d # e
    <3>1. m.bound[d] = mem[p].bound[d]
      BY <1>3, <2>1, <2>3
    <3> QED BY <1>5, <3>1 DEF TagInv, NumberNamesOne
  <2> QED BY <2>2, <2>3
<1>6. pass' = [pass EXCEPT ![p] = Walking] /\ rare' \in 0 .. MaxRare
  BY Values DEF Walks
<1>7. Walking.at \notin AtPart /\ Walking.at # "insert" /\ Walking \in Pass
  BY FreshPass DEF AtPart
<1> HIDE DEF m
<1> QED BY <1>2, <1>4, <1>5, <1>6, <1>7, StepKeeps

LEMMA AdoptKeeps ==
  ASSUME TagInv, NEW p \in Process, NEW e \in Part, Adopt(p, e)
  PROVE  TagInv'
<1> DEFINE n == Lookup(e)
           counter == Greater(mem[p].counter, n)
<1>1. n \in Nat /\ n # 0 /\ [number |-> n, part |-> e] \in rows
  BY LookupFinds DEF Adopt
<1>2. counter \in Nat
  <2>1. mem[p].counter \in Nat
    BY Values DEF Mem
  <2> HIDE DEF n
  <2> QED BY <1>1, <2>1, GreaterTyped
<1>3. /\ Bind(p, e, n, counter) /\ Walks(p) /\ Commits(p)
      /\ rows' = rows /\ wire' = wire /\ rare' = rare
      /\ stored' = Greater(stored, counter)
  BY DEF Adopt
<1> HIDE DEF n, counter
<1>4. TableOK' /\ rows \subseteq rows'
  BY <1>2, <1>3, TableCounts
<1>5. changed' \in [Process -> BOOLEAN]
  BY <1>3, CommitsTyped
<1> QED BY <1>1, <1>2, <1>3, <1>4, <1>5, BindKeeps

LEMMA LookUpKeeps ==
  ASSUME TagInv, NEW p \in Process, LookUp(p)
  PROVE  TagInv'
<1>1. Untagged(p) # {} /\ Current(p) \in Part
  BY CurrentIsPart DEF LookUp
<1>2. CASE Adopt(p, Current(p))
  BY <1>1, <1>2, AdoptKeeps
<1>3. CASE pass' = [pass EXCEPT ![p].at = "propose"] /\ UNCHANGED <<rows, stored, mem, wire, changed, rare>>
  <2> DEFINE new == [pass[p] EXCEPT !.at = "propose"]
  <2>1. new \in Pass /\ new.at = "propose"
    BY Values DEF Pass
  <2>2. pass' = [pass EXCEPT ![p] = new]
    BY <1>3
  <2>3. UNCHANGED <<rows, stored, mem, wire>> /\ changed' \in [Process -> BOOLEAN] /\ rare' \in 0 .. MaxRare
    BY <1>3, Values
  <2> HIDE DEF new
  <2> QED BY <1>1, <2>1, <2>2, <2>3, ReadKeeps
<1> QED BY <1>2, <1>3 DEF LookUp

LEMMA ProposeKeeps ==
  ASSUME TagInv, NEW p \in Process, Propose(p)
  PROVE  TagInv'
<1>1. NextNumber(p) \in Nat /\ NextNumber(p) # 0
  <2>1. mem[p].counter \in Nat
    BY Values DEF Mem
  <2>2. MaxNumber \in Nat
    BY MaxNumberTyped
  <2> QED BY <2>1, <2>2, GreaterTyped DEF NextNumber
<1>2. Untagged(p) # {}
  BY DEF Propose, TagInv, Poised, AtPart
<1> DEFINE n == NextNumber(p)
           new == [pass[p] EXCEPT !.at = "insert", !.next = n]
<1>3. new \in Pass /\ new.next = n
  <2>1. pass[p] \in Pass
    BY Values
  <2> HIDE DEF n
  <2> QED BY <1>1, <2>1 DEF Pass, n
<1>4. pass' = [pass EXCEPT ![p] = new]
  BY DEF Propose
<1>5. UNCHANGED <<rows, stored, mem, wire>> /\ changed' \in [Process -> BOOLEAN] /\ rare' \in 0 .. MaxRare
  BY Values DEF Propose
<1> HIDE DEF new
<1> QED BY <1>1, <1>2, <1>3, <1>4, <1>5, ReadKeeps

(* The key of the table holds through an insert that does not collide.     *)
LEMMA InsertKeeps ==
  ASSUME TagInv, NEW p \in Process, Insert(p)
  PROVE  TagInv'
<1> DEFINE n == pass[p].next
           e == Current(p)
           row == [number |-> n, part |-> e]
<1>1. n \in Nat \ {0}
  <2>1. n \in Nat
    BY Values DEF Pass
  <2>2. n # 0
    BY DEF Insert, TagInv, Poised
  <2> QED BY <2>1, <2>2
<1>2. e \in Part
  BY CurrentIsPart DEF Insert, TagInv, Poised, AtPart
<1>3. \A r \in rows : r.number # n
  BY DEF Insert, Collides
<1>4. /\ rows' = rows \cup {row} /\ stored' = Greater(stored, n)
      /\ Commits(p) /\ Bind(p, e, n, n) /\ Walks(p) /\ wire' = wire /\ rare' = rare
  BY DEF Insert
<1> HIDE DEF n, e
<1>5. row \in Row /\ row.number = n /\ row.part = e
  BY <1>1, <1>2 DEF Row
<1>6. TableOK
  BY TableStays
<1>7. TableOK'
  <2>1. rows' \subseteq Row
    BY <1>4, <1>5, <1>6 DEF TableOK
  <2>2. stored' \in Nat /\ stored' >= stored /\ stored' >= n
    BY <1>1, <1>4, <1>6, GreaterTyped DEF TableOK
  <2>3. NumbersCounted'
    <3>1. SUFFICES ASSUME NEW r \in rows' PROVE r.number <= stored'
      BY DEF NumbersCounted
    <3>2. CASE r \in rows
      BY <1>6, <2>2, <3>2 DEF TableOK, NumbersCounted, Row
    <3>3. CASE r = row
      BY <1>5, <2>2, <3>3
    <3> QED BY <1>4, <3>2, <3>3
  <2>4. \A r, s \in rows' : r.number = s.number => r = s
    BY <1>3, <1>4, <1>5, <1>6 DEF TableOK
  <2> QED BY <2>1, <2>2, <2>3, <2>4 DEF TableOK
<1>8. rows \subseteq rows' /\ row \in rows' /\ changed' \in [Process -> BOOLEAN]
  BY <1>4, CommitsTyped
<1> QED BY <1>1, <1>2, <1>4, <1>7, <1>8, BindKeeps

LEMMA CollideKeeps ==
  ASSUME TagInv, NEW p \in Process, Collide(p)
  PROVE  TagInv'
<1>1. Untagged(p) # {}
  BY DEF Collide, TagInv, Poised, AtPart
<1>2. UNCHANGED <<rows, stored, mem, wire>> /\ changed' \in [Process -> BOOLEAN] /\ rare' \in 0 .. MaxRare
  BY Values DEF Collide
<1>3. CASE p \in Recognises
  <2> DEFINE new == [pass[p] EXCEPT !.at = "recheck"]
  <2>1. new \in Pass /\ new.at = "recheck"
    BY Values DEF Pass
  <2>2. pass' = [pass EXCEPT ![p] = new]
    BY <1>3 DEF Collide
  <2> HIDE DEF new
  <2> QED BY <1>1, <1>2, <2>1, <2>2, ReadKeeps
<1>4. CASE p \notin Recognises
  <2>1. pass' = [pass EXCEPT ![p] = NoPass]
    BY <1>4 DEF Collide
  <2>2. NoPass.at \notin AtPart /\ NoPass.at # "insert" /\ NoPass \in Pass
    BY FreshPass DEF AtPart
  <2> QED BY <1>2, <2>1, <2>2, ReadKeeps
<1> QED BY <1>3, <1>4

LEMMA RefusedKeeps ==
  ASSUME TagInv, NEW p \in Process, Refused(p)
  PROVE  TagInv'
<1>1. /\ UNCHANGED <<rows, stored, mem, wire>> /\ rare' \in 0 .. MaxRare
      /\ changed' \in [Process -> BOOLEAN] /\ pass' = [pass EXCEPT ![p] = NoPass]
  BY Values, RareCounts DEF Refused
<1>2. NoPass.at \notin AtPart /\ NoPass.at # "insert" /\ NoPass \in Pass
  BY FreshPass DEF AtPart
<1> QED BY <1>1, <1>2, ReadKeeps

LEMMA RecheckKeeps ==
  ASSUME TagInv, NEW p \in Process, Recheck(p)
  PROVE  TagInv'
<1>1. Untagged(p) # {} /\ Current(p) \in Part
  BY CurrentIsPart DEF Recheck, TagInv, Poised, AtPart
<1>2. CASE Adopt(p, Current(p))
  BY <1>1, <1>2, AdoptKeeps
<1>3. CASE ~Adopt(p, Current(p))
  <2> DEFINE c == Greater(mem[p].counter, MaxNumber)
             m == [mem[p] EXCEPT !.counter = c]
             again == [NoPass EXCEPT !.at = "propose", !.tries = pass[p].tries + 1]
             new == IF pass[p].tries + 1 < Retries THEN again ELSE NoPass
  <2>1. mem[p] \in Mem /\ pass[p] \in Pass
    BY Values
  <2>2. c \in Nat
    BY <2>1, MaxNumberTyped, GreaterTyped DEF Mem
  <2>3. m \in Mem /\ m.bound = mem[p].bound
    <3> HIDE DEF c
    <3> QED BY <2>1, <2>2 DEF Mem
  <2>4. mem' = [mem EXCEPT ![p] = m] /\ pass' = [pass EXCEPT ![p] = new]
    BY <1>3 DEF Recheck
  <2>5. new \in Pass /\ new.at # "insert"
    <3>1. pass[p].tries \in Nat /\ Retries \in Nat
      BY <2>1, TagAssumption DEF Pass
    <3>2. CASE pass[p].tries + 1 < Retries
      <4>1. pass[p].tries + 1 \in 0 .. (Retries - 1)
        BY <3>1, <3>2
      <4>2. again \in Pass /\ again.at = "propose"
        BY <4>1, FreshPass DEF Pass
      <4> HIDE DEF again
      <4> QED BY <3>2, <4>2
    <3>3. CASE ~(pass[p].tries + 1 < Retries)
      BY <3>3, FreshPass
    <3> QED BY <3>2, <3>3
  <2>6. /\ UNCHANGED <<rows, stored>> /\ wire' = wire
        /\ changed' \in [Process -> BOOLEAN] /\ rare' \in 0 .. MaxRare
    BY <1>3, Values DEF Recheck
  <2>7. TableOK' /\ rows \subseteq rows'
    BY <2>6, TableUntouched
  <2>8. \A d \in Part : m.bound[d] # 0 => [number |-> m.bound[d], part |-> d] \in rows'
    <3> HIDE DEF m
    <3> QED BY <2>3, <2>6 DEF TagInv, NumberNamesOne
  <2> HIDE DEF m, new
  <2> QED BY <1>1, <2>3, <2>4, <2>5, <2>6, <2>7, <2>8, StepKeeps
<1> QED BY <1>2, <1>3

-----------------------------------------------------------------------------
(* Every step keeps the invariant.                                         *)

LEMMA NextKeeps == TagInv /\ [Next]_vars => TagInv'
<1> SUFFICES ASSUME TagInv, [Next]_vars PROVE TagInv'
  OBVIOUS
<1>1. CASE UNCHANGED vars
  BY <1>1 DEF vars, TagInv, TagTypeOK, WireOnBranch, NumbersCounted, NumberNamesOne,
              Poised, Untagged
<1>2. ASSUME NEW p \in Process, Tagging(p) PROVE TagInv'
  BY <1>2, BeginKeeps, LoadKeeps, DoneKeeps, LookUpKeeps, ProposeKeeps, InsertKeeps,
     CollideKeeps, RecheckKeeps DEF Tagging
<1>3. ASSUME NEW p \in Process, Grow(p) \/ MoveHead(p) \/ Restart(p) \/ Refused(p)
      PROVE  TagInv'
  BY <1>3, GrowKeeps, MoveHeadKeeps, RestartKeeps, RefusedKeeps
<1> QED BY <1>1, <1>2, <1>3 DEF Next

LEMMA TagInvariant == Spec => []TagInv
BY InitTag, NextKeeps, PTL DEF Spec

(* The tags table, the memory of every process and its pass have the       *)
(* values their declarations say, whatever the processes interleave.       *)
THEOREM TagTypes == Spec => []TagTypeOK
<1>1. TagInv => TagTypeOK
  BY DEF TagInv
<1> QED BY TagInvariant, <1>1, PTL

(* assignTag gives no number to two parts, and what a process has in       *)
(* memory is a row of that very part: for any number of processes, any     *)
(* retries, also when a driver does not recognise a collision and the pass *)
(* ends.                                                                   *)
THEOREM NumbersNameOne == Spec => []NumberNamesOne
<1>1. TagInv => NumberNamesOne
  BY DEF TagInv
<1> QED BY TagInvariant, <1>1, PTL

-----------------------------------------------------------------------------
(* The rows of a part: a process that is past its look-up of a part and    *)
(* has not inserted yet can still add a row, and nobody comes to stand     *)
(* there once the part has one.                                            *)

Pending(e) == {q \in Process : pass[q].at \in {"propose", "insert"} /\ Current(q) = e}

RowsInv ==
  \A e \in Part : Cardinality(NumbersOf(e)) + Cardinality(Pending(e)) <= Cardinality(Process)

LEMMA NumbersFinite ==
  ASSUME TagInv, NEW e
  PROVE  IsFiniteSet(NumbersOf(e)) /\ Cardinality(NumbersOf(e)) \in Nat
<1>1. stored \in Nat
  BY DEF TagInv, TagTypeOK
<1>2. IsFiniteSet(1 .. stored)
  BY <1>1, FS_Interval
<1>3. NumbersOf(e) \subseteq 1 .. stored
  BY <1>1, NumbersBounded
<1> QED BY <1>2, <1>3, FS_Subset, FS_CardinalityType

LEMMA PendingFinite ==
  ASSUME NEW e
  PROVE  /\ IsFiniteSet(Pending(e)) /\ Cardinality(Pending(e)) \in Nat
         /\ Cardinality(Pending(e)) <= Cardinality(Process)
         /\ Cardinality(Process) \in Nat
<1>1. IsFiniteSet(Process)
  BY TagAssumption
<1>2. Pending(e) \subseteq Process
  BY DEF Pending
<1> QED BY <1>1, <1>2, FS_Subset, FS_CardinalityType

LEMMA PendingFiniteNext ==
  ASSUME NEW e
  PROVE  /\ IsFiniteSet(Pending(e)') /\ Cardinality(Pending(e)') \in Nat
         /\ Cardinality(Pending(e)') <= Cardinality(Process)
<1>1. IsFiniteSet(Process)
  BY TagAssumption
<1>2. Pending(e)' \subseteq Process
  BY DEF Pending
<1> QED BY <1>1, <1>2, FS_Subset, FS_CardinalityType

(* A step is a step of one process.                                        *)
LEMMA OneMoves ==
  ASSUME TagInv, NEW p \in Process, NEW q \in Process, q # p,
         Tagging(p) \/ Grow(p) \/ MoveHead(p) \/ Restart(p) \/ Refused(p)
  PROVE  mem'[q] = mem[q] /\ pass'[q] = pass[q] /\ wire'[q] = wire[q]
<1>1. /\ mem \in [Process -> Mem] /\ pass \in [Process -> Pass]
      /\ wire \in [Process -> Place]
  BY DEF TagInv, TagTypeOK, Mem, Pass, Place
<1>2. CASE Begin(p)
  BY <1>1, <1>2 DEF Begin, Walks
<1>3. CASE Load(p)
  BY <1>1, <1>3 DEF Load, Walks
<1>4. CASE Done(p)
  BY <1>1, <1>4 DEF Done
<1>5. ASSUME NEW e, Adopt(p, e)
      PROVE  mem'[q] = mem[q] /\ pass'[q] = pass[q] /\ wire'[q] = wire[q]
  BY <1>1, <1>5 DEF Adopt, Bind, Walks
<1>6. CASE LookUp(p)
  BY <1>1, <1>5, <1>6 DEF LookUp
<1>7. CASE Propose(p)
  BY <1>1, <1>7 DEF Propose
<1>8. CASE Insert(p)
  BY <1>1, <1>8 DEF Insert, Bind, Walks
<1>9. CASE Collide(p)
  BY <1>1, <1>9 DEF Collide
<1>10. CASE Recheck(p)
  BY <1>1, <1>5, <1>10 DEF Recheck
<1>11. CASE Grow(p)
  BY <1>1, <1>11 DEF Grow
<1>12. CASE MoveHead(p)
  BY <1>1, <1>12 DEF MoveHead
<1>13. CASE Restart(p)
  BY <1>1, <1>13 DEF Restart
<1>14. CASE Refused(p)
  BY <1>1, <1>14 DEF Refused
<1> QED BY <1>2, <1>3, <1>4, <1>6, <1>7, <1>8, <1>9, <1>10, <1>11, <1>12, <1>13, <1>14 DEF Tagging

(* So nobody else comes to stand before an insert.                         *)
LEMMA OthersStay ==
  ASSUME NEW p \in Process, NEW e,
         \A q \in Process \ {p} : mem'[q] = mem[q] /\ pass'[q] = pass[q] /\ wire'[q] = wire[q]
  PROVE  Pending(e)' \subseteq Pending(e) \cup {p}
<1> SUFFICES ASSUME NEW q \in Pending(e)', q # p PROVE q \in Pending(e)
  OBVIOUS
<1>1. q \in Process /\ pass'[q].at \in {"propose", "insert"} /\ Current(q)' = e
  BY DEF Pending
<1>2. Untagged(q)' = Untagged(q)
  BY <1>1 DEF Untagged
<1>3. Current(q)' = Current(q)
  BY <1>2 DEF Current
<1> QED BY <1>1, <1>3 DEF Pending

(* A step that adds no row and sends nobody new to an insert.              *)
LEMMA PendingShrinks ==
  ASSUME TagInv, RowsInv, rows' = rows,
         \A e \in Part : Pending(e)' \subseteq Pending(e)
  PROVE  RowsInv'
<1> SUFFICES ASSUME NEW e \in Part
             PROVE  Cardinality(NumbersOf(e)') + Cardinality(Pending(e)') <= Cardinality(Process)
  BY DEF RowsInv
<1>1. NumbersOf(e)' = NumbersOf(e)
  BY DEF NumbersOf
<1>2. Cardinality(Pending(e)') <= Cardinality(Pending(e))
  BY PendingFinite, FS_Subset
<1>3. Cardinality(NumbersOf(e)) + Cardinality(Pending(e)) <= Cardinality(Process)
  BY DEF RowsInv
<1> QED BY <1>1, <1>2, <1>3, NumbersFinite, PendingFinite, PendingFiniteNext

(* A process that is not before an insert when the step is done.           *)
LEMMA StandsBack ==
  ASSUME TagInv, RowsInv, rows' = rows, NEW p \in Process,
         \A q \in Process \ {p} : mem'[q] = mem[q] /\ pass'[q] = pass[q] /\ wire'[q] = wire[q],
         pass'[p].at \notin {"propose", "insert"}
  PROVE  RowsInv'
<1>1. ASSUME NEW e \in Part PROVE Pending(e)' \subseteq Pending(e)
  <2>1. p \notin Pending(e)'
    BY DEF Pending
  <2> QED BY <2>1, OthersStay
<1> QED BY <1>1, PendingShrinks

(* A process that goes on to an insert found no row of its part.           *)
LEMMA StandsBefore ==
  ASSUME TagInv, RowsInv, rows' = rows, NEW p \in Process,
         \A q \in Process \ {p} : mem'[q] = mem[q] /\ pass'[q] = pass[q] /\ wire'[q] = wire[q],
         Current(p)' = Current(p), Lookup(Current(p)) = 0
  PROVE  RowsInv'
<1> SUFFICES ASSUME NEW e \in Part
             PROVE  Cardinality(NumbersOf(e)') + Cardinality(Pending(e)') <= Cardinality(Process)
  BY DEF RowsInv
<1>1. NumbersOf(e)' = NumbersOf(e)
  BY DEF NumbersOf
<1>2. CASE e = Current(p)
  <2>1. NumbersOf(e) = {}
    <3>1. NumbersOf(e) # {} => Min(NumbersOf(e)) \in NumbersOf(e)
      BY NumbersBounded, MinOfNumbers
    <3>2. \A n \in NumbersOf(e) : n # 0
      BY NumbersBounded
    <3> QED BY <1>2, <3>1, <3>2 DEF Lookup
  <2>2. Cardinality(NumbersOf(e)') = 0
    BY <1>1, <2>1, FS_EmptySet
  <2> QED BY <2>2, PendingFinite, PendingFiniteNext
<1>3. CASE e # Current(p)
  <2>1. p \notin Pending(e)'
    BY <1>3 DEF Pending
  <2>2. Pending(e)' \subseteq Pending(e)
    BY <2>1, OthersStay
  <2>3. Cardinality(Pending(e)') <= Cardinality(Pending(e))
    BY <2>2, PendingFinite, FS_Subset
  <2>4. Cardinality(NumbersOf(e)) + Cardinality(Pending(e)) <= Cardinality(Process)
    BY DEF RowsInv
  <2> QED BY <1>1, <2>3, <2>4, NumbersFinite, PendingFinite, PendingFiniteNext
<1> QED BY <1>2, <1>3

(* An insert adds its one row and takes its process out of the race.       *)
LEMMA InsertCounts ==
  ASSUME TagInv, RowsInv, NEW p \in Process, Insert(p)
  PROVE  RowsInv'
<1> SUFFICES ASSUME NEW e \in Part
             PROVE  Cardinality(NumbersOf(e)') + Cardinality(Pending(e)') <= Cardinality(Process)
  BY DEF RowsInv
<1>1. \A q \in Process \ {p} : mem'[q] = mem[q] /\ pass'[q] = pass[q] /\ wire'[q] = wire[q]
  BY OneMoves DEF Tagging
<1>2. p \notin Pending(e)'
  <2>1. pass \in [Process -> Pass]
    BY DEF TagInv, TagTypeOK, Pass
  <2>2. pass'[p].at = "tag"
    BY <2>1, FreshPass DEF Insert, Walks
  <2> QED BY <2>2 DEF Pending
<1>3. Pending(e)' \subseteq Pending(e) \ {p}
  BY <1>1, <1>2, OthersStay
<1>4. Cardinality(NumbersOf(e)) + Cardinality(Pending(e)) <= Cardinality(Process)
  BY DEF RowsInv
<1>5. rows' = rows \cup {[number |-> pass[p].next, part |-> Current(p)]}
  BY DEF Insert
<1>6. CASE e = Current(p)
  <2> DEFINE n == pass[p].next
             row == [number |-> n, part |-> e]
  <2>1. NumbersOf(e)' = NumbersOf(e) \cup {n}
    <3>1. rows' = rows \cup {row}
      BY <1>5, <1>6
    <3>2. row.number = n /\ row.part = e
      OBVIOUS
    <3> HIDE DEF n, row
    <3>3. NumbersOf(e)' = {r.number : r \in {s \in rows \cup {row} : s.part = e}}
      BY <3>1 DEF NumbersOf
    <3>4. {s \in rows \cup {row} : s.part = e} = {s \in rows : s.part = e} \cup {row}
      BY <3>2
    <3> QED BY <3>2, <3>3, <3>4 DEF NumbersOf
  <2>2. /\ Cardinality(NumbersOf(e)') <= Cardinality(NumbersOf(e)) + 1
        /\ Cardinality(NumbersOf(e)') \in Nat
    <3> DEFINE S == NumbersOf(e)
    <3>1. IsFiniteSet(S) /\ Cardinality(S) \in Nat
      BY NumbersFinite
    <3> HIDE DEF S, n
    <3>2. Cardinality(S \cup {n}) \in {Cardinality(S), Cardinality(S) + 1}
      BY <3>1, FS_AddElement
    <3>3. NumbersOf(e)' = S \cup {n}
      BY <2>1 DEF S
    <3> QED BY <3>1, <3>2, <3>3 DEF S
  <2>3. p \in Pending(e)
    BY <1>6 DEF Pending, Insert
  <2>4. Cardinality(Pending(e) \ {p}) = Cardinality(Pending(e)) - 1 /\ IsFiniteSet(Pending(e) \ {p})
    BY <2>3, PendingFinite, FS_RemoveElement
  <2>5. Cardinality(Pending(e)') <= Cardinality(Pending(e)) - 1
    BY <1>3, <2>4, FS_Subset
  <2> QED BY <1>4, <2>2, <2>5, NumbersFinite, PendingFinite, PendingFiniteNext
<1>7. CASE e # Current(p)
  <2>1. NumbersOf(e)' = NumbersOf(e)
    BY <1>5, <1>7 DEF NumbersOf
  <2>2. Cardinality(Pending(e)') <= Cardinality(Pending(e))
    BY <1>3, PendingFinite, FS_Subset
  <2> QED BY <1>4, <2>1, <2>2, NumbersFinite, PendingFinite, PendingFiniteNext
<1> QED BY <1>6, <1>7

LEMMA InitRows == Init => RowsInv
<1> SUFFICES ASSUME Init, NEW e \in Part
             PROVE  Cardinality(NumbersOf(e)) + Cardinality(Pending(e)) <= Cardinality(Process)
  BY DEF RowsInv
<1>1. NumbersOf(e) = {}
  BY DEF Init, NumbersOf
<1>2. Cardinality(NumbersOf(e)) = 0
  BY <1>1, FS_EmptySet
<1> QED BY <1>2, PendingFinite

LEMMA NextRows == TagInv /\ RowsInv /\ [Next]_vars => RowsInv'
<1> SUFFICES ASSUME TagInv, RowsInv, [Next]_vars PROVE RowsInv'
  OBVIOUS
<1>1. CASE UNCHANGED vars
  BY <1>1 DEF vars, RowsInv, NumbersOf, Pending, Current, Untagged
<1>2. CASE Next
  <2>1. PICK p \in Process : Tagging(p) \/ Grow(p) \/ MoveHead(p) \/ Restart(p) \/ Refused(p)
    BY <1>2 DEF Next
  <2>2. \A q \in Process \ {p} : mem'[q] = mem[q] /\ pass'[q] = pass[q] /\ wire'[q] = wire[q]
    BY <2>1, OneMoves
  <2>3. pass \in [Process -> Pass] /\ pass[p] \in Pass
    BY DEF TagInv, TagTypeOK, Pass
  <2>4. NoPass.at = "idle" /\ Walking.at = "tag"
    BY FreshPass
  <2>5. ASSUME rows' = rows, pass'[p].at \notin {"propose", "insert"} PROVE RowsInv'
    BY <2>2, <2>5, StandsBack
  <2>6. CASE Begin(p)
    <3>1. rows' = rows
      BY <2>6 DEF Begin
    <3>2. pass'[p].at \in {"load", "tag"}
      BY <2>3, <2>4, <2>6 DEF Begin, Walks, Pass
    <3> QED BY <2>5, <3>1, <3>2
  <2>7. CASE Load(p) \/ Done(p) \/ Restart(p) \/ Refused(p)
    BY <2>3, <2>4, <2>5, <2>7 DEF Load, Done, Restart, Refused, Walks
  <2>8. ASSUME NEW e, Adopt(p, e) PROVE RowsInv'
    BY <2>3, <2>4, <2>5, <2>8 DEF Adopt, Walks
  <2>9. CASE Grow(p) \/ MoveHead(p)
    BY <2>3, <2>5, <2>9 DEF Grow, MoveHead
  <2>10. CASE Collide(p)
    <3>1. rows' = rows
      BY <2>10 DEF Collide
    <3>2. pass'[p].at \in {"recheck", "idle"}
      BY <2>3, <2>4, <2>10 DEF Collide, Pass
    <3> QED BY <2>5, <3>1, <3>2
  <2>11. CASE LookUp(p)
    <3>1. CASE Adopt(p, Current(p))
      BY <2>8, <3>1
    <3>2. CASE Lookup(Current(p)) = 0 /\ UNCHANGED <<rows, stored, mem, wire, changed, rare>>
      <4>1. Current(p)' = Current(p)
        BY <3>2 DEF Current, Untagged
      <4> QED BY <2>2, <3>2, <4>1, StandsBefore
    <3> QED BY <2>11, <3>1, <3>2 DEF LookUp
  <2>12. CASE Recheck(p)
    <3>1. CASE Adopt(p, Current(p))
      BY <2>8, <3>1
    <3>2. CASE ~Adopt(p, Current(p))
      <4>1. /\ Lookup(Current(p)) = 0 /\ rows' = rows /\ wire' = wire
            /\ mem' = [mem EXCEPT ![p].counter = Greater(@, MaxNumber)]
        BY <2>12, <3>2 DEF Recheck
      <4>2. mem \in [Process -> Mem]
        BY DEF TagInv, TagTypeOK, Mem
      <4>3. mem'[p].bound = mem[p].bound
        BY <4>1, <4>2 DEF Mem
      <4>4. Current(p)' = Current(p)
        BY <4>1, <4>3 DEF Current, Untagged
      <4> QED BY <2>2, <4>1, <4>4, StandsBefore
    <3> QED BY <3>1, <3>2
  <2>13. CASE Propose(p)
    <3>1. rows' = rows /\ UNCHANGED <<mem, wire>> /\ pass[p].at = "propose"
      BY <2>13 DEF Propose
    <3>2. Current(p)' = Current(p)
      BY <3>1 DEF Current, Untagged
    <3>3. ASSUME NEW e \in Part PROVE Pending(e)' \subseteq Pending(e)
      <4>1. p \in Pending(e)' => p \in Pending(e)
        BY <3>1, <3>2 DEF Pending
      <4> QED BY <2>2, <4>1, OthersStay
    <3> QED BY <3>1, <3>3, PendingShrinks
  <2>14. CASE Insert(p)
    BY <2>14, InsertCounts
  <2> QED BY <2>1, <2>6, <2>7, <2>9, <2>10, <2>11, <2>12, <2>13, <2>14 DEF Tagging
<1> QED BY <1>1, <1>2

(* A part gets at most one row from each process, whatever restarts,       *)
(* reloads, moved heads, refused writes and retries come between, and in   *)
(* whatever order the look-ups and the inserts of the processes fall.      *)
THEOREM RowsStayFew == Spec => []RowsAreFew
<1>1. RowsInv /\ TagInv => RowsAreFew
  <2> SUFFICES ASSUME RowsInv, TagInv, NEW e \in Part
               PROVE  Cardinality(NumbersOf(e)) <= Cardinality(Process)
    BY DEF RowsAreFew
  <2> QED BY NumbersFinite, PendingFinite DEF RowsInv
<1>2. Spec => []RowsInv
  BY InitRows, NextRows, TagInvariant, PTL DEF Spec
<1> QED BY <1>1, <1>2, TagInvariant, PTL
=============================================================================
