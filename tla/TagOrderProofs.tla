---------------------------- MODULE TagOrderProofs ----------------------------
(***************************************************************************)
(* The order of the numbers: proofs that parts are numbered along the      *)
(* branches of the session tree, and that a load by the floor, which       *)
(* relies on that order, leaves out no message of the wire.                *)
(***************************************************************************)
EXTENDS TagStoreProofs

(* A part is numbered only when all the parts before it are.               *)
PrefixTagged ==
  \A p \in Process : \A j \in DOMAIN Branch[p] :
    NumbersOf(Branch[p][j]) # {} => \A i \in 1 .. j - 1 : NumbersOf(Branch[p][i]) # {}

HeadTagged ==
  \A p \in Process : \A i \in 1 .. wire[p].head - 1 : NumbersOf(Branch[p][i]) # {}

(* A number about to be inserted is above those of the parts before it,    *)
(* although other processes wrote since it was proposed.                   *)
NextAboveOf(p) ==
  pass[p].at = "insert" =>
    \A i \in 1 .. Min(Untagged(p)) - 1 : Lookup(Branch[p][i]) < pass[p].next

NextAbove == \A p \in Process : NextAboveOf(p)

(* The floor of a load is a number of the table or below one, and a        *)
(* message of the wire that is numbered has a number the load reads.       *)
FloorCountedOf(p) ==
  pass[p].at = "load" => pass[p].floor = 0 \/ \E r \in rows : pass[p].floor <= r.number

FloorBelowOf(p) ==
  pass[p].at = "load" =>
    \A e \in Wire(p) \ Tools :
      NumbersOf(e) # {} => \E n \in NumbersOf(e) : n >= pass[p].floor

FloorRead == \A p \in Process : FloorCountedOf(p) /\ FloorBelowOf(p)

(* So has one that another process is about to number.                     *)
PoisedFloorOf(p, q) ==
  /\ pass[p].at = "load" /\ pass[q].at = "insert"
  /\ Current(q) \in Wire(p) \ Tools /\ NumbersOf(Current(q)) = {}
  => pass[q].next >= pass[p].floor

PoisedFloor == \A p, q \in Process : PoisedFloorOf(p, q)

OrderInv ==
  PrefixTagged /\ HeadTagged /\ NumbersFollowBranch /\ NextAbove /\ FloorRead /\ PoisedFloor
-----------------------------------------------------------------------------
(* Places on a branch.                                                     *)
LEMMA TreePlace ==
  ASSUME NEW p \in Process, NEW q \in Process, NEW i \in DOMAIN Branch[p],
         NEW j \in DOMAIN Branch[q], Branch[p][i] = Branch[q][j]
  PROVE  i = j /\ \A k \in 1 .. i : Branch[p][k] = Branch[q][k]
BY TreeAssumption

(* The positions of a wire are positions of its branch, and parts are theirs. *)
LEMMA Places ==
  ASSUME TagInv, NEW p \in Process
  PROVE  /\ DOMAIN Branch[p] = 1 .. Len(Branch[p]) /\ Len(Branch[p]) \in Nat
         /\ wire[p].head \in Nat \ {0} /\ wire[p].last \in Nat
         /\ wire[p].last <= Len(Branch[p])
         /\ \A i \in wire[p].head .. wire[p].last : i \in DOMAIN Branch[p]
         /\ \A i \in DOMAIN Branch[p] : Branch[p][i] \in Part
<1>1. Branch[p] \in Seq(Part)
  BY TagAssumption
<1>2. DOMAIN Branch[p] = 1 .. Len(Branch[p]) /\ Len(Branch[p]) \in Nat
  BY <1>1
<1>3. wire[p].head \in Nat \ {0} /\ wire[p].last \in Nat /\ wire[p].last <= Len(Branch[p])
  BY DEF TagInv, TagTypeOK, WireOnBranch
<1>4. \A i \in DOMAIN Branch[p] : Branch[p][i] \in Part
  BY <1>1
<1> QED BY <1>2, <1>3, <1>4

(* The part a pass is at, and its place on the branch.                     *)
LEMMA CurrentPlace ==
  ASSUME TagInv, NEW p \in Process, Untagged(p) # {}, NEW i, i = Min(Untagged(p))
  PROVE  /\ i \in DOMAIN Branch[p] /\ i \in wire[p].head .. wire[p].last
         /\ Current(p) = Branch[p][i]
         /\ \A k \in wire[p].head .. i - 1 : mem[p].bound[Branch[p][k]] # 0
<1>1. wire[p].head \in Nat \ {0} /\ wire[p].last \in Nat
  BY Places
<1>2. Untagged(p) \in SUBSET Nat
  BY <1>1 DEF Untagged
<1>3. i \in Untagged(p) /\ \A k \in Untagged(p) : i <= k
  BY <1>2, MinOfNumbers
<1>4. i \in wire[p].head .. wire[p].last
  BY <1>3 DEF Untagged
<1>5. ASSUME NEW k \in wire[p].head .. i - 1 PROVE mem[p].bound[Branch[p][k]] # 0
  <2>1. k \in wire[p].head .. wire[p].last /\ ~(i <= k)
    BY <1>1, <1>4
  <2> QED BY <1>3, <2>1 DEF Untagged
<1> QED BY <1>4, <1>5, Places DEF Current

(* The parts before the one a pass is at are numbered.                     *)
LEMMA PathTagged ==
  ASSUME TagInv, HeadTagged, NEW p \in Process, Untagged(p) # {},
         NEW k \in 1 .. Min(Untagged(p)) - 1
  PROVE  NumbersOf(Branch[p][k]) # {} /\ k \in DOMAIN Branch[p]
<1> DEFINE i == Min(Untagged(p))
<1>1. /\ i \in DOMAIN Branch[p] /\ i \in wire[p].head .. wire[p].last
      /\ \A m \in wire[p].head .. i - 1 : mem[p].bound[Branch[p][m]] # 0
  BY CurrentPlace
<1>2. k \in 1 .. i - 1
  OBVIOUS
<1> HIDE DEF i
<1>3. k \in DOMAIN Branch[p] /\ Branch[p][k] \in Part /\ wire[p].head \in Nat \ {0} /\ i \in Nat
  BY <1>1, <1>2, Places
<1>4. CASE k < wire[p].head
  <2>1. k \in 1 .. wire[p].head - 1
    BY <1>2, <1>3, <1>4
  <2> QED BY <1>3, <2>1 DEF HeadTagged
<1>5. CASE ~(k < wire[p].head)
  <2>1. k \in wire[p].head .. i - 1
    BY <1>2, <1>3, <1>5
  <2>2. mem[p].bound[Branch[p][k]] # 0
    BY <1>1, <2>1
  <2>3. [number |-> mem[p].bound[Branch[p][k]], part |-> Branch[p][k]] \in rows
    BY <1>3, <2>2 DEF TagInv, NumberNamesOne
  <2> QED BY <1>3, <2>3 DEF NumbersOf
<1> QED BY <1>4, <1>5

(* The look-up of a numbered part is its least number.                     *)
LEMMA LookupLeast ==
  ASSUME TagInv, NEW e, NumbersOf(e) # {}
  PROVE  /\ Lookup(e) \in NumbersOf(e) /\ Lookup(e) \in Nat
         /\ \A n \in NumbersOf(e) : n \in Nat /\ Lookup(e) <= n
<1>1. NumbersOf(e) \in SUBSET Nat
  BY NumbersBounded
<1> QED BY <1>1, MinOfNumbers DEF Lookup

(* Rows are only added, so a numbered part stays so, and its look-up can   *)
(* only fall.                                                              *)
LEMMA LookupFalls ==
  ASSUME TagInv, TagInv', rows \subseteq rows', NEW e, NumbersOf(e) # {}
  PROVE  /\ NumbersOf(e) \subseteq NumbersOf(e)' /\ NumbersOf(e)' # {}
         /\ Lookup(e)' \in Nat /\ Lookup(e)' <= Lookup(e)
<1>1. NumbersOf(e) \subseteq NumbersOf(e)'
  BY DEF NumbersOf
<1>2. Lookup(e) \in NumbersOf(e)'
  BY <1>1, LookupLeast
<1>3. NumbersOf(e)' \in SUBSET Nat
  BY DEF TagInv, TagTypeOK, NumbersOf, Row
<1>4. Lookup(e)' = Min(NumbersOf(e)')
  BY <1>2 DEF Lookup
<1>5. Min(NumbersOf(e)') \in NumbersOf(e)' /\ Min(NumbersOf(e)') <= Lookup(e)
  BY <1>2, <1>3, MinOfNumbers
<1> QED BY <1>1, <1>2, <1>3, <1>4, <1>5

(* What is said of numbers stands while the rows do.                       *)
LEMMA SameRows ==
  ASSUME rows' = rows, NEW e
  PROVE  NumbersOf(e)' = NumbersOf(e) /\ Lookup(e)' = Lookup(e)
BY DEF NumbersOf, Lookup

(* A process that does not move.                                           *)
Stays(q) == pass'[q] = pass[q] /\ mem'[q] = mem[q] /\ wire'[q] = wire[q]

(* What such a process sees of the branch stays, too.                      *)
LEMMA StaysThere ==
  ASSUME NEW q \in Process, Stays(q)
  PROVE  /\ Untagged(q)' = Untagged(q) /\ Current(q)' = Current(q) /\ Wire(q)' = Wire(q)
         /\ pass'[q] = pass[q]
BY DEF Stays, Untagged, Current, Wire
-----------------------------------------------------------------------------
(* A step that writes no row and leaves its own process neither loading    *)
(* nor inserting, on the same wire or between two passes.                  *)
LEMMA QuietOrder ==
  ASSUME TagInv, OrderInv, rows' = rows, NEW p \in Process,
         \A q \in Process \ {p} : Stays(q),
         pass'[p].at \notin {"load", "insert"},
         \A i \in 1 .. wire'[p].head - 1 : NumbersOf(Branch[p][i]) # {}
  PROVE  OrderInv'
<1>1. \A e : NumbersOf(e)' = NumbersOf(e) /\ Lookup(e)' = Lookup(e)
  BY SameRows
<1>2. PrefixTagged' /\ NumbersFollowBranch'
  BY <1>1 DEF OrderInv, PrefixTagged, NumbersFollowBranch
<1>3. HeadTagged'
  BY <1>1 DEF OrderInv, HeadTagged, Stays
<1>4. NextAbove'
  <2>1. SUFFICES ASSUME NEW q \in Process PROVE NextAboveOf(q)'
    BY DEF NextAbove
  <2>2. CASE q = p
    BY <2>2 DEF NextAboveOf
  <2>3. CASE q # p
    BY <1>1, <2>3, StaysThere DEF NextAboveOf, OrderInv, NextAbove
  <2> QED BY <2>2, <2>3
<1>5. FloorRead'
  <2>1. SUFFICES ASSUME NEW q \in Process PROVE FloorCountedOf(q)' /\ FloorBelowOf(q)'
    BY DEF FloorRead
  <2>2. CASE q = p
    BY <2>2 DEF FloorCountedOf, FloorBelowOf
  <2>3. CASE q # p
    BY <1>1, <2>3, StaysThere DEF FloorCountedOf, FloorBelowOf, OrderInv, FloorRead
  <2> QED BY <2>2, <2>3
<1>6. PoisedFloor'
  <2>1. SUFFICES ASSUME NEW q \in Process, NEW o \in Process PROVE PoisedFloorOf(q, o)'
    BY DEF PoisedFloor
  <2>2. CASE q = p \/ o = p
    BY <2>2 DEF PoisedFloorOf
  <2>3. CASE q # p /\ o # p
    <3>1. PoisedFloorOf(q, o)
      BY DEF OrderInv, PoisedFloor
    <3> QED BY <1>1, <2>3, <3>1, StaysThere DEF PoisedFloorOf
  <2> QED BY <2>2, <2>3
<1> QED BY <1>2, <1>3, <1>4, <1>5, <1>6 DEF OrderInv

(* Every step but three is of this kind.                                   *)
LEMMA QuietSteps ==
  ASSUME TagInv, OrderInv, NEW p \in Process,
         \/ Begin(p) /\ ~Outdated(p)
         \/ Load(p) \/ Done(p) \/ LookUp(p) \/ Collide(p) \/ Recheck(p)
         \/ Grow(p) \/ MoveHead(p) \/ Restart(p) \/ Refused(p)
  PROVE  OrderInv'
<1>1. mem \in [Process -> Mem] /\ pass \in [Process -> Pass] /\ wire \in [Process -> Place]
  BY DEF TagInv, TagTypeOK, Mem, Pass, Place
<1>2. NoPass.at = "idle" /\ Walking.at = "tag"
  BY FreshPass
<1>3. CASE Grow(p) \/ MoveHead(p)
  <2>1. rows' = rows /\ pass'[p].at = "idle" /\ mem' = mem /\ pass' = pass
    BY <1>3 DEF Grow, MoveHead
  <2>2. \A q \in Process \ {p} : Stays(q)
    BY <1>1, <1>3 DEF Grow, MoveHead, Stays
  <2>3. \A i \in 1 .. wire'[p].head - 1 : NumbersOf(Branch[p][i]) # {}
    BY <1>1, <1>3 DEF Grow, MoveHead, Place, OrderInv, HeadTagged
  <2> QED BY <2>1, <2>2, <2>3, QuietOrder
<1>4. CASE \/ Begin(p) /\ ~Outdated(p)
           \/ Load(p) \/ Done(p) \/ LookUp(p) \/ Collide(p) \/ Recheck(p)
           \/ Restart(p) \/ Refused(p)
  <2>1. rows' = rows /\ wire' = wire
    BY <1>4 DEF Begin, Load, Done, LookUp, Adopt, Collide, Recheck, Restart, Refused
  <2>2. PICK new : pass' = [pass EXCEPT ![p] = new] /\ new.at \notin {"load", "insert"}
    <3>1. CASE Begin(p) /\ ~Outdated(p)
      BY <1>2, <3>1 DEF Begin, Walks
    <3>2. CASE Load(p)
      BY <1>2, <3>2 DEF Load, Walks
    <3>3. CASE Done(p) \/ Restart(p) \/ Refused(p)
      BY <1>2, <3>3 DEF Done, Restart, Refused
    <3>4. CASE LookUp(p)
      <4>1. CASE pass' = [pass EXCEPT ![p].at = "propose"]
        <5>1. [pass[p] EXCEPT !.at = "propose"].at = "propose"
          BY <1>1 DEF Pass
        <5> QED BY <4>1, <5>1
      <4>2. CASE Walks(p)
        BY <1>2, <4>2 DEF Walks
      <4> QED BY <3>4, <4>1, <4>2 DEF LookUp, Adopt
    <3>5. CASE Collide(p)
      <4>1. [pass[p] EXCEPT !.at = "recheck"].at = "recheck"
        BY <1>1 DEF Pass
      <4> QED BY <1>2, <3>5, <4>1 DEF Collide
    <3>6. CASE Recheck(p)
      <4>1. [NoPass EXCEPT !.at = "propose", !.tries = pass[p].tries + 1].at = "propose"
        BY DEF NoPass
      <4> QED BY <1>2, <3>6, <4>1 DEF Recheck, Adopt, Walks
    <3> QED BY <1>4, <3>1, <3>2, <3>3, <3>4, <3>5, <3>6
  <2>3. \A q \in Process \ {p} : mem'[q] = mem[q]
    <3>1. CASE mem' = mem
      BY <3>1
    <3>2. CASE Load(p)
      BY <1>1, <3>2 DEF Load
    <3>3. CASE Restart(p)
      BY <1>1, <3>3 DEF Restart
    <3>4. CASE \E n, c : Bind(p, Current(p), n, c)
      BY <1>1, <3>4 DEF Bind
    <3>5. CASE mem' = [mem EXCEPT ![p].counter = Greater(@, MaxNumber)]
      BY <1>1, <3>5
    <3> QED BY <1>4, <3>1, <3>2, <3>3, <3>4, <3>5 DEF Begin, Done, LookUp, Adopt, Collide,
         Refused, Recheck
  <2>4. \A q \in Process \ {p} : Stays(q)
    BY <1>1, <2>1, <2>2, <2>3 DEF Stays
  <2>5. pass'[p].at \notin {"load", "insert"}
    BY <1>1, <2>2
  <2>6. \A i \in 1 .. wire'[p].head - 1 : NumbersOf(Branch[p][i]) # {}
    BY <2>1 DEF OrderInv, HeadTagged
  <2> QED BY <2>1, <2>4, <2>5, <2>6, QuietOrder
<1> QED BY <1>3, <1>4
-----------------------------------------------------------------------------
(* The floor of a pass is at most the number of the first message of its   *)
(* wire that has one.                                                      *)
LEMMA FloorFirst ==
  ASSUME TagInv, NEW p \in Process, Floor(p) # 0
  PROVE  \E i \in wire[p].head .. wire[p].last :
           /\ Branch[p][i] \notin Tools /\ NumbersOf(Branch[p][i]) # {}
           /\ Floor(p) <= Lookup(Branch[p][i])
           /\ \A k \in wire[p].head .. wire[p].last :
                Branch[p][k] \notin Tools /\ NumbersOf(Branch[p][k]) # {} => i <= k
<1> DEFINE tagged == {i \in wire[p].head .. wire[p].last :
                        Branch[p][i] \notin Tools /\ NumbersOf(Branch[p][i]) # {}}
<1>1. tagged # {}
  BY DEF Floor
<1>2. tagged \in SUBSET Nat
  BY Places
<1> DEFINE i == Min(tagged)
<1>3. i \in tagged /\ \A k \in tagged : i <= k
  <2> HIDE DEF tagged
  <2> QED BY <1>1, <1>2, MinOfNumbers
<1> DEFINE l == Lookup(Branch[p][i])
<1>4. l = Min(NumbersOf(Branch[p][i]))
  BY <1>3 DEF Lookup
<1>5. Floor(p) = Greater(l - Margin, 0)
  BY <1>1, <1>4 DEF Floor
<1>6. l \in Nat
  BY <1>3, LookupLeast
<1>7. Floor(p) <= l
  <2> HIDE DEF l
  <2> QED BY <1>5, <1>6, TagAssumption DEF Greater
<1>8. /\ i \in wire[p].head .. wire[p].last
      /\ Branch[p][i] \notin Tools /\ NumbersOf(Branch[p][i]) # {}
      /\ \A k \in wire[p].head .. wire[p].last :
           Branch[p][k] \notin Tools /\ NumbersOf(Branch[p][k]) # {} => i <= k
  BY <1>3
<1> HIDE DEF i
<1> QED BY <1>7, <1>8

(* A pass that begins with a load finds its wire in order: what is to be   *)
(* read, or about to be numbered, is not below the first message.          *)
LEMMA LoadOrder ==
  ASSUME TagInv, OrderInv, NEW p \in Process, Begin(p), Outdated(p)
  PROVE  OrderInv'
<1>1. /\ rows' = rows /\ mem' = mem /\ wire' = wire
      /\ pass' = [pass EXCEPT ![p].at = "load", ![p].floor = Floor(p)]
  BY DEF Begin
<1>2. pass \in [Process -> Pass]
  BY DEF TagInv, TagTypeOK, Pass
<1>3. /\ pass'[p].at = "load" /\ pass'[p].floor = Floor(p)
      /\ \A q \in Process \ {p} : Stays(q)
  BY <1>1, <1>2 DEF Pass, Stays
<1>4. \A e : NumbersOf(e)' = NumbersOf(e) /\ Lookup(e)' = Lookup(e)
  BY <1>1, SameRows
<1>5. PrefixTagged' /\ NumbersFollowBranch' /\ HeadTagged'
  BY <1>1, <1>4 DEF OrderInv, PrefixTagged, NumbersFollowBranch, HeadTagged
<1>6. NextAbove'
  <2>1. SUFFICES ASSUME NEW q \in Process PROVE NextAboveOf(q)'
    BY DEF NextAbove
  <2>2. CASE q = p
    BY <1>3, <2>2 DEF NextAboveOf
  <2>3. CASE q # p
    BY <1>3, <1>4, <2>3, StaysThere DEF NextAboveOf, OrderInv, NextAbove
  <2> QED BY <2>2, <2>3
<1>7. CASE Floor(p) = 0
  <2>1. FloorRead'
    <3>1. SUFFICES ASSUME NEW q \in Process PROVE FloorCountedOf(q)' /\ FloorBelowOf(q)'
      BY DEF FloorRead
    <3>2. CASE q = p
      <4>1. ASSUME NEW e, NumbersOf(e) # {} PROVE \E n \in NumbersOf(e) : n >= 0
        BY <4>1, LookupLeast
      <4> QED BY <1>3, <1>4, <1>7, <3>2, <4>1 DEF FloorCountedOf, FloorBelowOf
    <3>3. CASE q # p
      BY <1>1, <1>3, <1>4, <3>3, StaysThere DEF FloorCountedOf, FloorBelowOf, OrderInv, FloorRead
    <3> QED BY <3>2, <3>3
  <2>2. PoisedFloor'
    <3>1. SUFFICES ASSUME NEW q \in Process, NEW o \in Process PROVE PoisedFloorOf(q, o)'
      BY DEF PoisedFloor
    <3>2. CASE o = p
      BY <1>3, <3>2 DEF PoisedFloorOf
    <3>3. CASE q = p /\ o # p
      <4>1. pass'[o].next \in Nat
        BY <1>2, <1>3, <3>3 DEF Pass, Stays
      <4> QED BY <1>3, <1>7, <3>3, <4>1 DEF PoisedFloorOf
    <3>4. CASE q # p /\ o # p
      <4>1. PoisedFloorOf(q, o)
        BY DEF OrderInv, PoisedFloor
      <4> QED BY <1>3, <1>4, <3>4, <4>1, StaysThere DEF PoisedFloorOf
    <3> QED BY <3>2, <3>3, <3>4
  <2> QED BY <1>5, <1>6, <2>1, <2>2 DEF OrderInv
<1>8. CASE Floor(p) # 0
  <2>1. PICK i \in wire[p].head .. wire[p].last :
          /\ Branch[p][i] \notin Tools /\ NumbersOf(Branch[p][i]) # {}
          /\ Floor(p) <= Lookup(Branch[p][i])
          /\ \A k \in wire[p].head .. wire[p].last :
               Branch[p][k] \notin Tools /\ NumbersOf(Branch[p][k]) # {} => i <= k
    BY <1>8, FloorFirst
  <2>2. /\ i \in DOMAIN Branch[p] /\ i \in Nat /\ Floor(p) \in Nat
        /\ \A k \in wire[p].head .. wire[p].last : k \in DOMAIN Branch[p] /\ k \in Nat \ {0}
    BY <2>1, Places, FloorTyped
  <2>3. ASSUME NEW e \in Wire(p) \ Tools, NumbersOf(e) # {}
        PROVE  \E n \in NumbersOf(e) : n >= Floor(p)
    <3>1. PICK k \in wire[p].head .. wire[p].last : e = Branch[p][k]
      BY <2>3 DEF Wire
    <3>2. i <= k /\ k \in DOMAIN Branch[p]
      BY <2>1, <2>2, <2>3, <3>1
    <3>3. Lookup(e) \in NumbersOf(e) /\ Lookup(e) \in Nat /\ Lookup(Branch[p][i]) \in Nat
      BY <2>1, <2>3, LookupLeast
    <3>4. Lookup(Branch[p][i]) <= Lookup(e)
      <4>1. CASE i = k
        BY <3>1, <3>3, <4>1
      <4>2. CASE i < k
        <5>1. Lookup(Branch[p][i]) < Lookup(e)
          BY <2>1, <2>2, <2>3, <3>1, <3>2, <4>2 DEF OrderInv, NumbersFollowBranch
        <5> QED BY <3>3, <5>1
      <4> QED BY <2>2, <3>2, <4>1, <4>2
    <3> QED BY <2>1, <2>2, <3>3, <3>4
  <2>4. \E r \in rows : Floor(p) <= r.number
    <3>1. Lookup(Branch[p][i]) \in NumbersOf(Branch[p][i])
      BY <2>1, LookupLeast
    <3> QED BY <2>1, <3>1 DEF NumbersOf
  <2>5. FloorRead'
    <3>1. SUFFICES ASSUME NEW q \in Process PROVE FloorCountedOf(q)' /\ FloorBelowOf(q)'
      BY DEF FloorRead
    <3>2. CASE q = p
      <4>1. Wire(p)' = Wire(p)
        BY <1>1 DEF Wire
      <4>2. FloorCountedOf(q)'
        BY <1>1, <1>3, <2>4, <3>2 DEF FloorCountedOf
      <4>3. FloorBelowOf(q)'
        <5>1. SUFFICES ASSUME NEW e \in Wire(p) \ Tools, NumbersOf(e)' # {}
                       PROVE  \E n \in NumbersOf(e)' : n >= pass'[p].floor
          BY <3>2, <4>1 DEF FloorBelowOf
        <5> QED BY <1>3, <1>4, <2>3, <5>1
      <4> QED BY <4>2, <4>3
    <3>3. CASE q # p
      BY <1>1, <1>3, <1>4, <3>3, StaysThere DEF FloorCountedOf, FloorBelowOf, OrderInv, FloorRead
    <3> QED BY <3>2, <3>3
  <2>6. ASSUME NEW q \in Process, pass[q].at = "insert",
               Current(q) \in Wire(p) \ Tools, NumbersOf(Current(q)) = {}
        PROVE  pass[q].next >= Floor(p)
    <3> DEFINE j == Min(Untagged(q))
    <3>1. Untagged(q) # {}
      BY <2>6 DEF TagInv, Poised, AtPart
    <3>2. j \in DOMAIN Branch[q] /\ Current(q) = Branch[q][j]
      BY <3>1, CurrentPlace
    <3>3. PICK k \in wire[p].head .. wire[p].last : Current(q) = Branch[p][k]
      BY <2>6 DEF Wire
    <3>4. k \in DOMAIN Branch[p] /\ k = j /\ \A m \in 1 .. k : Branch[p][m] = Branch[q][m]
      <4> HIDE DEF j
      <4>1. k \in DOMAIN Branch[p] /\ Branch[p][k] = Branch[q][j]
        BY <2>2, <3>2, <3>3
      <4> QED BY <3>2, <4>1, TreePlace
    <3>5. i < k
      <4>1. i # k
        BY <2>1, <2>6, <3>3
      <4>2. ~(k < i)
        <5>1. SUFFICES ASSUME k < i PROVE FALSE
          OBVIOUS
        <5>2. k \in 1 .. i - 1
          BY <2>2, <5>1
        <5> QED BY <2>1, <2>2, <2>6, <3>3, <5>2 DEF OrderInv, PrefixTagged
      <4>3. i \in Nat /\ k \in Nat
        BY <2>2
      <4> QED BY <4>1, <4>2, <4>3
    <3>6. i \in 1 .. j - 1 /\ Branch[q][i] = Branch[p][i]
      <4>1. i \in 1 .. k /\ i \in 1 .. k - 1
        BY <2>2, <3>5, Places
      <4> QED BY <3>4, <4>1
    <3>7. Lookup(Branch[p][i]) < pass[q].next
      BY <2>6, <3>6 DEF OrderInv, NextAbove, NextAboveOf
    <3>8. Lookup(Branch[p][i]) \in Nat /\ pass[q].next \in Nat
      BY <1>2, <2>1, LookupLeast DEF Pass
    <3> QED BY <2>1, <2>2, <3>7, <3>8
  <2>7. PoisedFloor'
    <3>1. SUFFICES ASSUME NEW q \in Process, NEW o \in Process PROVE PoisedFloorOf(q, o)'
      BY DEF PoisedFloor
    <3>2. CASE o = p
      BY <1>3, <3>2 DEF PoisedFloorOf
    <3>3. CASE q = p /\ o # p
      <4>1. Wire(p)' = Wire(p)
        BY <1>1 DEF Wire
      <4> QED BY <1>3, <1>4, <2>6, <3>3, <4>1, StaysThere DEF PoisedFloorOf
    <3>4. CASE q # p /\ o # p
      <4>1. PoisedFloorOf(q, o)
        BY DEF OrderInv, PoisedFloor
      <4> QED BY <1>3, <1>4, <3>4, <4>1, StaysThere DEF PoisedFloorOf
    <3> QED BY <3>2, <3>3, <3>4
  <2> QED BY <1>5, <1>6, <2>5, <2>7 DEF OrderInv
<1> QED BY <1>7, <1>8

(* The greatest number of the table bounds them all.                       *)
LEMMA MaxNumberBounds ==
  ASSUME TagInv
  PROVE  MaxNumber \in Nat /\ \A r \in rows : r.number \in Nat /\ r.number <= MaxNumber
<1> DEFINE S == {r.number : r \in rows} \cup {0}
<1>1. S \in SUBSET Nat /\ S # {} /\ stored \in Nat /\ \A n \in S : n <= stored
  BY DEF TagInv, TagTypeOK, NumbersCounted, Row
<1>2. Max(S) \in S /\ \A n \in S : Max(S) >= n
  <2> HIDE DEF S
  <2> QED BY <1>1, MaxOfNumbers
<1>3. MaxNumber = Max(S)
  BY DEF MaxNumber
<1>4. \A r \in rows : r.number \in S
  OBVIOUS
<1> HIDE DEF S
<1>5. \A r \in rows : r.number \in Nat /\ r.number <= Max(S)
  BY <1>1, <1>2, <1>4
<1> QED BY <1>1, <1>2, <1>3, <1>5

(* The number a pass proposes is above all there are.                      *)
LEMMA ProposeOrder ==
  ASSUME TagInv, OrderInv, NEW p \in Process, Propose(p)
  PROVE  OrderInv'
<1>1. /\ rows' = rows /\ mem' = mem /\ wire' = wire
      /\ pass' = [pass EXCEPT ![p].at = "insert", ![p].next = NextNumber(p)]
  BY DEF Propose
<1>2. pass \in [Process -> Pass] /\ mem[p] \in Mem
  BY Values DEF TagInv, TagTypeOK, Pass
<1>3. /\ pass'[p].at = "insert" /\ pass'[p].next = NextNumber(p)
      /\ \A q \in Process \ {p} : Stays(q)
  BY <1>1, <1>2 DEF Pass, Stays
<1>4. \A e : NumbersOf(e)' = NumbersOf(e) /\ Lookup(e)' = Lookup(e)
  BY <1>1, SameRows
<1>5. PrefixTagged' /\ NumbersFollowBranch' /\ HeadTagged'
  BY <1>1, <1>4 DEF OrderInv, PrefixTagged, NumbersFollowBranch, HeadTagged
<1>6. NextNumber(p) \in Nat /\ \A r \in rows : r.number \in Nat /\ r.number < NextNumber(p)
  <2>1. /\ Greater(mem[p].counter, MaxNumber) \in Nat
        /\ Greater(mem[p].counter, MaxNumber) >= MaxNumber
    BY <1>2, MaxNumberBounds, GreaterTyped DEF Mem
  <2> DEFINE g == Greater(mem[p].counter, MaxNumber)
  <2>2. NextNumber(p) = g + 1
    BY DEF NextNumber
  <2> HIDE DEF g
  <2>3. g \in Nat /\ g >= MaxNumber
    BY <2>1 DEF g
  <2> QED BY <2>2, <2>3, MaxNumberBounds
<1>7. Untagged(p)' = Untagged(p) /\ Untagged(p) # {}
  BY <1>1 DEF Untagged, Propose, TagInv, Poised, AtPart
<1>8. NextAbove'
  <2>1. SUFFICES ASSUME NEW q \in Process PROVE NextAboveOf(q)'
    BY DEF NextAbove
  <2>2. CASE q = p
    <3>1. ASSUME NEW i \in 1 .. Min(Untagged(p)) - 1
          PROVE  Lookup(Branch[p][i]) < NextNumber(p)
      <4>1. NumbersOf(Branch[p][i]) # {}
        BY <1>7, PathTagged DEF OrderInv
      <4>2. Lookup(Branch[p][i]) \in NumbersOf(Branch[p][i])
        BY <4>1, LookupLeast
      <4> QED BY <1>6, <4>2 DEF NumbersOf
    <3> QED BY <1>3, <1>4, <1>7, <2>2, <3>1 DEF NextAboveOf
  <2>3. CASE q # p
    BY <1>3, <1>4, <2>3, StaysThere DEF NextAboveOf, OrderInv, NextAbove
  <2> QED BY <2>2, <2>3
<1>9. FloorRead'
  <2>1. SUFFICES ASSUME NEW q \in Process PROVE FloorCountedOf(q)' /\ FloorBelowOf(q)'
    BY DEF FloorRead
  <2>2. CASE q = p
    BY <1>3, <2>2 DEF FloorCountedOf, FloorBelowOf
  <2>3. CASE q # p
    BY <1>1, <1>3, <1>4, <2>3, StaysThere DEF FloorCountedOf, FloorBelowOf, OrderInv, FloorRead
  <2> QED BY <2>2, <2>3
<1>10. PoisedFloor'
  <2>1. SUFFICES ASSUME NEW q \in Process, NEW o \in Process PROVE PoisedFloorOf(q, o)'
    BY DEF PoisedFloor
  <2>2. CASE q = p
    BY <1>3, <2>2 DEF PoisedFloorOf
  <2>3. CASE q # p /\ o = p
    <3>1. SUFFICES ASSUME pass[q].at = "load" PROVE NextNumber(p) >= pass[q].floor
      BY <1>3, <2>3, StaysThere DEF PoisedFloorOf
    <3>2. pass[q].floor = 0 \/ \E r \in rows : pass[q].floor <= r.number
      BY <3>1 DEF OrderInv, FloorRead, FloorCountedOf
    <3>3. pass[q].floor \in Nat
      BY <1>2 DEF Pass
    <3> QED BY <1>6, <3>2, <3>3
  <2>4. CASE q # p /\ o # p
    <3>1. PoisedFloorOf(q, o)
      BY DEF OrderInv, PoisedFloor
    <3> QED BY <1>3, <1>4, <2>4, <3>1, StaysThere DEF PoisedFloorOf
  <2> QED BY <2>2, <2>3, <2>4
<1> QED BY <1>5, <1>8, <1>9, <1>10 DEF OrderInv

(* The row of an insert: it numbers the part the pass is at, above the     *)
(* parts before it, on every branch that part is on.                       *)
LEMMA InsertOrder ==
  ASSUME TagInv, TagInv', OrderInv, NEW p \in Process, Insert(p)
  PROVE  OrderInv'
<1> DEFINE i == Min(Untagged(p))
<1>a. PICK n \in Nat : n = pass[p].next
  BY DEF TagInv, TagTypeOK
<1>b. Untagged(p) # {}
  BY DEF Insert, TagInv, Poised, AtPart
<1>c. PICK e \in Part : e = Current(p)
  BY <1>b, CurrentIsPart
<1>1. /\ pass[p].at = "insert" /\ rows' = rows \cup {[number |-> n, part |-> e]}
      /\ wire' = wire /\ pass' = [pass EXCEPT ![p] = Walking] /\ Bind(p, e, n, n)
  BY <1>a, <1>c DEF Insert, Walks
<1>3. i \in DOMAIN Branch[p] /\ e = Branch[p][i]
  BY <1>b, <1>c, CurrentPlace
<1>4. /\ pass \in [Process -> Pass] /\ mem \in [Process -> Mem] 
  BY DEF TagInv, TagTypeOK, Pass, Mem
<1>5. \A k \in 1 .. i - 1 : /\ NumbersOf(Branch[p][k]) # {}
                            /\ Lookup(Branch[p][k]) < n
  BY <1>a, <1>b, <1>1, PathTagged DEF OrderInv, NextAbove, NextAboveOf
<1>6. Walking.at = "tag"
  BY FreshPass
<1> HIDE DEF i
<1>7. pass'[p].at = "tag" /\ \A q \in Process \ {p} : Stays(q)
  BY <1>1, <1>4, <1>6 DEF Bind, Stays
<1>8. rows \subseteq rows'
  BY <1>1
<1>9. /\ \A d : d # e => NumbersOf(d)' = NumbersOf(d) /\ Lookup(d)' = Lookup(d)
      /\ NumbersOf(e)' = NumbersOf(e) \cup {n}
  <2>1. \A d : d # e => NumbersOf(d)' = NumbersOf(d)
    BY <1>1 DEF NumbersOf
  <2>2. \A d : d # e => Lookup(d)' = Lookup(d)
    BY <2>1 DEF Lookup
  <2>3. NumbersOf(e)' = NumbersOf(e) \cup {n}
    <3> DEFINE row == [number |-> n, part |-> e]
    <3>1. row.number = n /\ row.part = e /\ rows' = rows \cup {row}
      BY <1>1
    <3> HIDE DEF row
    <3>2. \A m : m \in NumbersOf(e)' <=> m \in NumbersOf(e) \/ m = n
      BY <3>1 DEF NumbersOf
    <3> QED BY <3>2
  <2> QED BY <2>1, <2>2, <2>3
<1>10. PrefixTagged'
  <2>1. SUFFICES ASSUME NEW q \in Process, NEW j \in DOMAIN Branch[q],
                        NumbersOf(Branch[q][j])' # {}, NEW k \in 1 .. j - 1
                 PROVE  NumbersOf(Branch[q][k])' # {}
    BY DEF PrefixTagged
  <2>2. NumbersOf(Branch[q][k]) # {}
    <3>1. CASE NumbersOf(Branch[q][j]) # {}
      BY <3>1 DEF OrderInv, PrefixTagged
    <3>2. CASE NumbersOf(Branch[q][j]) = {}
      <4>1. Branch[q][j] = Branch[p][i]
        BY <1>3, <1>9, <2>1, <3>2
      <4>2. j = i /\ \A m \in 1 .. j : Branch[q][m] = Branch[p][m]
        BY <1>3, <4>1, TreePlace
      <4>3. k \in 1 .. j /\ j \in Nat
        BY Places
      <4> QED BY <1>5, <4>2, <4>3
    <3> QED BY <3>1, <3>2
  <2> QED BY <1>8, <2>2, LookupFalls
<1>11. HeadTagged'
  BY <1>1, <1>8, LookupFalls DEF OrderInv, HeadTagged
<1>12. NumbersFollowBranch'
  <2>1. SUFFICES ASSUME NEW q \in Process, NEW a \in DOMAIN Branch[q], NEW b \in DOMAIN Branch[q],
                        a < b, NumbersOf(Branch[q][a])' # {}, NumbersOf(Branch[q][b])' # {}
                 PROVE  Lookup(Branch[q][a])' < Lookup(Branch[q][b])'
    BY DEF NumbersFollowBranch
  <2> DEFINE x == Branch[q][a]
             y == Branch[q][b]
  <2>2. a \in Nat \ {0} /\ b \in Nat /\ a \in 1 .. b - 1
    BY <2>1, Places
  <2>3. x # y
    <3>1. SUFFICES ASSUME x = y PROVE FALSE
      OBVIOUS
    <3>2. a = b
      BY <3>1, TreePlace
    <3> QED BY <2>1, <2>2, <3>2
  <2>4. NumbersOf(x) # {} /\ NumbersOf(y) # {} => Lookup(x) < Lookup(y)
    BY <2>1 DEF OrderInv, NumbersFollowBranch
  <2>5. CASE x # e /\ y # e
    BY <1>9, <2>1, <2>4, <2>5
  <2>6. CASE y = e
    <3>1. b = i /\ \A k \in 1 .. b : Branch[q][k] = Branch[p][k]
      BY <1>3, <2>6, TreePlace
    <3>2. x = Branch[p][a] /\ a \in 1 .. i - 1
      <4>1. a \in 1 .. b
        BY <2>2
      <4> QED BY <2>2, <3>1, <4>1
    <3>3. NumbersOf(x) # {} /\ Lookup(x) < n
      BY <1>5, <3>2
    <3>4. Lookup(x)' = Lookup(x) /\ Lookup(x) \in Nat
      BY <1>9, <2>3, <2>6, <3>3, LookupLeast
    <3>5. Lookup(y)' \in NumbersOf(y)' /\ Lookup(y)' \in Nat
      <4>1. NumbersOf(y)' \in SUBSET Nat /\ NumbersOf(y)' # {}
        BY <2>1 DEF TagInv, TagTypeOK, NumbersOf, Row
      <4>2. Lookup(y)' = Min(NumbersOf(y)')
        BY <4>1 DEF Lookup
      <4> QED BY <4>1, <4>2, MinOfNumbers
    <3>6. CASE Lookup(y)' = n
      BY <3>3, <3>4, <3>6
    <3>7. CASE Lookup(y)' \in NumbersOf(y)
      <4>1. NumbersOf(y) # {} /\ Lookup(y) <= Lookup(y)' /\ Lookup(y) \in Nat
        BY <3>7, LookupLeast
      <4>2. Lookup(x) < Lookup(y)
        BY <2>4, <3>3, <4>1
      <4> QED BY <3>4, <3>5, <4>1, <4>2
    <3> QED BY <1>9, <2>6, <3>5, <3>6, <3>7
  <2>7. CASE x = e
    <3>1. NumbersOf(y) # {} /\ Lookup(y)' = Lookup(y)
      BY <1>9, <2>1, <2>3, <2>7
    <3>2. NumbersOf(x) # {}
      BY <2>2, <3>1 DEF OrderInv, PrefixTagged
    <3>3. Lookup(x)' \in Nat /\ Lookup(x)' <= Lookup(x) /\ Lookup(x) \in Nat /\ Lookup(y) \in Nat
      BY <1>8, <3>1, <3>2, LookupFalls, LookupLeast
    <3> QED BY <2>4, <3>1, <3>2, <3>3
  <2> QED BY <2>5, <2>6, <2>7
<1>13. NextAbove'
  <2>1. SUFFICES ASSUME NEW q \in Process PROVE NextAboveOf(q)'
    BY DEF NextAbove
  <2>2. CASE q = p
    BY <1>7, <2>2 DEF NextAboveOf
  <2>3. CASE q # p
    <3>1. SUFFICES ASSUME pass[q].at = "insert", NEW k \in 1 .. Min(Untagged(q)) - 1
                   PROVE  Lookup(Branch[q][k])' < pass[q].next
      BY <1>7, <2>3, StaysThere DEF NextAboveOf
    <3>2. Untagged(q) # {}
      BY <3>1 DEF TagInv, Poised, AtPart
    <3>3. NumbersOf(Branch[q][k]) # {} /\ Lookup(Branch[q][k]) < pass[q].next
      BY <3>1, <3>2, PathTagged DEF OrderInv, NextAbove, NextAboveOf
    <3>4. /\ Lookup(Branch[q][k])' \in Nat /\ Lookup(Branch[q][k])' <= Lookup(Branch[q][k])
          /\ Lookup(Branch[q][k]) \in Nat /\ pass[q].next \in Nat
      BY <1>4, <1>8, <3>3, LookupFalls, LookupLeast DEF Pass
    <3> QED BY <3>3, <3>4
  <2> QED BY <2>2, <2>3
<1>14. FloorRead'
  <2>1. SUFFICES ASSUME NEW q \in Process PROVE FloorCountedOf(q)' /\ FloorBelowOf(q)'
    BY DEF FloorRead
  <2>2. CASE q = p
    BY <1>7, <2>2 DEF FloorCountedOf, FloorBelowOf
  <2>3. CASE q # p
    <3>1. FloorCountedOf(q)'
      BY <1>7, <1>8, <2>3, StaysThere DEF FloorCountedOf, OrderInv, FloorRead
    <3>2. FloorBelowOf(q)'
      <4>1. SUFFICES ASSUME pass[q].at = "load", NEW d \in Wire(q) \ Tools, NumbersOf(d)' # {}
                     PROVE  \E m \in NumbersOf(d)' : m >= pass[q].floor
        BY <1>7, <2>3, StaysThere DEF FloorBelowOf
      <4>2. CASE NumbersOf(d) # {}
        <5>1. PICK m \in NumbersOf(d) : m >= pass[q].floor
          BY <4>1, <4>2 DEF OrderInv, FloorRead, FloorBelowOf
        <5> QED BY <1>9, <5>1
      <4>3. CASE NumbersOf(d) = {}
        <5>1. d = e
          BY <1>9, <4>1, <4>3
        <5>2. n >= pass[q].floor
          BY <1>a, <1>c, <1>1, <4>1, <4>3, <5>1 DEF OrderInv, PoisedFloor, PoisedFloorOf
        <5> QED BY <1>9, <5>1, <5>2
      <4> QED BY <4>2, <4>3
    <3> QED BY <3>1, <3>2
  <2> QED BY <2>2, <2>3
<1>15. PoisedFloor'
  <2>1. SUFFICES ASSUME NEW q \in Process, NEW o \in Process PROVE PoisedFloorOf(q, o)'
    BY DEF PoisedFloor
  <2>2. CASE q = p \/ o = p
    BY <1>7, <2>2 DEF PoisedFloorOf
  <2>3. CASE q # p /\ o # p
    <3>1. PoisedFloorOf(q, o)
      BY DEF OrderInv, PoisedFloor
    <3>2. NumbersOf(Current(o))' = {} => NumbersOf(Current(o)) = {}
      <4>1. Current(o)' = Current(o)
        BY <1>7, <2>3, StaysThere
      <4> QED BY <1>8, <4>1 DEF NumbersOf
    <3> QED BY <1>7, <2>3, <3>1, <3>2, StaysThere DEF PoisedFloorOf
  <2> QED BY <2>2, <2>3
<1> QED BY <1>10, <1>11, <1>12, <1>13, <1>14, <1>15 DEF OrderInv
-----------------------------------------------------------------------------
(* Each step keeps the invariant: an insert, a proposal, a load, any other. *)
LEMMA OrderStep == TagInv /\ OrderInv /\ [Next]_vars => OrderInv'
<1> SUFFICES ASSUME TagInv, OrderInv, [Next]_vars PROVE OrderInv'
  OBVIOUS
<1>0. TagInv'
  BY NextKeeps
<1>1. CASE UNCHANGED vars
  <2>1. /\ \A e : NumbersOf(e)' = NumbersOf(e) /\ Lookup(e)' = Lookup(e)
        /\ \A q \in Process : Stays(q)
    BY <1>1, SameRows DEF vars, Stays
  <2>2. PrefixTagged' /\ HeadTagged' /\ NumbersFollowBranch'
    BY <2>1 DEF OrderInv, PrefixTagged, HeadTagged, NumbersFollowBranch, Stays
  <2>3. NextAbove'
    <3>1. SUFFICES ASSUME NEW q \in Process PROVE NextAboveOf(q)'
      BY DEF NextAbove
    <3> QED BY <2>1, StaysThere DEF OrderInv, NextAbove, NextAboveOf
  <2>4. FloorRead'
    <3>1. SUFFICES ASSUME NEW q \in Process PROVE FloorCountedOf(q)' /\ FloorBelowOf(q)'
      BY DEF FloorRead
    <3> QED BY <1>1, <2>1, StaysThere DEF vars, OrderInv, FloorRead, FloorCountedOf, FloorBelowOf
  <2>5. PoisedFloor'
    <3>1. SUFFICES ASSUME NEW q \in Process, NEW o \in Process PROVE PoisedFloorOf(q, o)'
      BY DEF PoisedFloor
    <3>2. PoisedFloorOf(q, o)
      BY DEF OrderInv, PoisedFloor
    <3> QED BY <2>1, <3>2, StaysThere DEF PoisedFloorOf
  <2> QED BY <2>2, <2>3, <2>4, <2>5 DEF OrderInv
<1>2. ASSUME NEW p \in Process, Tagging(p) PROVE OrderInv'
  BY <1>0, <1>2, QuietSteps, LoadOrder, ProposeOrder, InsertOrder DEF Tagging
<1>3. ASSUME NEW p \in Process, Grow(p) \/ MoveHead(p) \/ Restart(p) \/ Refused(p)
      PROVE  OrderInv'
  BY <1>3, QuietSteps
<1> QED BY <1>1, <1>2, <1>3 DEF Next

(* With no row and no pass there is nothing to order.                      *)
LEMMA InitOrder == Init => OrderInv
<1> SUFFICES ASSUME Init PROVE OrderInv
  OBVIOUS
<1>1. /\ \A e : NumbersOf(e) = {}
      /\ \A p \in Process : pass[p].at = "idle" /\ wire[p].head = 1
  BY DEF Init, NumbersOf, NoPass
<1>2. PrefixTagged /\ HeadTagged /\ NumbersFollowBranch
  BY <1>1 DEF PrefixTagged, HeadTagged, NumbersFollowBranch
<1>3. NextAbove /\ FloorRead /\ PoisedFloor
  BY <1>1 DEF NextAbove, NextAboveOf, FloorRead, FloorCountedOf, FloorBelowOf, PoisedFloor,
     PoisedFloorOf
<1> QED BY <1>2, <1>3 DEF OrderInv

LEMMA OrderInvariant == Spec => [](TagInv /\ OrderInv)
BY InitTag, NextKeeps, InitOrder, OrderStep, PTL DEF Spec

(* Parts are numbered in the order of every branch they are on, whichever  *)
(* processes tag them, in whatever interleaving of look-up and insert.     *)
THEOREM NumbersFollow == Spec => []NumbersFollowBranch
<1>1. TagInv /\ OrderInv => NumbersFollowBranch
  BY DEF OrderInv
<1> QED BY OrderInvariant, <1>1, PTL

(* A load by a floor that NumbersFollowBranch places at or below every     *)
(* number of the wire takes in all the rows of a message of the wire.      *)
LEMMA FloorBinds ==
  ASSUME TagInv, NEW floor \in Nat, NEW e \in Part,
         NumbersOf(e) # {} => \E n \in NumbersOf(e) : n >= floor
  PROVE  Loaded(floor)[e] = Loaded(0)[e]
<1> DEFINE S(f) == {n \in NumbersOf(e) : n >= f} \cup {0}
<1>1. \A n \in NumbersOf(e) : n \in Nat /\ n <= stored
  BY NumbersBounded
<1>2. stored \in Nat
  BY DEF TagInv, TagTypeOK
<1>3. ASSUME NEW f \in Nat PROVE Max(S(f)) \in S(f) /\ \A n \in S(f) : Max(S(f)) >= n
  <2>1. S(f) \in SUBSET Nat /\ S(f) # {} /\ \A n \in S(f) : n <= stored
    BY <1>1, <1>2
  <2> HIDE DEF S
  <2> QED BY <1>2, <2>1, MaxOfNumbers
<1>4. Loaded(floor)[e] = Max(S(floor)) /\ Loaded(0)[e] = Max(S(0))
  BY DEF Loaded
<1>5. Max(S(floor)) = Max(S(0))
  <2>1. /\ Max(S(floor)) \in S(floor) /\ \A n \in S(floor) : Max(S(floor)) >= n
        /\ Max(S(0)) \in S(0) /\ \A n \in S(0) : Max(S(0)) >= n
    BY <1>3
  <2>2. /\ \A n \in S(floor) : n \in S(0) /\ n \in Nat
        /\ \A n \in S(0) : n \in Nat
    BY <1>1
  <2>3. Max(S(0)) \in S(floor)
    <3>1. CASE NumbersOf(e) = {}
      BY <2>1, <3>1
    <3>2. CASE NumbersOf(e) # {}
      <4>1. PICK n \in NumbersOf(e) : n >= floor
        BY <3>2
      <4>2. n \in S(0) /\ n \in Nat
        BY <1>1
      <4> DEFINE top == Max(S(0))
      <4>3. top >= n /\ top \in Nat /\ top \in NumbersOf(e) \cup {0}
        BY <2>1, <2>2, <4>2
      <4> HIDE DEF top
      <4>4. top >= floor
        BY <4>1, <4>2, <4>3
      <4> QED BY <4>3, <4>4 DEF top
    <3> QED BY <3>1, <3>2
  <2> HIDE DEF S
  <2>4. Max(S(floor)) >= Max(S(0)) /\ Max(S(0)) >= Max(S(floor))
    BY <2>1, <2>2, <2>3
  <2> QED BY <2>1, <2>2, <2>4
<1> QED BY <1>4, <1>5

(* What a load by the floor binds to a message of the wire is what a load  *)
(* of the whole table would: the scoped query leaves out nothing the wire  *)
(* needs, also of the rows that were written since the floor was read.     *)
THEOREM FloorCovers == Spec => []FloorCoversWire
<1>1. ASSUME TagInv, OrderInv PROVE FloorCoversWire
  <2>1. SUFFICES ASSUME NEW p \in Process, pass[p].at = "load", NEW e \in Wire(p) \ Tools
                 PROVE  Loaded(pass[p].floor)[e] = Loaded(0)[e]
    BY DEF FloorCoversWire
  <2>2. pass[p].floor \in Nat
    BY <1>1 DEF TagInv, TagTypeOK
  <2>3. e \in Part
    BY <1>1, Places DEF Wire
  <2>4. NumbersOf(e) # {} => \E n \in NumbersOf(e) : n >= pass[p].floor
    BY <1>1, <2>1 DEF OrderInv, FloorRead, FloorBelowOf
  <2> QED BY <1>1, <2>2, <2>3, <2>4, FloorBinds
<1>2. TagInv /\ OrderInv => FloorCoversWire
  BY <1>1
<1> QED BY OrderInvariant, <1>2, PTL
=============================================================================
