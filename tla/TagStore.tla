-------------------------------- MODULE TagStore --------------------------------
(***************************************************************************)
(* The numbers that name the parts of a session (features/magic-context/   *)
(* tagger.ts, storage-tags.ts).  Each process of a session keeps a         *)
(* counter and a map from parts to numbers beside the tags table they      *)
(* share, and a context pass gives a number to every part of the wire that *)
(* has none: it looks the part up, reads the greatest number, and inserts  *)
(* the next one, three statements between which another process can write. *)
(*                                                                         *)
(* A part is a message text (one row per insert) or a tool call (one row   *)
(* per owner and call, by a unique index).  The wire of a process is its   *)
(* branch from the first part the compaction left to the last one it has   *)
(* seen.                                                                   *)
(***************************************************************************)
EXTENDS Integers, Sequences, FiniteSetsExt

CONSTANTS Process,
          Part,
          Tools,        \* the parts that are tool calls
          Branch,       \* what each process sees of the session, in order
          Recognises,   \* processes whose SQLite driver gives a collision
                        \* the code isUniqueConstraintError asks for
          Retries,      \* MAX_TAG_ALLOC_RETRIES
          Margin,       \* TAGGER_FLOOR_SAFETY_MARGIN
          MaxRare       \* bound: restarts, moves of the head and refused writes

ASSUME TagAssumption ==
  /\ IsFiniteSet(Process) /\ IsFiniteSet(Part)
  /\ Tools \subseteq Part
  /\ DOMAIN Branch = Process
  /\ \A p \in Process : Branch[p] \in Seq(Part)
  /\ Recognises \subseteq Process
  /\ Retries \in Nat \ {0}
  /\ Margin \in Nat
  /\ MaxRare \in Nat

(* A session is a tree of entries: a part has one place in it, and what    *)
(* comes before it on any branch is its path from the root.                *)
ASSUME TreeAssumption ==
  \A p, q \in Process : \A i \in DOMAIN Branch[p], j \in DOMAIN Branch[q] :
    Branch[p][i] = Branch[q][j] =>
      i = j /\ \A k \in 1..i : Branch[p][k] = Branch[q][k]

VARIABLES rows,     \* the tags table
          stored,   \* session_meta.counter
          mem,      \* per process: counters, assignments, loadSignatures
          pass,     \* per process: where its context pass is
          wire,     \* per process: first and last position of its wire
          changed,  \* per process: data_version moved since it last probed
          rare

vars == <<rows, stored, mem, pass, wire, changed, rare>>

Row == [number : Nat \ {0}, part : Part]

None == -1          \* no load signature

Unbound == [e \in Part |-> 0]

Forgotten == [counter |-> 0, bound |-> Unbound, floor |-> None]

NoPass == [at |-> "idle", floor |-> 0, next |-> 0, tries |-> 0]

Walking == [NoPass EXCEPT !.at = "tag"]

Init ==
  /\ rows = {}
  /\ stored = 0
  /\ mem = [p \in Process |-> Forgotten]
  /\ pass = [p \in Process |-> NoPass]
  /\ wire = [p \in Process |-> [head |-> 1, last |-> 0]]
  /\ changed = [p \in Process |-> FALSE]
  /\ rare = 0

Greater(a, b) == IF a >= b THEN a ELSE b

NumbersOf(e) == {r.number : r \in {s \in rows : s.part = e}}

(* getMaxTagNumberBySession                                                *)
MaxNumber == Max({r.number : r \in rows} \cup {0})

(* dbExistingLookup: the lowest number of the part, 0 if it has no row.    *)
Lookup(e) == IF NumbersOf(e) = {} THEN 0 ELSE Min(NumbersOf(e))

(* Mutant: the tags table has no unique key on the number.                 *)
CollidesOnPart(n, e) == e \in Tools /\ NumbersOf(e) # {}

(* The unique keys of the tags table.                                      *)
Collides(n, e) ==
  \/ \E r \in rows : r.number = n
  \/ e \in Tools /\ NumbersOf(e) # {}

Wire(p) == {Branch[p][i] : i \in wire[p].head..wire[p].last}

Untagged(p) == {i \in wire[p].head..wire[p].last : mem[p].bound[Branch[p][i]] = 0}

(* Mutant: the pass walks the wire from its end.                           *)
LastUntagged(p) == Branch[p][Max(Untagged(p))]

(* The part a pass is at: tagTranscript walks the wire in order, and the   *)
(* map answers for the parts that have a number.                           *)
Current(p) == Branch[p][Min(Untagged(p))]

Walks(p) == pass' = [pass EXCEPT ![p] = Walking]

(* A commit of p moves the data_version the other connections see.         *)
Commits(p) == changed' = [q \in Process |-> changed[q] \/ q # p]

(* Mutant: a number below the counter is not bound.                        *)
BindNewest(p, e, n, counter) ==
  mem' = IF n < counter THEN mem
                        ELSE [mem EXCEPT ![p].bound[e] = n, ![p].counter = counter]

Bind(p, e, n, counter) ==
  mem' = [mem EXCEPT ![p].bound[e] = n, ![p].counter = counter]

-----------------------------------------------------------------------------
(* A turn appends a part to the branch of a process.                       *)
Grow(p) ==
  /\ pass[p].at = "idle"
  /\ wire[p].last + 1 \in DOMAIN Branch[p]
  /\ wire' = [wire EXCEPT ![p].last = @ + 1]
  /\ UNCHANGED <<rows, stored, mem, pass, changed, rare>>

(* A compaction moves the head of the wire over parts that were tagged,    *)
(* and a tree navigation moves it back.                                    *)
MoveHead(p) ==
  /\ pass[p].at = "idle"
  /\ rare < MaxRare
  /\ \E k \in 1..wire[p].last :
       /\ k # wire[p].head
       /\ \A i \in 1..(k - 1) : NumbersOf(Branch[p][i]) # {}
       /\ wire' = [wire EXCEPT ![p].head = k]
  /\ rare' = rare + 1
  /\ UNCHANGED <<rows, stored, mem, pass, changed>>

(* The process is restarted at any point, or leaves the session between    *)
(* passes (cleanup).                                                       *)
Restart(p) ==
  /\ rare < MaxRare
  /\ mem[p] # Forgotten \/ pass[p].at # "idle"
  /\ mem' = [mem EXCEPT ![p] = Forgotten]
  /\ pass' = [pass EXCEPT ![p] = NoPass]
  /\ changed' = [changed EXCEPT ![p] = FALSE]
  /\ rare' = rare + 1
  /\ UNCHANGED <<rows, stored, wire>>

-----------------------------------------------------------------------------
(* Mutant: the floor is read from the highest row of the message.          *)
HighFloor(p) ==
  LET tagged == {i \in wire[p].head..wire[p].last :
                   Branch[p][i] \notin Tools /\ NumbersOf(Branch[p][i]) # {}}
  IN IF tagged = {} THEN 0
     ELSE Greater(Max(NumbersOf(Branch[p][Min(tagged)])) - Margin, 0)

(* deriveTagLoadFloor: the lowest number of the first message of the wire  *)
(* that has one, less the margin.                                          *)
Floor(p) ==
  LET tagged == {i \in wire[p].head..wire[p].last :
                   Branch[p][i] \notin Tools /\ NumbersOf(Branch[p][i]) # {}}
  IN IF tagged = {} THEN 0
     ELSE Greater(Min(NumbersOf(Branch[p][Min(tagged)])) - Margin, 0)

(* Mutant: a process that has a counter does not load again.               *)
NeverLoaded(p) == mem[p].floor = None

(* initFromDb: the signature of the last load does not hold any more.      *)
Outdated(p) == mem[p].floor # Floor(p) \/ changed[p]

(* A context pass begins and probes the data_version; it goes on to the    *)
(* tags at once when the last load still stands.                           *)
Begin(p) ==
  /\ pass[p].at = "idle"
  /\ IF Outdated(p)
       THEN /\ pass' = [pass EXCEPT ![p].at = "load", ![p].floor = Floor(p)]
            /\ changed' = [changed EXCEPT ![p] = FALSE]
       ELSE /\ Untagged(p) # {}
            /\ Walks(p)
            /\ UNCHANGED changed
  /\ UNCHANGED <<rows, stored, mem, wire, rare>>

(* The numbers of a reload: the row read last, which is the highest, binds *)
(* the part.                                                               *)
Loaded(floor) ==
  [e \in Part |-> Max({n \in NumbersOf(e) : n >= floor} \cup {0})]

(* initFromDb reads the counter and the rows from the floor on.            *)
Load(p) ==
  /\ pass[p].at = "load"
  /\ mem' = [mem EXCEPT
       ![p].bound   = Loaded(pass[p].floor),
       ![p].counter = Max({@, stored} \cup {r.number : r \in {s \in rows : s.number >= pass[p].floor}}),
       ![p].floor   = pass[p].floor]
  /\ Walks(p)
  /\ UNCHANGED <<rows, stored, wire, changed, rare>>

(* Every part of the wire has a number: tagTranscript is done.             *)
Done(p) ==
  /\ pass[p].at = "tag"
  /\ Untagged(p) = {}
  /\ pass' = [pass EXCEPT ![p] = NoPass]
  /\ UNCHANGED <<rows, stored, mem, wire, changed, rare>>

(* The part has a row: bind it, and raise the counters to it.              *)
Adopt(p, e) ==
  LET counter == Greater(mem[p].counter, Lookup(e))
  IN /\ Lookup(e) # 0
     /\ Bind(p, e, Lookup(e), counter)
     /\ stored' = Greater(stored, counter)
     /\ Commits(p)
     /\ Walks(p)
     /\ UNCHANGED <<rows, wire, rare>>

LookUp(p) ==
  /\ pass[p].at = "tag"
  /\ Untagged(p) # {}
  /\ \/ Adopt(p, Current(p))
     \/ /\ Lookup(Current(p)) = 0
        /\ pass' = [pass EXCEPT ![p].at = "propose"]
        /\ UNCHANGED <<rows, stored, mem, wire, changed, rare>>

(* Mutant: the next number is one too low.                                 *)
SameNumber(p) == Greater(mem[p].counter, MaxNumber)

NextNumber(p) == Greater(mem[p].counter, MaxNumber) + 1

Propose(p) ==
  /\ pass[p].at = "propose"
  /\ pass' = [pass EXCEPT ![p].at = "insert", ![p].next = NextNumber(p)]
  /\ UNCHANGED <<rows, stored, mem, wire, changed, rare>>

(* Mutant: the loop is not left after a commit, and the map not set.       *)
InsertAndLoop(p) ==
  /\ pass[p].at = "insert"
  /\ ~Collides(pass[p].next, Current(p))
  /\ rows' = rows \cup {[number |-> pass[p].next, part |-> Current(p)]}
  /\ stored' = Greater(stored, pass[p].next)
  /\ Commits(p)
  /\ mem' = [mem EXCEPT ![p].counter = pass[p].next]
  /\ pass' = [pass EXCEPT ![p] =
       IF @.tries + 1 < Retries THEN [NoPass EXCEPT !.at = "propose", !.tries = pass[p].tries + 1]
                                ELSE Walking]
  /\ UNCHANGED <<wire, rare>>

(* The transaction that inserts the row and raises the counter commits.    *)
Insert(p) ==
  /\ pass[p].at = "insert"
  /\ ~Collides(pass[p].next, Current(p))
  /\ rows' = rows \cup {[number |-> pass[p].next, part |-> Current(p)]}
  /\ stored' = Greater(stored, pass[p].next)
  /\ Commits(p)
  /\ Bind(p, Current(p), pass[p].next, pass[p].next)
  /\ Walks(p)
  /\ UNCHANGED <<wire, rare>>

(* It violates a unique key: an error with another code ends the pass.     *)
Collide(p) ==
  /\ pass[p].at = "insert"
  /\ Collides(pass[p].next, Current(p))
  /\ pass' = [pass EXCEPT ![p] = IF p \in Recognises THEN [@ EXCEPT !.at = "recheck"]
                                                     ELSE NoPass]
  /\ UNCHANGED <<rows, stored, mem, wire, changed, rare>>

(* The write is refused for another reason (a locked database).            *)
Refused(p) ==
  /\ pass[p].at = "insert"
  /\ rare < MaxRare
  /\ pass' = [pass EXCEPT ![p] = NoPass]
  /\ rare' = rare + 1
  /\ UNCHANGED <<rows, stored, mem, wire, changed>>

(* After a collision: another process has tagged this very part, or took   *)
(* the number for another one, and the loop goes round.                    *)
Recheck(p) ==
  /\ pass[p].at = "recheck"
  /\ \/ Adopt(p, Current(p))
     \/ /\ Lookup(Current(p)) = 0
        /\ mem' = [mem EXCEPT ![p].counter = Greater(@, MaxNumber)]
        /\ pass' = [pass EXCEPT ![p] =
             IF @.tries + 1 < Retries THEN [NoPass EXCEPT !.at = "propose", !.tries = pass[p].tries + 1]
                                      ELSE NoPass]
        /\ UNCHANGED <<rows, stored, wire, changed, rare>>

-----------------------------------------------------------------------------
Tagging(p) ==
  \/ Begin(p) \/ Load(p) \/ Done(p) \/ LookUp(p) \/ Propose(p)
  \/ Insert(p) \/ Collide(p) \/ Recheck(p)

Next ==
  \E p \in Process :
    \/ Tagging(p)
    \/ Grow(p) \/ MoveHead(p) \/ Restart(p) \/ Refused(p)

Spec == Init /\ [][Next]_vars

(* Passes go on and turns append what is left of the branch.               *)
FairSpec == Spec /\ \A p \in Process : WF_vars(Tagging(p)) /\ SF_vars(Grow(p))

-----------------------------------------------------------------------------
(* The variables have the values their comments say.                       *)
TagTypeOK ==
  /\ rows \subseteq Row
  /\ stored \in Nat
  /\ mem \in [Process -> [counter : Nat, bound : [Part -> Nat], floor : Nat \cup {None}]]
  /\ pass \in [Process -> [at    : {"idle", "load", "tag", "propose", "insert", "recheck"},
                           floor : Nat, next : Nat, tries : 0..(Retries - 1)]]
  /\ wire \in [Process -> [head : Nat \ {0}, last : Nat]]
  /\ changed \in [Process -> BOOLEAN]
  /\ rare \in 0..MaxRare

(* A number names one part, whichever process gave it, and what a process  *)
(* has in memory is a row of that part: a drop by number never reaches     *)
(* another part.                                                           *)
NumberNamesOne ==
  /\ \A r, s \in rows : r.number = s.number => r = s
  /\ \A p \in Process, e \in Part :
       mem[p].bound[e] # 0 => [number |-> mem[p].bound[e], part |-> e] \in rows

(* No process numbers a part twice: a message, which no unique index       *)
(* guards, has at most one row for each process that raced for it.  A      *)
(* restart, a reload whose floor leaves the part out, a moved head, a      *)
(* refused write or a retry after a collision adds none.                   *)
RowsAreFew == \A e \in Part : Cardinality(NumbersOf(e)) <= Cardinality(Process)

(* Parts are numbered in the order of the branch, whoever tags them; the   *)
(* load floor relies on it (GET_ASSIGNMENTS_SCOPED_SQL).                   *)
NumbersFollowBranch ==
  \A p \in Process : \A i, j \in DOMAIN Branch[p] :
    /\ i < j
    /\ NumbersOf(Branch[p][i]) # {}
    /\ NumbersOf(Branch[p][j]) # {}
    => Lookup(Branch[p][i]) < Lookup(Branch[p][j])

(* A load by the floor leaves out no message of the wire: what it binds is *)
(* what a load of the whole session binds.                                 *)
FloorCoversWire ==
  \A p \in Process : pass[p].at = "load" =>
    \A e \in Wire(p) \ Tools : Loaded(pass[p].floor)[e] = Loaded(0)[e]

(* The processes come to bind the same number to a part, even if each      *)
(* inserted a row for it: from some point on they never disagree.          *)
BindingsConverge ==
  \A p, q \in Process :
    <>[](\A e \in Part : mem[p].bound[e] \in {0, mem[q].bound[e]} \/ mem[q].bound[e] = 0)

(* Every process comes to tag its whole branch, and again after each       *)
(* reload, a collision it does not recognise and a loop that gives up      *)
(* notwithstanding: the next pass goes on.                                 *)
WireIsTagged ==
  \A p \in Process : []<>(wire[p].last = Len(Branch[p]) /\ Untagged(p) = {})
=============================================================================
