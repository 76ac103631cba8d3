--------------------------- MODULE CompartmentLease ---------------------------
(***************************************************************************)
(* The row of compartment_state_lease a session has: who holds the right   *)
(* to write its compartments, and whether the row is still within its      *)
(* five-minute TTL (compartment-lease.ts).                                 *)
(*                                                                         *)
(* Time is abstracted to one bit.  Renewal runs every minute in the        *)
(* holder's own event loop, so a process that is suspended long enough     *)
(* loses the TTL at any moment, and a renewal that arrives in time leaves  *)
(* the bit as it was.  A holder id is a fresh UUID of one run, so a row    *)
(* whose run is gone is held by Orphan and nobody can renew or release it. *)
(***************************************************************************)

CONSTANTS Run,       \* the runs that may hold the lease
          Orphan,    \* the holder id of a run that crashed
          NoHolder   \* "the session has no row"

LeaseRow == [holder : Run \cup {Orphan, NoHolder}, live : BOOLEAN]

NoRow == [holder |-> NoHolder, live |-> FALSE]

(* acquireCompartmentLease: the upsert changes a row when there is none,   *)
(* when it is the caller's own, or when its expires_at has passed.         *)
CanAcquire(row, r) == row.holder \in {NoHolder, r} \/ ~row.live

Acquired(r) == [holder |-> r, live |-> TRUE]

(* isCompartmentLeaseHeld: the row names the caller.  The query does not   *)
(* look at expires_at, so an expired row nobody took still publishes.      *)
IsHeld(row, r) == row.holder = r

(* releaseCompartmentLease: DELETE ... WHERE holder_id = caller.           *)
Released(row, r) == IF row.holder = r THEN NoRow ELSE row

(* The TTL of the row passes.                                              *)
Expired(row) == [row EXCEPT !.live = FALSE]

(* The run that owns the row is gone: its UUID is nobody's any more.       *)
Orphaned(row, r) == IF row.holder = r THEN [row EXCEPT !.holder = Orphan] ELSE row
=============================================================================
