----------------------------- MODULE PreviewLease -----------------------------
(***************************************************************************)
(* What previews promise: an account holds one lease at most, and a lease  *)
(* that is over, because it was stopped, replaced or left to expire, is    *)
(* never held again.                                                       *)
(***************************************************************************)
CONSTANTS
  Owners,    \* accounts
  Leases,    \* leases, each the pair of an account and a lease id
  NoLease,   \* an account without preview
  OwnerOf    \* the account of each lease

VARIABLES
  holder,    \* the lease each account holds
  over       \* the leases that are over

Init ==
  /\ holder = [o \in Owners |-> NoLease]
  /\ over = {}

\* A lease is taken; the one the account held is over.
Take(l) ==
  /\ l \notin over
  /\ holder[OwnerOf[l]] # l
  /\ holder' = [holder EXCEPT ![OwnerOf[l]] = l]
  /\ over' = over \union ({holder[OwnerOf[l]]} \ {NoLease})

\* Leases are over, whether they were held or not.
End(ls) ==
  /\ holder' = [o \in Owners |-> IF holder[o] \in ls THEN NoLease ELSE holder[o]]
  /\ over' = over \union ls

Next ==
  \/ \E l \in Leases : Take(l)
  \/ \E ls \in SUBSET Leases : End(ls)

Spec == Init /\ [][Next]_<<holder, over>>

=============================================================================
