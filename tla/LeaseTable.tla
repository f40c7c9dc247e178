----------------------------- MODULE LeaseTable -----------------------------
(***************************************************************************)
(* What the management address allocator of Operation Crucible promises    *)
(* its callers: a table of leases in which a machine holds at most one     *)
(* address of the guest pool and no address is held twice, changed one     *)
(* whole lease at a time.  Files, crashes and retries do not exist at this *)
(* level; ManagementIPAM is shown to implement it.                         *)
(***************************************************************************)
CONSTANTS
  Machine,   \* the machine names
  Guest,     \* the pool of guest addresses
  NoLease    \* stands for "this machine has no address"

VARIABLE leases

Free == Guest \ {leases[m] : m \in Machine}

(***************************************************************************)
(* The table may start with the leases of earlier forges, as long as they  *)
(* are a legal table.                                                      *)
(***************************************************************************)
Init ==
  /\ leases \in [Machine -> Guest \cup {NoLease}]
  /\ \A m, n \in Machine :
       m # n /\ leases[m] # NoLease => leases[m] # leases[n]

Grant(m) ==
  /\ leases[m] = NoLease
  /\ \E a \in Free : leases' = [leases EXCEPT ![m] = a]

Revoke(m) ==
  /\ leases[m] # NoLease
  /\ leases' = [leases EXCEPT ![m] = NoLease]

Next == \E m \in Machine : Grant(m) \/ Revoke(m)

Spec == Init /\ [][Next]_leases

=============================================================================
