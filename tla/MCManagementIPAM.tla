-------------------------- MODULE MCManagementIPAM --------------------------
(***************************************************************************)
(* A small instance of ManagementIPAM for TLC.                             *)
(***************************************************************************)
EXTENDS ManagementIPAM

CONSTANTS m1, m2, m3, m4

MCMachine == {m1, m2, m3, m4}

(* Every file content over a few addresses, two of them outside the pool:  *)
(* duplicates, foreign headers and strayed cursors included.               *)
AnyPrior ==
  [header : {"current", "foreign"},
   next   : (FirstGuest - 1) .. (LastGuest + 1),
   leases : [MCMachine -> ((FirstGuest - 1) .. LastGuest) \cup {NoLease}]]

=============================================================================
