-------------------------- MODULE MCLinuxReadiness --------------------------
(***************************************************************************)
(* LinuxReadiness for both distributions, with and without Guest           *)
(* Additions, and up to two power losses of the installed guest.           *)
(***************************************************************************)
EXTENDS LinuxReadiness

=============================================================================
