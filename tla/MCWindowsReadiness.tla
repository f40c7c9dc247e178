------------------------- MODULE MCWindowsReadiness -------------------------
(***************************************************************************)
(* WindowsReadiness with small limits: one run of the script may do two    *)
(* update passes and the guest be restarted for updates once or twice, so  *)
(* that both limits are reached.                                           *)
(***************************************************************************)
EXTENDS WindowsReadiness

=============================================================================
