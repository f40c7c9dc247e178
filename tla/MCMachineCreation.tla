------------------------- MODULE MCMachineCreation -------------------------
(***************************************************************************)
(* Two names and five manifests, one of each family: with and without      *)
(* topology, internet, management, Secure Boot and start.                  *)
(***************************************************************************)
EXTENDS MachineCreation, TLC

CONSTANTS i1, i2

MCIface == {i1, i2}

(* No property tells the interfaces apart, nor does the abstract machine.  *)
MCSymmetry == Permutations(MCIface)

MCName == {"a", "b"}

Of(n, f, t, i, g, s, start) ==
  [name |-> n, family |-> f, topology |-> t, internet |-> i,
   management |-> g, secure |-> s, start |-> start]

MCJob ==
  {Of("a", "ubuntu-server", 1, TRUE, TRUE, FALSE, TRUE),
   Of("a", "kali", 0, TRUE, TRUE, FALSE, TRUE),
   Of("b", "windows", 1, TRUE, TRUE, TRUE, TRUE),
   Of("b", "ubuntu-desktop", 1, FALSE, TRUE, FALSE, TRUE),
   Of("a", "manual", 1, TRUE, FALSE, FALSE, FALSE)}

=============================================================================
