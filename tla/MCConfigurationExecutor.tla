---------------------- MODULE MCConfigurationExecutor ----------------------
(***************************************************************************)
(* ConfigurationExecutor over the plans that a small catalogue leads to:   *)
(* the configurations of the Linux profiles with their shipped orders, a   *)
(* hardening configuration that does not validate inline, and one whose    *)
(* playbook is missing.                                                    *)
(***************************************************************************)
EXTENDS ConfigurationExecutor

MCConfig == {"baseline", "nftables", "ubuntu-cis", "missing"}

MCRequires == [c \in MCConfig |-> IF c = "ubuntu-cis" THEN {"nftables"} ELSE {}]

MCOrder ==
  [c \in MCConfig |->
     CASE c = "baseline" -> 500
       [] c = "nftables" -> 900
       [] c = "ubuntu-cis" -> 950
       [] c = "missing" -> 950]

MCRank ==
  [c \in MCConfig |->
     CASE c = "baseline" -> 1
       [] c = "missing" -> 2
       [] c = "nftables" -> 3
       [] c = "ubuntu-cis" -> 4]

Catalog == INSTANCE ConfigurationCatalog WITH
  Config <- MCConfig, Profile <- {"ubuntu"},
  Supported <- MCConfig \X {"ubuntu"}, Selectable <- MCConfig,
  Requires <- MCRequires, Conflicts <- [c \in MCConfig |-> {}],
  Order <- MCOrder, Rank <- MCRank,
  Needs <- [c \in MCConfig |->
             [total |-> 0, static |-> 0, internal |-> 0, staticInternal |-> 0]],
  Implemented <- MCConfig, Declared <- [c \in MCConfig |-> [n \in {} |-> "str"]],
  RiskParameter <- [c \in MCConfig |-> ""], NoParameter <- "",
  Benchmark <- [c \in {} |-> "none"]

MCPlans ==
  {Catalog!BuildPlan(cs) :
     cs \in {ds \in SUBSET MCConfig :
               Catalog!ResolveAccepts(Catalog!BuildPlan(ds), "ubuntu")}}

=============================================================================
