------------------------ MODULE ConfigurationCatalog ------------------------
(***************************************************************************)
(* The rules of the configuration catalogue                                *)
(* (crucible/configurations/catalog.py): which selections of               *)
(* configurations a profile accepts, what they demand of the topology,     *)
(* which parameters they take, and in which order they are executed; and   *)
(* which hardening plans the entries of config/hardening.yml allow.        *)
(***************************************************************************)
EXTENDS Naturals, Sequences, FiniteSets

CONSTANTS
  Config,      \* configuration ids
  Profile,     \* operating-system profiles
  Supported,   \* pairs <<configuration, profile>> some selector matches
  Selectable,  \* configurations offered by the Forge
  Requires,    \* configuration -> configurations it requires
  Conflicts,   \* configuration -> configurations it conflicts with
  Order,       \* configuration -> implementation.order (500 by default)
  Rank,        \* configuration -> position of its id in string order
  Needs,       \* configuration -> network requirements
  Implemented, \* configurations with an implementation
  Declared,    \* configuration -> declared parameter -> type of its default
  RiskParameter, \* configuration -> hardening.risk_parameter, or NoParameter
  NoParameter,
  Benchmark    \* hardened configuration -> its entry in config/hardening.yml

Requirement ==
  [total : Nat, static : Nat, internal : Nat, staticInternal : Nat]

(* What the parser of the catalogue sees to: what is offered can be        *)
(* executed, and a risk parameter is declared with a string as default.    *)
CatalogParses ==
  /\ Selectable \subseteq Implemented
  /\ \A c \in Config : RiskParameter[c] # NoParameter =>
       /\ RiskParameter[c] \in DOMAIN Declared[c]
       /\ Declared[c][RiskParameter[c]] = "str"

ASSUME CatalogAssumption ==
  /\ Supported \subseteq Config \X Profile
  /\ Selectable \subseteq Config
  /\ Requires \in [Config -> SUBSET Config]
  /\ Conflicts \in [Config -> SUBSET Config]
  /\ Order \in [Config -> Nat]
  /\ Rank \in [Config -> Nat]
  /\ \A c, d \in Config : c # d => Rank[c] # Rank[d]
  /\ Needs \in [Config -> Requirement]
  /\ CatalogParses

-----------------------------------------------------------------------------
Chosen(selection) == {selection[i] : i \in DOMAIN selection}

CompatibleConfigurations(p) == {c \in Selectable : <<c, p>> \in Supported}

(* No duplicates, every id selectable and supported, requirements selected *)
(* too, no conflict selected; conflicts need be declared on one side only. *)
ResolveAccepts(selection, p) ==
  /\ Cardinality(Chosen(selection)) = Len(selection)
  /\ \A c \in Chosen(selection) :
       /\ c \in CompatibleConfigurations(p)
       /\ Requires[c] \subseteq Chosen(selection)
       /\ Conflicts[c] \cap Chosen(selection) = {}

-----------------------------------------------------------------------------
NoNeeds == [total |-> 0, static |-> 0, internal |-> 0, staticInternal |-> 0]

MaxOf(S) == CHOOSE x \in S : \A y \in S : y <= x

CombineNeeds(cs) ==
  IF cs = {} THEN NoNeeds
  ELSE [f \in DOMAIN NoNeeds |-> MaxOf({Needs[c][f] : c \in cs})]

EffectiveTotal(need) ==
  MaxOf({need.total, need.static, need.internal, need.staticInternal})

Interface == [attachment : {"intnet", "bridged"}, ipv4 : {"static", "dhcp"}]

CountInterfaces(topology, kinds) ==
  Cardinality({i \in DOMAIN topology : topology[i] \in kinds})

IsStatic == {nic \in Interface : nic.ipv4 = "static"}
IsInternal == {nic \in Interface : nic.attachment = "intnet"}
IsStaticInternal == IsStatic \cap IsInternal

(* Static and internal interfaces are counted, but not the interfaces that *)
(* are both.                                                               *)
TopologyAcceptsMutant(topology, need) ==
  /\ Len(topology) >= EffectiveTotal(need)
  /\ CountInterfaces(topology, IsStatic) >= need.static
  /\ CountInterfaces(topology, IsInternal) >= need.internal

TopologyAccepts(topology, need) ==
  /\ Len(topology) >= EffectiveTotal(need)
  /\ CountInterfaces(topology, IsStatic) >= need.static
  /\ CountInterfaces(topology, IsInternal) >= need.internal
  /\ CountInterfaces(topology, IsStaticInternal) >= need.staticInternal

-----------------------------------------------------------------------------
(* resolve_configuration_parameters: only declared parameters, and each of *)
(* the type of its default; null stands for any type.                      *)
ParametersAccept(c, overrides) ==
  /\ DOMAIN overrides \subseteq DOMAIN Declared[c]
  /\ \A n \in DOMAIN overrides : Declared[c][n] \in {"null", overrides[n]}

(* The benchmark profiles that are candidates for a machine.               *)
CandidateProfiles(b, p) ==
  LET applicable ==
        {q \in b.profiles : b.appliesTo[q] = {} \/ p \in b.appliesTo[q]}
      defaults == {q \in b.profiles : p \in b.defaultFor[q]}
  IN  IF b.requested # "auto" THEN applicable \cap {b.requested}
      ELSE IF defaults # {} THEN defaults ELSE applicable

(* validate_manifest_hardening, with the profile and the empty list of     *)
(* exceptions that the catalogue gives as defaults: one candidate, to      *)
(* which some controls belong.                                             *)
HardeningAccepts(c, p) ==
  c \in DOMAIN Benchmark =>
    LET b == Benchmark[c]
    IN  /\ b.implemented
        /\ p \in b.supported
        /\ Cardinality(CandidateProfiles(b, p)) = 1
        /\ CandidateProfiles(b, p) \subseteq b.controlled

(* Whatever profile a selector of the catalogue matches, the benchmark of  *)
(* the other file has one plan for. Nothing checks it before a manifest.   *)
BenchmarksFit ==
  \A c \in Config, p \in Profile :
    <<c, p>> \in Supported => HardeningAccepts(c, p)

-----------------------------------------------------------------------------
Precedes(c, d) ==
  \/ Order[c] < Order[d]
  \/ Order[c] = Order[d] /\ Rank[c] < Rank[d]

(* Every configuration stands behind those it requires. The catalogue is   *)
(* not refused otherwise: its author has to choose the numbers so.         *)
OrdersAgree == \A c \in Config : \A r \in Requires[c] : Precedes(r, c)

(* The selected configurations sorted by id alone.                         *)
BuildPlanMutant(cs) ==
  [i \in 1 .. Cardinality(cs) |->
     CHOOSE c \in cs : Cardinality({d \in cs : Rank[d] < Rank[c]}) = i - 1]

(* build_configuration_execution_plan refuses what it cannot execute.      *)
PlanAccepts(cs) == cs \subseteq Implemented

(* The selected configurations sorted by order, then by id.                *)
BuildPlan(cs) ==
  [i \in 1 .. Cardinality(cs) |->
     CHOOSE c \in cs : Cardinality({d \in cs : Precedes(d, c)}) = i - 1]

=============================================================================
