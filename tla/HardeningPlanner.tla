-------------------------- MODULE HardeningPlanner --------------------------
(***************************************************************************)
(* From an entry of the hardening catalogue to the plan the Ansible role   *)
(* follows: the entry is parsed (hardening/catalog.py), the manifest's     *)
(* parameters are read (hardening/integration.py), a benchmark profile is  *)
(* resolved and every control is put where the role looks for it           *)
(* (hardening/planner.py).  Controls that would switch off what a selected *)
(* configuration provides, or what the machine is managed through, become  *)
(* derived exceptions.  An error ends the creation of the machine.         *)
(***************************************************************************)
EXTENDS Naturals, Sequences, FiniteSets

CONSTANTS
  Machine,         \* operating-system profiles of Crucible
  Profile,         \* profiles a benchmark may define
  Control,         \* controls of the benchmark's controls file
  ControlProfiles, \* control -> the profiles it belongs to
  Implementation,  \* control -> crucible_implementation
  Preserves,       \* control -> its preserve-if-capability tags
  Configuration,   \* configurations that can be selected with the benchmark
  Provides,        \* configuration -> its capabilities
  Transport,       \* machine -> management.transport
  Protocol,        \* machine -> management.protocol, "" when absent
  MaxExceptions    \* bound: exceptions in a manifest

Bucket == {"automated", "conditional", "audit_only", "satisfied_elsewhere",
           "manual", "not_implemented"}

ASSUME PlannerAssumption ==
  /\ ControlProfiles \in [Control -> (SUBSET Profile) \ {{}}]
  /\ Implementation \in [Control -> Bucket]
  /\ DOMAIN Preserves = Control /\ \A c \in Control : "" \notin Preserves[c]
  /\ DOMAIN Provides = Configuration
  /\ DOMAIN Transport = Machine /\ DOMAIN Protocol = Machine
  /\ {"auto", "unknown"} \cap Profile = {} /\ "unknown" \notin Control
  /\ MaxExceptions \in Nat

(* An entry as its author wrote it.                                        *)
Entry ==
  [implemented : BOOLEAN,
   isOs        : BOOLEAN,
   supported   : SUBSET Machine,
   profiles    : SUBSET Profile,
   appliesTo   : [Profile -> SUBSET Machine],
   defaultFor  : [Profile -> SUBSET Machine]]

VARIABLES
  phase,       \* how far the entry has come, or "error"
  entry,       \* the benchmark's entry in config/hardening.yml
  machine,     \* the manifest's profile
  selected,    \* the manifest's configurations beside the benchmark's own
  requested,   \* the profile parameter
  exceptions,  \* the exceptions parameter
  profile,     \* the resolved profile
  todo,        \* controls the loop has still to place
  derived,     \* derived exceptions
  bucket       \* the lists of the plan

manifest == <<machine, selected, requested, exceptions>>

plan == <<profile, todo, derived, bucket>>

vars == <<phase, entry, manifest, plan>>

SequencesUpTo(S, n) == UNION {[1 .. k -> S] : k \in 0 .. n}

-----------------------------------------------------------------------------
Init ==
  /\ phase = "load"
  /\ entry \in Entry
  /\ machine \in Machine
  /\ selected = {} /\ requested = "auto" /\ exceptions = <<>>
  /\ profile = "auto" /\ todo = {} /\ derived = {}
  /\ bucket = [b \in Bucket |-> {}]

(* Definitions whose names end in Mutant are faulty variants of the one    *)
(* that follows: default_for is not compared with applies_to.              *)
ProfilesParseMutant(e) == e.implemented => e.profiles # {}

(* _parse_profiles, and what an implemented benchmark needs.               *)
ProfilesParse(e) ==
  /\ \A p \in e.profiles : e.defaultFor[p] \subseteq e.appliesTo[p]
  /\ e.implemented => e.profiles # {}

(***************************************************************************)
(* load_hardening_catalog, the status build_hardening_plan asks for and    *)
(* load_benchmark_controls, whose controls name profiles of the entry      *)
(* only: every refusal is the same error.                                  *)
(***************************************************************************)
Load ==
  /\ phase = "load"
  /\ IF /\ entry.isOs => entry.supported # {}
        /\ ProfilesParse(entry)
        /\ entry.implemented
        /\ \A c \in Control : ControlProfiles[c] \subseteq entry.profiles
     THEN phase' = "manifest"
     ELSE phase' = "error"
  /\ UNCHANGED <<entry, manifest, plan>>

(* The parameters as the manifest gives them; "unknown" is no such name.   *)
ReadManifest ==
  /\ phase = "manifest"
  /\ selected' \in SUBSET Configuration
  /\ requested' \in Profile \cup {"auto", "unknown"}
  /\ exceptions' \in SequencesUpTo(Control \cup {"unknown"}, MaxExceptions)
  /\ phase' = "resolve"
  /\ UNCHANGED <<entry, machine, plan>>

-----------------------------------------------------------------------------
DefaultCandidates == {p \in entry.profiles : machine \in entry.defaultFor[p]}

Applies(p) == entry.appliesTo[p] = {} \/ machine \in entry.appliesTo[p]

ApplicableProfiles == {p \in entry.profiles : Applies(p)}

(* resolve_hardening_profile returns p.                                    *)
Resolves(p) ==
  /\ machine \in entry.supported
  /\ p \in entry.profiles
  /\ \/ requested = p /\ Applies(p)
     \/ requested = "auto" /\ DefaultCandidates = {p}
     \/ requested = "auto" /\ DefaultCandidates = {} /\ ApplicableProfiles = {p}

ApplicableControls == {c \in Control : profile \in ControlProfiles[c]}

Resolve ==
  /\ phase = "resolve"
  /\ \/ \E p \in Profile : Resolves(p) /\ profile' = p /\ phase' = "check"
     \/ /\ \A p \in Profile : ~Resolves(p)
        /\ phase' = "error"
        /\ profile' = profile
  /\ UNCHANGED <<entry, manifest, todo, derived, bucket>>

UserExceptions == {exceptions[i] : i \in DOMAIN exceptions}

(* No control at all, an exception given twice, one that is not applicable.*)
Check ==
  /\ phase = "check"
  /\ IF /\ ApplicableControls # {}
        /\ Cardinality(UserExceptions) = Len(exceptions)
        /\ UserExceptions \subseteq ApplicableControls
     THEN phase' = "place" /\ todo' = ApplicableControls
     ELSE phase' = "error" /\ todo' = todo
  /\ UNCHANGED <<entry, manifest, profile, derived, bucket>>

-----------------------------------------------------------------------------
(* The transport is passed on by its own name only.                        *)
MachineCapabilitiesMutant(m) == {Transport[m], Protocol[m]} \ {""}

(* derive_machine_hardening_capabilities: PSRP is carried by WinRM.        *)
MachineCapabilities(m) ==
  ({Transport[m], Protocol[m]} \ {""})
    \cup (IF Transport[m] \in {"psrp", "winrm"} THEN {"winrm"} ELSE {})

(* combine_configuration_capabilities and its union with the machine's.    *)
Capabilities ==
  (UNION {Provides[k] : k \in selected}) \cup MachineCapabilities(machine)

(* The loop over the applicable controls.                                  *)
SkipException(c) ==
  /\ c \in UserExceptions
  /\ UNCHANGED <<derived, bucket>>

Preserve(c) ==
  /\ c \notin UserExceptions
  /\ Preserves[c] \cap Capabilities # {}
  /\ derived' = derived \cup {c}
  /\ UNCHANGED bucket

Assign(c) ==
  /\ c \notin UserExceptions
  /\ Preserves[c] \cap Capabilities = {}
  /\ bucket' = [bucket EXCEPT ![Implementation[c]] = @ \cup {c}]
  /\ UNCHANGED derived

Place ==
  /\ phase = "place"
  /\ \E c \in todo :
       /\ SkipException(c) \/ Preserve(c) \/ Assign(c)
       /\ todo' = todo \ {c}
  /\ UNCHANGED <<phase, entry, manifest, profile>>

Planned ==
  /\ phase = "place"
  /\ todo = {}
  /\ phase' = "planned"
  /\ UNCHANGED <<entry, manifest, plan>>

Done == phase \in {"planned", "error"} /\ UNCHANGED vars

Next == Load \/ ReadManifest \/ Resolve \/ Check \/ Place \/ Planned \/ Done

Spec == Init /\ [][Next]_vars

-----------------------------------------------------------------------------
Remediated == bucket["automated"] \cup bucket["conditional"]

(***************************************************************************)
(* A machine is hardened with a profile written for it, asked for or       *)
(* found: the planner never compares a default with the machine and        *)
(* relies on the catalogue's parser for that.                              *)
(***************************************************************************)
ProfileFitsMachine ==
  phase = "planned" =>
    entry.appliesTo[profile] = {} \/ machine \in entry.appliesTo[profile]

(***************************************************************************)
(* Hardening switches off no service that another selected configuration   *)
(* provides, and never the channel the machine is managed through, which   *)
(* for PSRP is WinRM.                                                      *)
(***************************************************************************)
ServicesSurvive ==
  phase = "planned" =>
    \A c \in Remediated :
      /\ \A k \in selected : Preserves[c] \cap Provides[k] = {}
      /\ Transport[machine] = "psrp" => "winrm" \notin Preserves[c]
      /\ Transport[machine] \notin Preserves[c]
=============================================================================
