----------------------- MODULE ConfigurationSelection -----------------------
(***************************************************************************)
(* How the Forge arrives at a set of configurations, their parameters and  *)
(* a topology that fits them: the user enters numbers until a selection    *)
(* resolves, a risk tier for each hardening, interfaces until they satisfy *)
(* the combined requirements, and the parameters of Active Directory. The  *)
(* manifest written from the answers is judged twice more, by the machine  *)
(* creation and by the executor, and by rules no question asked about.     *)
(* Answers that are refused are asked for again and change nothing.        *)
(***************************************************************************)
EXTENDS ConfigurationCatalog

CONSTANTS
  ActiveDirectory, \* ACTIVE_DIRECTORY_CONFIGURATION_ID
  MaxSelection,    \* bound: numbers the user enters at most
  MaxTopology      \* MAX_TOPOLOGY_NICS; bound: interfaces at most

ASSUME BoundAssumption == MaxSelection \in Nat /\ MaxTopology \in Nat

VARIABLES
  phase, profile, selection, topology, plan,
  parameters   \* configuration -> the parameters written to the manifest

selectionVars == <<phase, profile, selection, topology, plan, parameters>>

SequencesUpTo(S, n) == UNION {[1 .. k -> S] : k \in 0 .. n}

-----------------------------------------------------------------------------
(* Parameters are told apart by the types of their values. The number of   *)
(* the risk tier is written as it is.                                      *)
RiskAnswerMutant(c) == [n \in {RiskParameter[c]} \ {NoParameter} |-> "int"]

(* The risk tier, written as a string, for a hardening that asks for one.  *)
RiskAnswer(c) == [n \in {RiskParameter[c]} \ {NoParameter} |-> "str"]

(* What ask_active_directory_parameters returns.                           *)
DirectoryAnswers ==
  [deployment_mode |-> "str", dns_domain_name |-> "str",
   domain_netbios_name |-> "str", service_interface_label |-> "str",
   install_dns |-> "bool", create_dns_delegation |-> "bool",
   safe_mode_password |-> "str"]

Updated(old, new) ==
  [n \in DOMAIN old \cup DOMAIN new |->
     IF n \in DOMAIN new THEN new[n] ELSE old[n]]

NoParameters == [c \in Config |-> [n \in {} |-> "str"]]

(* The entry of Active Directory declares what the Forge asks for, and     *)
(* needs the interface the Forge binds it to.                              *)
DirectoryFits ==
  ActiveDirectory \in Config =>
    /\ Needs[ActiveDirectory].staticInternal > 0
    /\ ParametersAccept(ActiveDirectory, DirectoryAnswers)

-----------------------------------------------------------------------------
SelectionInit ==
  /\ phase = "selection"
  /\ profile \in Profile
  /\ selection = <<>>
  /\ topology = <<>>
  /\ plan = <<>>
  /\ parameters = NoParameters

(* ask_configuration_selection: "0" selects nothing; otherwise every       *)
(* number must be on the list, none twice, and the ids must resolve.       *)
AskConfigurationSelection ==
  /\ phase = "selection"
  /\ \E s \in SequencesUpTo(CompatibleConfigurations(profile), MaxSelection) :
       /\ ResolveAccepts(s, profile)
       /\ selection' = s
  /\ phase' = "risk"
  /\ UNCHANGED <<profile, topology, plan, parameters>>

(* ask_hardening_risk_parameters, up to the number of the tier.            *)
AskHardeningRiskParameters ==
  /\ phase = "risk"
  /\ parameters' =
       [c \in Config |->
          IF c \in Chosen(selection) THEN RiskAnswer(c) ELSE parameters[c]]
  /\ phase' = "topology"
  /\ UNCHANGED <<profile, selection, topology, plan>>

(* ask_configuration_aware_topology: more interfaces than the machine can  *)
(* have end the Forge, too few or unfit ones are asked for again.          *)
AskTopology ==
  /\ phase = "topology"
  /\ LET need == CombineNeeds(Chosen(selection)) IN
       /\ EffectiveTotal(need) <= MaxTopology
       /\ \E t \in SequencesUpTo(Interface, MaxTopology) :
            /\ Len(t) >= EffectiveTotal(need)
            /\ TopologyAccepts(t, need)
            /\ topology' = t
  /\ phase' = "service"
  /\ UNCHANGED <<profile, selection, plan, parameters>>

(* More interfaces are required than the Forge can ask for.                *)
RequirementsExceedMachine ==
  /\ phase = "topology"
  /\ EffectiveTotal(CombineNeeds(Chosen(selection))) > MaxTopology
  /\ phase' = "refused"
  /\ UNCHANGED <<profile, selection, topology, plan, parameters>>

(* ask_active_directory_parameters binds the service to a static internal  *)
(* interface. Without one the Forge ends, though the topology was accepted.*)
AskActiveDirectoryParameters ==
  /\ phase = "service"
  /\ LET asked == ActiveDirectory \in Chosen(selection)
         bound == CountInterfaces(topology, IsStaticInternal) > 0
     IN  /\ phase' = IF asked => bound THEN "manifest" ELSE "rejected"
         /\ parameters' =
              IF asked /\ bound
              THEN [parameters EXCEPT
                      ![ActiveDirectory] = Updated(@, DirectoryAnswers)]
              ELSE parameters
  /\ UNCHANGED <<profile, selection, topology, plan>>

(* validate_manifest_configurations and validate_manifest_hardening.       *)
ManifestAccepted ==
  /\ ResolveAccepts(selection, profile)
  /\ \A c \in Chosen(selection) : ParametersAccept(c, parameters[c])
  /\ TopologyAccepts(topology, CombineNeeds(Chosen(selection)))
  /\ \A c \in Chosen(selection) : HardeningAccepts(c, profile)

(* The machine creation looks before it touches VirtualBox.                *)
ValidateManifest ==
  /\ phase = "manifest"
  /\ phase' = IF ManifestAccepted THEN "created" ELSE "rejected"
  /\ UNCHANGED <<profile, selection, topology, plan, parameters>>

(* The executor looks again when the machine is there, then makes a plan.  *)
PlanExecution ==
  /\ phase = "created"
  /\ LET accepted == ManifestAccepted /\ PlanAccepts(Chosen(selection))
     IN  /\ phase' = IF accepted THEN "planned" ELSE "rejected"
         /\ plan' = IF accepted THEN BuildPlan(Chosen(selection)) ELSE plan
  /\ UNCHANGED <<profile, selection, topology, parameters>>

Done ==
  /\ phase \in {"planned", "rejected", "refused"}
  /\ UNCHANGED selectionVars

SelectionNext ==
  \/ AskConfigurationSelection
  \/ AskHardeningRiskParameters
  \/ AskTopology
  \/ RequirementsExceedMachine
  \/ AskActiveDirectoryParameters
  \/ ValidateManifest
  \/ PlanExecution
  \/ Done

SelectionSpec == SelectionInit /\ [][SelectionNext]_selectionVars

-----------------------------------------------------------------------------
(* A planned configuration has its requirements earlier in the plan, though *)
(* the code sorts by order numbers and never looks at "requires": the      *)
(* numbers of the shipped catalogue agree with its requirements.           *)
RequirementsComeFirst ==
  phase = "planned" =>
    \A i \in DOMAIN plan : \A r \in Requires[plan[i]] :
      \E j \in 1 .. i - 1 : plan[j] = r

(* A topology that reaches the manifest satisfies the needs of each        *)
(* selected configuration, not only their combination.                     *)
EveryNeedIsMet ==
  phase \in {"manifest", "created", "planned"} =>
    \A c \in Chosen(selection) :
      /\ CountInterfaces(topology, IsStaticInternal) >= Needs[c].staticInternal
      /\ TopologyAccepts(topology, Needs[c])

(* What the questions of the Forge accepted is never refused later: not by *)
(* the question for Active Directory, though the topology was accepted     *)
(* without it; not for the parameters the Forge filled in by itself; not   *)
(* for a benchmark, which no question looks at; not by the executor, when  *)
(* the machine exists. Parser, questions, validation and the entries of    *)
(* two files each hold a part of it.                                       *)
AnswersSurviveValidation == phase # "rejected"

=============================================================================
