----------------------- MODULE HardeningPlanner_proof -----------------------
(***************************************************************************)
(* The plans of HardeningPlanner are sound for every benchmark, machine    *)
(* and selection.                                                          *)
(***************************************************************************)
EXTENDS HardeningPlanner, TLAPS

(* The lists of the plan and the exceptions divide the applicable controls:*)
(* the loop loses none, and puts none in two places.                       *)
EveryControlHasOneFate ==
  phase = "planned" =>
    /\ ApplicableControls
         = UserExceptions \cup derived \cup (UNION {bucket[b] : b \in Bucket})
    /\ UserExceptions \cap derived = {}
    /\ \A b \in Bucket : bucket[b] \cap (UserExceptions \cup derived) = {}
    /\ \A a, b \in Bucket : a # b => bucket[a] \cap bucket[b] = {}

-----------------------------------------------------------------------------
Phase == {"load", "manifest", "resolve", "check", "place", "planned", "error"}

(* Before the loop nothing is placed.                                      *)
NothingPlaced ==
  phase \in {"load", "manifest", "resolve", "check"} =>
    /\ derived = {}
    /\ \A b \in Bucket : bucket[b] = {}

(* A default that got past the parser applies.                             *)
DefaultsApply ==
  phase \notin {"load", "error"} =>
    \A p \in entry.profiles : entry.defaultFor[p] \subseteq entry.appliesTo[p]

ProfileApplies == phase \in {"check", "place", "planned"} => Applies(profile)

(* What stands in a list belongs there and is done with.                   *)
PlacedRightly ==
  phase \in {"place", "planned"} =>
    /\ todo \cup UserExceptions \subseteq ApplicableControls
    /\ \A b \in Bucket : \A c \in bucket[b] :
         /\ Implementation[c] = b
         /\ c \in ApplicableControls \ (UserExceptions \cup derived \cup todo)
         /\ Preserves[c] \cap Capabilities = {}
    /\ derived \subseteq ApplicableControls \ (UserExceptions \cup todo)

(* What stands in no list is still to be placed.                           *)
NoneLost ==
  phase \in {"place", "planned"} =>
    /\ \A c \in ApplicableControls :
         c \in todo \cup UserExceptions \cup derived \cup bucket[Implementation[c]]
    /\ phase = "planned" => todo = {}

Shape ==
  /\ phase \in Phase
  /\ bucket \in [Bucket -> SUBSET Control]
  /\ todo \subseteq Control

IInv == Shape /\ NothingPlaced /\ DefaultsApply /\ ProfileApplies
          /\ PlacedRightly /\ NoneLost

(* The parser and the manifest.                                            *)
LEMMA LoadKeeps == IInv /\ (Load \/ ReadManifest) => IInv'
<1> SUFFICES ASSUME IInv, Load \/ ReadManifest PROVE IInv'
  OBVIOUS
<1>1. CASE Load
  BY <1>1 DEF IInv, Shape, Phase, NothingPlaced, DefaultsApply, ProfileApplies,
     PlacedRightly, NoneLost, Load, ProfilesParse, manifest, plan
<1>2. CASE ReadManifest
  BY <1>2 DEF IInv, Shape, Phase, NothingPlaced, DefaultsApply, ProfileApplies,
     PlacedRightly, NoneLost, ReadManifest, plan
<1> QED
  BY <1>1, <1>2

(* The resolved profile applies, whichever way it was found.               *)
LEMMA ResolveKeeps == IInv /\ Resolve => IInv'
<1> SUFFICES ASSUME IInv, Resolve PROVE IInv'
  OBVIOUS
<1>1. ASSUME NEW p \in Profile, Resolves(p)
      PROVE  Applies(p)
  <2>1. \A q \in entry.profiles : entry.defaultFor[q] \subseteq entry.appliesTo[q]
    BY DEF IInv, DefaultsApply, Resolve
  <2>2. p \in entry.profiles
    BY <1>1 DEF Resolves
  <2>3. CASE DefaultCandidates = {p}
    BY <2>1, <2>2, <2>3 DEF DefaultCandidates, Applies
  <2>4. CASE ApplicableProfiles = {p}
    BY <2>4 DEF ApplicableProfiles
  <2> QED
    BY <1>1, <2>3, <2>4 DEF Resolves
<1>2. ProfileApplies'
  BY <1>1 DEF Resolve, ProfileApplies, Applies, manifest
<1> QED
  BY <1>2 DEF IInv, Shape, Phase, NothingPlaced, DefaultsApply, PlacedRightly,
     NoneLost, Resolve, manifest

LEMMA CheckKeeps == IInv /\ Check => IInv'
<1> SUFFICES ASSUME IInv, Check PROVE IInv'
  OBVIOUS
<1>1. /\ ApplicableControls' = ApplicableControls
      /\ UserExceptions' = UserExceptions
      /\ Capabilities' = Capabilities
      /\ Applies(profile)' = Applies(profile)
  BY DEF Check, ApplicableControls, UserExceptions, Capabilities,
     MachineCapabilities, Applies, manifest
<1>2. ApplicableControls \subseteq Control
  BY DEF ApplicableControls
<1> QED
  BY <1>1, <1>2 DEF IInv, Shape, Phase, NothingPlaced, DefaultsApply,
     ProfileApplies, PlacedRightly, NoneLost, Check

(* One round of the loop.                                                  *)
LEMMA PlaceKeeps == IInv /\ Place => IInv'
<1> SUFFICES ASSUME IInv, Place PROVE IInv'
  OBVIOUS
<1>1. /\ ApplicableControls' = ApplicableControls
      /\ UserExceptions' = UserExceptions
      /\ Capabilities' = Capabilities
      /\ Applies(profile)' = Applies(profile)
  BY DEF Place, ApplicableControls, UserExceptions, Capabilities,
     MachineCapabilities, Applies, manifest
<1>2. PICK c \in todo : /\ SkipException(c) \/ Preserve(c) \/ Assign(c)
                        /\ todo' = todo \ {c}
  BY DEF Place
<1>3. /\ phase = "place" /\ phase' = "place"
      /\ entry' = entry /\ profile' = profile
      /\ c \in Control
  BY <1>2 DEF Place, IInv, Shape
<1>4. Implementation[c] \in Bucket /\ \A d \in Control : Implementation[d] \in Bucket
  BY <1>3, PlannerAssumption
<1>5. Shape' /\ NothingPlaced' /\ DefaultsApply' /\ ProfileApplies'
  BY <1>1, <1>2, <1>3, <1>4 DEF IInv, Shape, Phase, NothingPlaced,
     DefaultsApply, ProfileApplies, SkipException, Preserve, Assign
<1>6. CASE SkipException(c)
  BY <1>1, <1>2, <1>3, <1>4, <1>5, <1>6 DEF IInv, Shape, PlacedRightly,
     NoneLost, SkipException
<1>7. CASE Preserve(c)
  BY <1>1, <1>2, <1>3, <1>4, <1>5, <1>7 DEF IInv, Shape, PlacedRightly,
     NoneLost, Preserve
<1>8. CASE Assign(c)
  <2>1. \A b \in Bucket : bucket'[b] = IF b = Implementation[c]
                                      THEN bucket[b] \cup {c} ELSE bucket[b]
    BY <1>8 DEF Assign, IInv, Shape
  <2>2. PlacedRightly'
    BY <1>1, <1>2, <1>3, <1>4, <1>8, <2>1 DEF IInv, Shape, PlacedRightly, Assign
  <2>3. NoneLost'
    BY <1>1, <1>2, <1>3, <1>4, <1>8, <2>1 DEF IInv, Shape, PlacedRightly,
       NoneLost, Assign, ApplicableControls
  <2> QED
    BY <1>5, <2>2, <2>3 DEF IInv
<1> QED
  BY <1>2, <1>6, <1>7, <1>8

(* The inductive invariant holds throughout.                               *)
LEMMA Inductive == Spec => []IInv
<1>1. Init => IInv
  BY DEF Init, IInv, Shape, Phase, NothingPlaced, DefaultsApply,
     ProfileApplies, PlacedRightly, NoneLost
<1>2. IInv /\ [Next]_vars => IInv'
  <2> SUFFICES ASSUME IInv, [Next]_vars PROVE IInv'
    OBVIOUS
  <2>1. ASSUME UNCHANGED <<entry, manifest, plan>>
        PROVE  /\ UNCHANGED <<entry, todo, derived, bucket>>
               /\ ApplicableControls' = ApplicableControls
               /\ UserExceptions' = UserExceptions
               /\ Capabilities' = Capabilities
               /\ Applies(profile)' = Applies(profile)
    BY <2>1 DEF ApplicableControls, UserExceptions, Capabilities,
       MachineCapabilities, Applies, manifest, plan
  <2>2. CASE Planned
    BY <2>1, <2>2 DEF IInv, Shape, Phase, NothingPlaced, DefaultsApply,
       ProfileApplies, PlacedRightly, NoneLost, Planned
  <2>3. CASE UNCHANGED vars
    <3>1. UNCHANGED <<entry, manifest, plan>> /\ phase' = phase
      BY <2>3 DEF vars
    <3> QED
      BY <2>1, <3>1 DEF IInv, Shape, Phase, NothingPlaced, DefaultsApply,
         ProfileApplies, PlacedRightly, NoneLost
  <2> QED
    BY <2>2, <2>3, LoadKeeps, ResolveKeeps, CheckKeeps, PlaceKeeps
       DEF Next, Done
<1> QED
  BY <1>1, <1>2, PTL DEF Spec

-----------------------------------------------------------------------------
(* Machines are hardened with profiles written for them.                   *)
THEOREM ProfilesFit == Spec => []ProfileFitsMachine
<1>1. IInv => ProfileFitsMachine
  BY DEF IInv, ProfileApplies, ProfileFitsMachine, Applies
<1> QED
  BY <1>1, Inductive, PTL

(* No plan remediates what a selected configuration or the management      *)
(* channel needs, for any benchmark and any catalogue of configurations.   *)
THEOREM HardeningSparesServices == Spec => []ServicesSurvive
<1>1. IInv => ServicesSurvive
  <2> SUFFICES ASSUME IInv, phase = "planned", NEW c \in Remediated
               PROVE  /\ \A k \in selected : Preserves[c] \cap Provides[k] = {}
                      /\ Transport[machine] = "psrp" => "winrm" \notin Preserves[c]
                      /\ Transport[machine] \notin Preserves[c]
    BY DEF ServicesSurvive
  <2>1. Preserves[c] \cap Capabilities = {} /\ c \in Control
    BY DEF IInv, PlacedRightly, Remediated, Bucket, ApplicableControls
  <2>2. "" \notin Preserves[c]
    BY <2>1, PlannerAssumption
  <2>3. \A k \in selected : Preserves[c] \cap Provides[k] = {}
    BY <2>1 DEF Capabilities
  <2>4. Preserves[c] \cap MachineCapabilities(machine) = {}
    BY <2>1, Zenon DEF Capabilities
  <2>5. Transport[machine] = "psrp" => "winrm" \in MachineCapabilities(machine)
    BY DEF MachineCapabilities
  <2>6. Transport[machine] # "" => Transport[machine] \in MachineCapabilities(machine)
    BY DEF MachineCapabilities
  <2> QED
    BY <2>2, <2>3, <2>4, <2>5, <2>6
<1> QED
  BY <1>1, Inductive, PTL

(* Every applicable control is in exactly one list or kind of exception.   *)
THEOREM PlanIsPartition == Spec => []EveryControlHasOneFate
<1>1. IInv => EveryControlHasOneFate
  <2> SUFFICES ASSUME IInv, phase = "planned" PROVE EveryControlHasOneFate
    BY DEF EveryControlHasOneFate
  <2>1. /\ UserExceptions \cup derived \subseteq ApplicableControls
        /\ \A b \in Bucket : bucket[b] \subseteq ApplicableControls
        /\ \A b \in Bucket : bucket[b] \cap (UserExceptions \cup derived) = {}
        /\ UserExceptions \cap derived = {}
    BY DEF IInv, PlacedRightly
  <2>2. \A a, b \in Bucket : a # b => bucket[a] \cap bucket[b] = {}
    BY DEF IInv, PlacedRightly
  <2>3. \A c \in ApplicableControls : \/ c \in UserExceptions \cup derived
                                      \/ \E b \in Bucket : c \in bucket[b]
    BY PlannerAssumption DEF IInv, NoneLost, ApplicableControls
  <2> QED
    BY <2>1, <2>2, <2>3 DEF EveryControlHasOneFate
<1> QED
  BY <1>1, Inductive, PTL
=============================================================================
