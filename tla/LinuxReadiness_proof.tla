------------------------ MODULE LinuxReadiness_proof ------------------------
(***************************************************************************)
(* Theorems about LinuxReadiness for any number of power losses.           *)
(*                                                                         *)
(* The invariant records which stages lie behind each step of the script,  *)
(* that a complete guest is never at a step that clears the marker, and    *)
(* that the controller leaves the probing only on the installed system.    *)
(***************************************************************************)
EXTENDS LinuxReadiness, TLAPS

(* The stages that a run has behind it at a step.                          *)
StagesInv ==
  /\ pc \in Stages \ {"prerequisites"} => "prerequisites" \in done
  /\ pc \in {"additions", "sudo", "sshd"} => "upgrade" \in done
  /\ wanted /\ pc \in {"sudo", "sshd"} => "additions" \in done
  /\ pc = "sshd" => "sudo" \in done
  /\ pc \in {"forget_failure", "mark"} => Required \subseteq done
  /\ complete => Required \subseteq done

(* The marker of a guest is cleared only while there is none.              *)
MarkerInv ==
  /\ complete => pc \in {"leave", "trap"} \cup Resting
  /\ pc = "leave" => complete
  /\ pc \in Resting => complete \/ failed \/ silent
  /\ family = "ubuntu" /\ env = "installed" => complete

GuestInv == GuestTypeOK /\ StagesInv /\ MarkerInv

ControllerInv ==
  /\ stage \in {"probe_complete", "reset", "authenticate", "ping"} =>
       env = "installed"
  /\ stage \in {"reset", "authenticate", "ping"} => complete
  /\ stage = "ping" => knownHosts = "installed"
  /\ knownHosts # "installer"
  /\ verdict = "ready" =>
       complete /\ env = "installed" /\ knownHosts = "installed"
  /\ verdict = "ready" => stage = "done"

Inv == TypeOK /\ GuestInv /\ ControllerInv

-----------------------------------------------------------------------------
(* The initial states satisfy the invariant.                               *)
LEMMA InitInv == ReadinessInit => Inv
<1> SUFFICES ASSUME ReadinessInit PROVE Inv
  OBVIOUS
<1> USE DEF ReadinessInit, Init
<1>1. GuestTypeOK
  <2>1. faults \in 0 .. MaxFaults
    BY FaultAssumption
  <2>2. ssh \in BOOLEAN /\ done \in SUBSET Stages
    OBVIOUS
  <2> QED
    BY <2>1, <2>2 DEF GuestTypeOK
<1>2. StagesInv /\ MarkerInv
  BY DEF StagesInv, MarkerInv, Stages, Resting
<1> QED
  BY <1>1, <1>2 DEF Inv, TypeOK, GuestInv, ControllerInv

(* Every start of the installed system keeps the invariant of the guest.   *)
LEMMA BootInv ==
  ASSUME GuestInv, Boot, faults' \in 0 .. MaxFaults,
         family = "ubuntu" => complete
  PROVE  GuestInv'
<1> USE DEF GuestInv, Boot
<1>1. pc' \in {"clear_complete", "idle"}
  OBVIOUS
<1>2. GuestTypeOK'
  BY <1>1 DEF GuestTypeOK, Steps, Stages, Resting
<1>3. StagesInv'
  BY <1>1 DEF StagesInv, Stages, Required
<1>4. MarkerInv'
  BY <1>1 DEF MarkerInv, GuestTypeOK, Resting
<1> QED
  BY <1>2, <1>3, <1>4

(* Every step of the guest keeps its invariant, and leaves the marker and  *)
(* the installed system where they are.                                    *)
LEMMA GuestNextInv ==
  ASSUME GuestInv, GuestNext
  PROVE  /\ GuestInv'
         /\ complete => complete'
         /\ env = "installed" => env' = "installed"
<1> USE DEF GuestInv
<1>1. CASE FirstBoot
  BY <1>1, BootInv DEF FirstBoot, Boot, MarkerInv, GuestTypeOK
<1>2. CASE PowerLoss
  <2>1. Boot /\ (family = "ubuntu" => complete)
    BY <1>2 DEF PowerLoss, MarkerInv
  <2>2. faults' \in 0 .. MaxFaults
    BY <1>2, FaultAssumption DEF PowerLoss, GuestTypeOK
  <2>3. GuestInv'
    BY <2>1, <2>2, BootInv
  <2> QED
    BY <2>1, <2>3 DEF Boot
<1> USE DEF GuestTypeOK, StagesInv, MarkerInv, Steps, Stages, Resting, Required
<1>3. CASE RunInTarget
  BY <1>3 DEF RunInTarget
<1>4. CASE ClearComplete
  BY <1>4 DEF ClearComplete
<1>5. CASE ClearFailed
  BY <1>5 DEF ClearFailed
<1>6. CASE Stage
  BY <1>6 DEF Stage, After
<1>7. CASE ForgetFailure
  BY <1>7 DEF ForgetFailure
<1>8. CASE Mark
  BY <1>8 DEF Mark
<1>9. CASE RecordFailure
  BY <1>9 DEF RecordFailure
<1>10. CASE StageFails
  BY <1>10 DEF StageFails
<1>11. CASE MarkFails
  BY <1>11 DEF MarkFails
<1>12. CASE EndsEarly
  BY <1>12 DEF EndsEarly
<1>13. CASE SshUp
  BY <1>13 DEF SshUp
<1>14. CASE RecordFails
  BY <1>14 DEF RecordFails
<1> QED
  BY <1>1, <1>2, <1>3, <1>4, <1>5, <1>6, <1>7, <1>8, <1>9, <1>10, <1>11,
     <1>12, <1>13, <1>14
  DEF GuestNext, Step

(* The invariant is inductive.                                             *)
LEMMA NextInv ==
  ASSUME Inv, [Next]_allVars
  PROVE  Inv' /\ (complete => complete')
<1>1. CASE Guest
  <2>1. /\ GuestInv'
        /\ complete => complete'
        /\ env = "installed" => env' = "installed"
    BY <1>1, GuestNextInv DEF Guest, Inv
  <2>2. UNCHANGED <<stage, knownHosts, verdict>>
    BY <1>1 DEF Guest, controller
  <2> QED
    BY <2>1, <2>2 DEF Inv, TypeOK, ControllerInv, GuestInv
<1>2. ASSUME UNCHANGED guest
      PROVE  GuestInv' /\ GuestTypeOK' /\ complete' = complete /\ env' = env
  BY <1>2
  DEF Inv, guest, GuestInv, GuestTypeOK, StagesInv, MarkerInv, Required
<1>3. CASE Controller \/ DeadlinePasses
  <2>1. UNCHANGED guest
    BY <1>3
    DEF Controller, DeadlinePasses, PortOpens, ProbeFailed, ProbeComplete,
        ResetKnownHosts, Authenticate, Ping
  <2>2. GuestInv' /\ GuestTypeOK' /\ complete' = complete /\ env' = env
    BY <1>2, <2>1
  <2>3. env \in {"installer", "installed"}
    BY DEF Inv, GuestInv, GuestTypeOK
  <2>4. ControllerInv' /\ TypeOK'
    BY <1>3, <2>2, <2>3
    DEF Inv, TypeOK, ControllerInv, Controller, DeadlinePasses, PortOpens,
        ProbeFailed, ProbeComplete, ResetKnownHosts, Authenticate, Ping,
        Authenticates
  <2> QED
    BY <2>2, <2>4 DEF Inv
<1>4. CASE Done \/ UNCHANGED allVars
  <2>1. UNCHANGED <<guest, stage, knownHosts, verdict>>
    BY <1>4 DEF Done, allVars, controller
  <2> QED
    BY <1>2, <2>1 DEF Inv, TypeOK, ControllerInv
<1> QED
  BY <1>1, <1>3, <1>4 DEF Next

(* The invariant holds in every reachable state.                           *)
LEMMA InvHolds == Spec => []Inv
<1>1. Inv /\ [Next]_allVars => Inv'
  BY NextInv
<1> QED
  BY InitInv, <1>1, PTL DEF Spec

-----------------------------------------------------------------------------
(* Type correctness of guest and controller.                               *)
THEOREM TypeCorrect == Spec => []TypeOK
<1>1. Inv => TypeOK
  BY DEF Inv
<1> QED
  BY <1>1, InvHolds, PTL

(* The completion marker means that every required stage succeeded, also   *)
(* when power losses cut the runs of the script.                           *)
THEOREM CompletionIsEarned == Spec => []CompleteMeansStages
<1>1. Inv => CompleteMeansStages
  BY DEF Inv, GuestInv, StagesInv, CompleteMeansStages
<1> QED
  BY <1>1, InvHolds, PTL

(* A run that set its trap ends with a marker.                             *)
THEOREM StopsAreSignalled == Spec => []NoSilentStop
<1>1. Inv => NoSilentStop
  BY DEF Inv, GuestInv, MarkerInv, NoSilentStop
<1> QED
  BY <1>1, InvHolds, PTL

(* The host key of the installer is never pinned.                          *)
THEOREM OnlyInstalledIsPinned == Spec => []InstallerNeverPinned
<1>1. Inv => InstallerNeverPinned
  BY DEF Inv, ControllerInv, InstallerNeverPinned
<1> QED
  BY <1>1, InvHolds, PTL

(* "ready" is said only of an installed, bootstrapped guest with its own   *)
(* host key pinned.                                                        *)
THEOREM ReadyIsTrue == Spec => []ReadyMeansBootstrapped
<1>1. Inv => ReadyMeansBootstrapped
  BY DEF Inv, GuestInv, StagesInv, ControllerInv, ReadyMeansBootstrapped
<1> QED
  BY <1>1, InvHolds, PTL

(* A complete guest stays complete: no boot runs the script again.         *)
THEOREM CompletionIsFinal == Spec => CompleteIsFinal
<1>1. Inv /\ [Next]_allVars => [complete => complete']_guest
  BY NextInv
<1> QED
  BY <1>1, InvHolds, PTL DEF Spec, CompleteIsFinal

=============================================================================
