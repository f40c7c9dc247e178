----------------------- MODULE WindowsReadiness_proof -----------------------
(***************************************************************************)
(* Theorems about WindowsReadiness for every number of passes, reboots,    *)
(* updates and faults.                                                     *)
(*                                                                         *)
(* None of the safety properties is inductive: a step of the script relies *)
(* on what the steps before it, in this run or in one that a restart       *)
(* ended, left on the disk.  GuestInv says which markers may be there at   *)
(* which step.                                                             *)
(***************************************************************************)
EXTENDS WindowsReadiness, TLAPS

(* Before the updates converged, and after.                                *)
Updating == {"pass", "mark_updated", "count_reboot", "write_cycle"}

Finishing == {"remove_task", "remove_cycle", "write_complete"}

AfterUpdates == {"additions", "install", "mark_additions"} \cup Finishing

(* Steps at which the script and its configuration are on the disk.        *)
AfterLoad ==
  {"network", "await_winrm", "update", "register", "restart"}
    \cup Updating \cup AfterUpdates

(* A complete guest is at rest; a failure marker is one of a run that      *)
(* ended, until the next run clears it.                                    *)
MarkerInv ==
  /\ complete => pc = "idle" /\ ~task /\ ~failed /\ updated
  /\ failed => pc \in {"begin", "clear_complete", "clear_failed", "throw",
                       "idle"}
  /\ pc \in {"remove_cycle", "write_complete"} => ~task

(* The marker of the updates is set only after a search that counts.       *)
UpdateInv ==
  /\ updated => converged
  /\ pc \in Updating => ~updated
  /\ pc \in AfterUpdates => updated
  /\ pc = "mark_updated" => converged
  /\ pending => pc \in {"count_reboot", "write_cycle", "register", "restart",
                        "throw", "idle"}

AdditionsInv ==
  /\ additions # "none" => updated
  /\ wanted /\ (complete \/ pc \in Finishing) => added /\ additions = "active"

ResumeInv ==
  /\ task => local = {"script", "config"}
  /\ pc \in AfterLoad => local = {"script", "config"}
  /\ pc \in {"clear_complete", "clear_failed", "load"} => "script" \in local

(* A restart is asked for only when it will be resumed.                    *)
StopInv ==
  /\ pc = "restart" => task
  /\ pc = "idle" /\ faults = 0 => complete \/ failed

Restarting == {"register", "restart"}

(* Until the updates converged, the count on the disk is at least the      *)
(* number of restarts, and ahead of it while the next one is prepared; a   *)
(* count that was torn allows no other.  The restart for the Guest         *)
(* Additions is asked for at most once.                                    *)
RestartInv ==
  /\ added => updated
  /\ pc \in {"install", "mark_additions"} => ~added
  /\ updated /\ pc \in Restarting => added
  /\ ~updated =>
       /\ restarts <= MaxReboots
       /\ cycle # Torn => restarts <= cycle
       /\ pc \in Restarting => cycle # Torn /\ restarts + 1 <= cycle
       /\ pc = "write_cycle" => restarts + 1 <= count
  /\ updated /\ (~added \/ pc \in Restarting) => restarts <= MaxReboots
  /\ restarts <= MaxReboots + 1

GuestInv ==
  /\ GuestTypeOK
  /\ MarkerInv
  /\ UpdateInv
  /\ AdditionsInv
  /\ ResumeInv
  /\ StopInv
  /\ RestartInv

ControllerInv ==
  /\ stage = "ping" => complete
  /\ verdict = "ready" => complete

Inv == TypeOK /\ GuestInv /\ ControllerInv

-----------------------------------------------------------------------------
(* The initial states of guest and controller satisfy the invariant.       *)
LEMMA InitInv == ReadinessInit => Inv
<1> SUFFICES ASSUME ReadinessInit PROVE Inv
  OBVIOUS
<1> USE DEF ReadinessInit, Init
<1>1. GuestTypeOK
  <2>1. /\ pass \in 1 .. MaxPasses
        /\ count \in 0 .. MaxReboots
        /\ cycle \in 0 .. MaxReboots
        /\ faults \in 0 .. MaxFaults
        /\ restarts \in Nat
    BY BootstrapAssumption
  <2>2. local \in SUBSET {"script", "config"}
    OBVIOUS
  <2> QED
    BY <2>1, <2>2 DEF GuestTypeOK
<1>2. MarkerInv /\ UpdateInv
  BY DEF MarkerInv, UpdateInv, Updating, Finishing, AfterUpdates
<1>3. AdditionsInv /\ ResumeInv
  BY DEF AdditionsInv, ResumeInv, Updating, Finishing, AfterUpdates, AfterLoad
<1>4. ControllerInv /\ StopInv
  BY DEF ControllerInv, StopInv
<1>5. RestartInv
  BY BootstrapAssumption DEF RestartInv, Restarting
<1> QED
  BY <1>1, <1>2, <1>3, <1>4, <1>5 DEF Inv, GuestInv, TypeOK

(* A start of the guest, by the script or by a power loss, keeps the       *)
(* invariant whatever the step it interrupts.                              *)
LEMMA BootInv ==
  ASSUME GuestInv, Boot, restarts' \in Nat, faults' \in 0 .. MaxFaults
  PROVE  /\ GuestTypeOK'
         /\ MarkerInv'
         /\ UpdateInv'
         /\ AdditionsInv'
         /\ ResumeInv'
<1> USE DEF Boot, disk, GuestInv
<1>1. pc' \in {"begin", "idle"} /\ (pc' = "begin" => task)
  BY DEF GuestTypeOK
<1>2. GuestTypeOK'
  <2>1. /\ pc' \in Steps \cup {"installing", "idle", "throw"}
        /\ remoting' \in {"unconfigured", "down", "up"}
        /\ additions' \in {"none", "installed", "active"}
    BY <1>1 DEF GuestTypeOK, Steps
  <2> QED
    BY <2>1 DEF GuestTypeOK
<1>3. MarkerInv'
  BY <1>1 DEF MarkerInv
<1>4. UpdateInv'
  BY <1>1 DEF UpdateInv, Updating, Finishing, AfterUpdates
<1>5. AdditionsInv'
  BY <1>1 DEF AdditionsInv, MarkerInv, Finishing
<1>6. ResumeInv'
  BY <1>1 DEF ResumeInv, Updating, Finishing, AfterUpdates, AfterLoad
<1> QED
  BY <1>2, <1>3, <1>4, <1>5, <1>6

(* Every step of the script keeps the invariant.                           *)
LEMMA StepInv ==
  ASSUME GuestInv, Step
  PROVE  GuestInv'
<1> USE BootstrapAssumption
<1> USE DEF Goto, disk, windows, history, GuestInv, GuestTypeOK, MarkerInv,
            UpdateInv, AdditionsInv, ResumeInv, StopInv, RestartInv, Steps,
            Updating, Finishing, AfterUpdates, AfterLoad, Restarting
<1>1. CASE FirstLogon
  BY <1>1 DEF FirstLogon
<1>2. CASE PersistScript
  BY <1>2 DEF PersistScript
<1>3. CASE ClearComplete
  <2>1. GuestTypeOK'
    BY <1>3 DEF ClearComplete
  <2>2. MarkerInv' /\ UpdateInv'
    BY <1>3 DEF ClearComplete
  <2>3. AdditionsInv' /\ ResumeInv'
    BY <1>3 DEF ClearComplete
  <2>4. StopInv' /\ RestartInv'
    BY <1>3 DEF ClearComplete
  <2> QED
    BY <2>1, <2>2, <2>3, <2>4
<1>4. CASE ClearFailed
  BY <1>4 DEF ClearFailed
<1>5. CASE LoadConfiguration
  <2>1. GuestTypeOK'
    BY <1>5 DEF LoadConfiguration
  <2>2. MarkerInv' /\ UpdateInv'
    BY <1>5 DEF LoadConfiguration
  <2>3. AdditionsInv' /\ ResumeInv'
    BY <1>5 DEF LoadConfiguration
  <2>4. StopInv' /\ RestartInv'
    BY <1>5 DEF LoadConfiguration
  <2> QED
    BY <2>1, <2>2, <2>3, <2>4
<1>6. CASE ConfigurationMissing
  BY <1>6 DEF ConfigurationMissing
<1>7. CASE ConfigureRemoting
  BY <1>7 DEF ConfigureRemoting
<1>8. CASE AwaitRemoting
  BY <1>8 DEF AwaitRemoting
<1>9. CASE RemotingGivesUp
  BY <1>9 DEF RemotingGivesUp
<1>10. CASE BeginUpdates
  BY <1>10 DEF BeginUpdates
<1>11. CASE SearchFindsNothing
  BY <1>11 DEF SearchFindsNothing
<1>12. CASE RebootBeforeInstallation
  BY <1>12 DEF RebootBeforeInstallation
<1>13. CASE InstallUpdates
  <2>1. GuestTypeOK'
    <3>1. available' \in 0 .. MaxUpdates
      BY <1>13 DEF InstallUpdates
    <3>2. /\ pass' \in 1 .. MaxPasses
          /\ pending' \in BOOLEAN
          /\ pc' \in Steps \cup {"installing", "idle", "throw"}
      BY <1>13 DEF InstallUpdates
    <3> QED
      BY <1>13, <3>1, <3>2 DEF InstallUpdates
  <2>2. MarkerInv' /\ UpdateInv'
    BY <1>13 DEF InstallUpdates
  <2>3. AdditionsInv' /\ ResumeInv'
    BY <1>13 DEF InstallUpdates
  <2>4. StopInv' /\ RestartInv'
    BY <1>13 DEF InstallUpdates
  <2> QED
    BY <2>1, <2>2, <2>3, <2>4
<1>14. CASE MarkUpdated
  BY <1>14 DEF MarkUpdated
<1>15. CASE CountReboot
  BY <1>15 DEF CountReboot
<1>16. CASE WriteCycle
  BY <1>16 DEF WriteCycle
<1>17. CASE RegisterResumeTask
  BY <1>17 DEF RegisterResumeTask
<1>18. CASE Restart
  <2>1. /\ GuestTypeOK'
        /\ MarkerInv'
        /\ UpdateInv'
        /\ AdditionsInv'
        /\ ResumeInv'
    BY <1>18, BootInv DEF Restart
  <2>2. StopInv'
    BY <1>18 DEF Restart, Boot
  <2>3. RestartInv'
    BY <1>18 DEF Restart, Boot
  <2> QED
    BY <2>1, <2>2, <2>3
<1>19. CASE BeginAdditions
  BY <1>19 DEF BeginAdditions
<1>20. CASE InstallAdditions
  BY <1>20 DEF InstallAdditions
<1>21. CASE MarkAdditions
  BY <1>21 DEF MarkAdditions
<1>22. CASE RemoveResumeTask
  BY <1>22 DEF RemoveResumeTask
<1>23. CASE RemoveCycle
  BY <1>23 DEF RemoveCycle
<1>24. CASE WriteComplete
  BY <1>24 DEF WriteComplete
<1>25. CASE WriteFailed
  BY <1>25 DEF WriteFailed
<1> QED
  BY <1>1, <1>2, <1>3, <1>4, <1>5, <1>6, <1>7, <1>8, <1>9, <1>10, <1>11, <1>12, <1>13, <1>14, <1>15, <1>16, <1>17, <1>18, <1>19, <1>20, <1>21, <1>22, <1>23, <1>24, <1>25
     DEF Step

(* So does what happens to the script and around it.                       *)
LEMMA GuestNextInv ==
  ASSUME GuestInv, GuestNext
  PROVE  GuestInv'
<1> USE BootstrapAssumption
<1>1. CASE Step
  BY <1>1, StepInv
<1>2. CASE PowerLoss
  <2>1. /\ GuestTypeOK'
        /\ MarkerInv'
        /\ UpdateInv'
        /\ AdditionsInv'
        /\ ResumeInv'
    BY <1>2, BootInv DEF PowerLoss, GuestInv, GuestTypeOK
  <2>2. StopInv'
    BY <1>2 DEF PowerLoss, Boot, StopInv, GuestInv, GuestTypeOK
  <2>3. RestartInv'
    BY <1>2
    DEF PowerLoss, Boot, disk, RestartInv, Restarting, GuestInv, GuestTypeOK
  <2> QED
    BY <2>1, <2>2, <2>3 DEF GuestInv
<1> USE DEF Goto, disk, windows, history, GuestInv, GuestTypeOK, MarkerInv,
            UpdateInv, AdditionsInv, ResumeInv, StopInv, RestartInv, Steps,
            Updating, Finishing, AfterUpdates, AfterLoad, Restarting
<1>3. CASE Throw
  BY <1>3 DEF Throw, Running
<1>4. CASE FailedNotWritten
  BY <1>4 DEF FailedNotWritten
<1>5. CASE RemotingUp
  BY <1>5 DEF RemotingUp
<1>6. CASE Publish
  BY <1>6 DEF Publish
<1> QED
  BY <1>1, <1>2, <1>3, <1>4, <1>5, <1>6 DEF GuestNext

(* No step of the guest takes completion back.                             *)
LEMMA CompleteStays ==
  ASSUME GuestInv, GuestNext, complete
  PROVE  complete'
<1>1. pc = "idle"
  BY DEF GuestInv, MarkerInv
<1> QED
  BY <1>1
  DEF GuestNext, Step, Throw, FailedNotWritten, PowerLoss, RemotingUp, Publish,
      Boot, Restart, Running, Steps, Goto, disk, ClearComplete,
      FirstLogon, PersistScript, ClearFailed, LoadConfiguration,
      ConfigurationMissing, ConfigureRemoting, AwaitRemoting, RemotingGivesUp,
      BeginUpdates, SearchFindsNothing, RebootBeforeInstallation,
      InstallUpdates, MarkUpdated, CountReboot, WriteCycle,
      RegisterResumeTask, BeginAdditions, InstallAdditions, MarkAdditions,
      RemoveResumeTask, RemoveCycle, WriteComplete, WriteFailed

(* A step of the controller keeps the invariant and the guest.             *)
LEMMA ControllerNextInv ==
  ASSUME Inv, Controller \/ DeadlinePasses
  PROVE  Inv' /\ UNCHANGED vars
<1>1. UNCHANGED vars
  BY DEF Controller, DeadlinePasses, PortOpens, PsrpAnswers, Reached,
         ProbeFailed, ProbeComplete, ProbeLost, Ping
<1>2. GuestInv' /\ GuestTypeOK'
  BY <1>1
  DEF Inv, vars, disk, windows, history, GuestInv, GuestTypeOK, MarkerInv,
      UpdateInv, AdditionsInv, ResumeInv, StopInv, RestartInv
<1>3. complete' = complete
  BY <1>1 DEF vars, disk
<1>4. ControllerInv' /\ TypeOK'
  BY <1>2, <1>3
  DEF Inv, TypeOK, ControllerInv, Controller, DeadlinePasses, PortOpens,
      PsrpAnswers, Reached, ProbeFailed, ProbeComplete, ProbeLost, Ping
<1> QED
  BY <1>1, <1>2, <1>4 DEF Inv

(* The invariant is inductive.                                             *)
LEMMA NextInv ==
  ASSUME Inv, [Next]_allVars
  PROVE  Inv'
<1>1. CASE Guest
  <2>1. GuestInv'
    BY <1>1, GuestNextInv DEF Guest, Inv
  <2>2. complete => complete'
    BY <1>1, CompleteStays DEF Guest, Inv
  <2> QED
    BY <1>1, <2>1, <2>2
    DEF Inv, Guest, controller, TypeOK, ControllerInv, GuestInv
<1>2. CASE Controller \/ DeadlinePasses
  BY <1>2, ControllerNextInv
<1>3. CASE Done \/ UNCHANGED allVars
  <2>1. UNCHANGED <<vars, stage, verdict>>
    BY <1>3 DEF Done, allVars, controller
  <2>2. GuestTypeOK' /\ GuestInv'
    BY <2>1
    DEF vars, disk, windows, history, Inv, GuestInv, GuestTypeOK, MarkerInv,
        UpdateInv, AdditionsInv, ResumeInv, StopInv, RestartInv
  <2>3. complete' = complete
    BY <2>1 DEF vars, disk
  <2> QED
    BY <2>1, <2>2, <2>3 DEF Inv, TypeOK, ControllerInv
<1> QED
  BY <1>1, <1>2, <1>3 DEF Next

(* The invariant holds in every reachable state.                           *)
LEMMA InvHolds == Spec => []Inv
  BY InitInv, NextInv, PTL DEF Spec

-----------------------------------------------------------------------------
(* Type correctness; the reboot count on the disk never exceeds its limit. *)
THEOREM TypeCorrect == Spec => []TypeOK
<1>1. Inv => TypeOK
  BY DEF Inv
<1> QED
  BY <1>1, InvHolds, PTL

(* bootstrap-complete implies that the updates converged, with the reboots *)
(* they required, over every interruption.                                 *)
THEOREM CompletionIsUpdated == Spec => []CompleteMeansUpdated
<1>1. Inv => CompleteMeansUpdated
  BY DEF Inv, GuestInv, MarkerInv, UpdateInv, CompleteMeansUpdated
<1> QED
  BY <1>1, InvHolds, PTL

(* bootstrap-complete implies running Guest Additions when they are        *)
(* wanted, and they are installed only after the updates converged.        *)
THEOREM CompletionHasAdditions == Spec => []CompleteMeansAdditions
<1>1. Inv => CompleteMeansAdditions
  BY DEF Inv, GuestInv, AdditionsInv, CompleteMeansAdditions
<1> QED
  BY <1>1, InvHolds, PTL

(* A guest never shows both markers.                                       *)
THEOREM MarkersDisagreeNever == Spec => []MarkersExclude
<1>1. Inv => MarkersExclude
  BY DEF Inv, GuestInv, MarkerInv, MarkersExclude
<1> QED
  BY <1>1, InvHolds, PTL

(* The resume task always finds the script and its configuration.          *)
THEOREM ResumeFindsItsFiles == Spec => []ResumesFromDisk
<1>1. Inv => ResumesFromDisk
  BY DEF Inv, GuestInv, ResumeInv, ResumesFromDisk
<1> QED
  BY <1>1, InvHolds, PTL

(* The guest is restarted at most MaxReboots times for updates and once    *)
(* for the Guest Additions.                                                *)
THEOREM RestartsHaveALimit == Spec => []RestartsAreBounded
<1>1. Inv => RestartsAreBounded
  BY DEF Inv, GuestInv, RestartInv, RestartsAreBounded
<1> QED
  BY <1>1, InvHolds, PTL

(* Without a fault the bootstrap stops only with one of its markers.       *)
THEOREM StopsAreSignalled == Spec => []NoSilentStop
<1>1. Inv => NoSilentStop
  BY DEF Inv, GuestInv, StopInv, NoSilentStop
<1> QED
  BY <1>1, InvHolds, PTL

(* Once complete, a guest stays complete.                                  *)
THEOREM CompletionIsFinal == Spec => CompleteIsFinal
<1>1. Inv /\ [Next]_allVars => [complete => complete']_vars
  <2> SUFFICES ASSUME Inv, [Next]_allVars, complete, vars' # vars
               PROVE  complete'
    OBVIOUS
  <2>1. CASE Guest
    BY <2>1, CompleteStays DEF Guest, Inv
  <2>2. CASE Controller \/ DeadlinePasses
    BY <2>2, ControllerNextInv DEF vars
  <2>3. CASE Done \/ UNCHANGED allVars
    BY <2>3 DEF Done, allVars, vars
  <2> QED
    BY <2>1, <2>2, <2>3 DEF Next
<1> QED
  BY <1>1, InvHolds, PTL DEF Spec, CompleteIsFinal

(* The Forge is told "ready" only of a guest that is complete, at rest,    *)
(* and will not be restarted by its bootstrap.                             *)
THEOREM ReadyIsTrue == Spec => []ReadyMeansComplete
<1>1. Inv => ReadyMeansComplete
  BY DEF Inv, GuestInv, MarkerInv, ControllerInv, ReadyMeansComplete
<1> QED
  BY <1>1, InvHolds, PTL

=============================================================================
