-------------------------- MODULE WindowsBootstrap --------------------------
(***************************************************************************)
(* The bootstrap that a Windows guest runs on itself                       *)
(* (installers/windows/bootstrap.ps1): it is started once by the first     *)
(* logon, restarts the guest while updates demand it, is resumed at every  *)
(* startup by a scheduled task, restarts once more for the Guest           *)
(* Additions, and ends by writing bootstrap-complete or bootstrap-failed.  *)
(*                                                                         *)
(* Everything it must remember between two runs is on disk: the markers,   *)
(* the number of reboots, the task and its own copy.  Power may be lost    *)
(* between any two steps.                                                  *)
(***************************************************************************)
EXTENDS Naturals

CONSTANTS
  MaxPasses,    \* update passes of one run, 6 in the code
  MaxReboots,   \* $MaxWindowsUpdateReboots, 6 in the code
  MaxUpdates,   \* bound: updates applicable at one time
  MaxFaults,    \* bound: power losses and failure markers not written
  Torn          \* stands for a reboot count that was truncated

ASSUME BootstrapAssumption ==
  /\ MaxPasses \in Nat \ {0}
  /\ MaxReboots \in Nat
  /\ MaxUpdates \in Nat
  /\ MaxFaults \in Nat
  /\ Torn \notin Nat

VARIABLES
  pc,          \* where the bootstrap is, "idle" when it does not run
  fromMedia,   \* the first run, from the installation media
  pass,        \* update pass of this run
  count,       \* the reboot count about to be written
  local,       \* what was copied to the state directory
  complete,    \* the marker bootstrap-complete
  failed,      \* the marker bootstrap-failed
  updated,     \* the marker windows-update-complete
  added,       \* the marker guest-additions-complete
  cycle,       \* windows-update-cycle, 0 when there is no file
  task,        \* the resume task is registered
  remoting,    \* WinRM over HTTPS
  available,   \* updates Windows Update would find
  pending,     \* an update waits for a reboot
  additions,   \* the Guest Additions of the guest
  wanted,      \* guest_additions.enabled
  restarts,    \* history: restarts the bootstrap asked for
  converged,   \* history: the last search found nothing and nothing pended
  faults       \* faults so far

disk == <<local, complete, failed, updated, added, cycle, task>>
windows == <<remoting, available, pending, additions>>
history == <<restarts, converged, faults>>
vars == <<pc, fromMedia, pass, count, disk, windows, wanted, history>>

Steps ==
  {"begin", "clear_complete", "clear_failed", "load", "network",
   "await_winrm", "update", "pass", "mark_updated", "count_reboot",
   "write_cycle", "register", "restart", "additions", "install",
   "mark_additions", "remove_task", "remove_cycle", "write_complete"}

Running == pc \in Steps

Goto(from, to) == pc = from /\ pc' = to

-----------------------------------------------------------------------------
Init ==
  /\ pc = "installing"
  /\ fromMedia = TRUE
  /\ pass = 1
  /\ count = 0
  /\ local = {}
  /\ complete = FALSE
  /\ failed = FALSE
  /\ updated = FALSE
  /\ added = FALSE
  /\ cycle = 0
  /\ task = FALSE
  /\ remoting = "unconfigured"
  /\ available \in 0 .. MaxUpdates
  /\ pending = FALSE
  /\ additions = "none"
  /\ wanted \in BOOLEAN
  /\ restarts = 0
  /\ converged = FALSE
  /\ faults = 0

(* FirstLogonCommands of the answer file run the script from the media.    *)
FirstLogon ==
  /\ Goto("installing", "begin")
  /\ UNCHANGED <<fromMedia, pass, count, disk, windows, wanted, history>>

(* The script is copied unless it already is the copy.                     *)
PersistScript ==
  /\ Goto("begin", "clear_complete")
  /\ local' = local \cup {"script"}
  /\ UNCHANGED <<fromMedia, pass, count, complete, failed, updated, added,
                 cycle, task, windows, wanted, history>>

ClearComplete ==
  /\ Goto("clear_complete", "clear_failed")
  /\ complete' = FALSE
  /\ UNCHANGED <<fromMedia, pass, count, local, failed, updated, added, cycle,
                 task, windows, wanted, history>>

ClearFailed ==
  /\ Goto("clear_failed", "load")
  /\ failed' = FALSE
  /\ UNCHANGED <<fromMedia, pass, count, local, complete, updated, added,
                 cycle, task, windows, wanted, history>>

(* The configuration beside the script is copied, then the copy is read.   *)
LoadConfiguration ==
  /\ Goto("load", "network")
  /\ local' = IF fromMedia THEN local \cup {"config"} ELSE local
  /\ "config" \in local'
  /\ UNCHANGED <<fromMedia, pass, count, complete, failed, updated, added,
                 cycle, task, windows, wanted, history>>

(* The management interface, the listener, the firewall rule, and WinRM    *)
(* restarted.                                                              *)
ConfigureRemoting ==
  /\ Goto("network", "await_winrm")
  /\ remoting' = "down"
  /\ UNCHANGED <<fromMedia, pass, count, disk, available, pending, additions,
                 wanted, history>>

(* The socket is seen; the remaining interfaces are configured.            *)
AwaitRemoting ==
  /\ remoting = "up"
  /\ Goto("await_winrm", "update")
  /\ UNCHANGED <<fromMedia, pass, count, disk, windows, wanted, history>>

-----------------------------------------------------------------------------
(* Updates are searched for unless they were found complete before.        *)
BeginUpdates ==
  /\ pc = "update"
  /\ pc' = IF updated THEN "additions" ELSE "pass"
  /\ pass' = 1
  /\ UNCHANGED <<fromMedia, count, disk, windows, wanted, history>>

SearchFindsNothing ==
  /\ Goto("pass", "mark_updated")
  /\ available = 0
  /\ converged' = ~pending
  /\ UNCHANGED <<fromMedia, pass, count, disk, windows, wanted, restarts,
                 faults>>

(* RebootRequiredBeforeInstallation.                                       *)
RebootBeforeInstallation ==
  /\ Goto("pass", "count_reboot")
  /\ available > 0
  /\ pending' = TRUE
  /\ UNCHANGED <<fromMedia, pass, count, disk, remoting, available,
                 additions, wanted, history>>

(* A reboot that updates ask for is put off while passes remain, so the    *)
(* next search may find nothing before it took place.                      *)
InstallUpdatesMutant ==
  /\ pc = "pass"
  /\ available > 0
  /\ available' \in 0 .. available
  /\ \E reboot \in BOOLEAN :
       /\ pending' = (pending \/ reboot)
       /\ pass < MaxPasses /\ pc' = "pass" /\ pass' = pass + 1
  /\ converged' = FALSE
  /\ UNCHANGED <<fromMedia, count, disk, remoting, additions, wanted,
                 restarts, faults>>

(* One pass that found updates: a result that is neither failed nor        *)
(* aborted may still leave an update for the next search.                  *)
InstallUpdates ==
  /\ pc = "pass"
  /\ available > 0
  /\ available' \in 0 .. available
  /\ \E reboot \in BOOLEAN :
       /\ pending' = (pending \/ reboot)
       /\ \/ reboot /\ pc' = "count_reboot" /\ pass' = pass
          \/ ~reboot /\ pass < MaxPasses /\ pc' = "pass" /\ pass' = pass + 1
          \/ ~reboot /\ pass = MaxPasses /\ pc' = "throw" /\ pass' = pass
  /\ converged' = FALSE
  /\ UNCHANGED <<fromMedia, count, disk, remoting, additions, wanted,
                 restarts, faults>>

MarkUpdated ==
  /\ Goto("mark_updated", "additions")
  /\ updated' = TRUE
  /\ UNCHANGED <<fromMedia, pass, count, local, complete, failed, added,
                 cycle, task, windows, wanted, history>>

(* One reboot more than the limit.                                         *)
CountRebootMutant ==
  /\ pc = "count_reboot"
  /\ IF cycle = Torn \/ (cycle # Torn /\ cycle > MaxReboots)
     THEN pc' = "throw" /\ UNCHANGED <<count, cycle>>
     ELSE pc' = "write_cycle" /\ count' = cycle + 1 /\ cycle' = Torn
  /\ UNCHANGED <<fromMedia, pass, local, complete, failed, updated, added,
                 task, windows, wanted, history>>

(* The count is read and raised, and its file opened for writing; an empty *)
(* file reads as null and its Trim() throws.                               *)
CountReboot ==
  /\ pc = "count_reboot"
  /\ IF cycle = Torn \/ (cycle # Torn /\ cycle + 1 > MaxReboots)
     THEN pc' = "throw" /\ UNCHANGED <<count, cycle>>
     ELSE pc' = "write_cycle" /\ count' = cycle + 1 /\ cycle' = Torn
  /\ UNCHANGED <<fromMedia, pass, local, complete, failed, updated, added,
                 task, windows, wanted, history>>

WriteCycle ==
  /\ Goto("write_cycle", "register")
  /\ cycle' = count
  /\ UNCHANGED <<fromMedia, pass, count, local, complete, failed, updated,
                 added, task, windows, wanted, history>>

-----------------------------------------------------------------------------
(* The guest is restarted without a task to resume the bootstrap.          *)
RegisterResumeTaskMutant ==
  /\ Goto("register", "restart")
  /\ UNCHANGED <<fromMedia, pass, count, disk, windows, wanted, history>>

RegisterResumeTask ==
  /\ Goto("register", "restart")
  /\ task' = TRUE
  /\ UNCHANGED <<fromMedia, pass, count, local, complete, failed, updated,
                 added, cycle, windows, wanted, history>>

(* The guest starts: the task, if there is one, runs the copy as SYSTEM.   *)
(* The service of the Guest Additions may not come up.                     *)
Boot ==
  /\ pc' = IF task THEN "begin" ELSE "idle"
  /\ fromMedia' = FALSE
  /\ pending' = FALSE
  /\ remoting' = IF remoting = "unconfigured" THEN remoting ELSE "down"
  /\ \/ additions' = additions
     \/ additions = "installed" /\ additions' = "active"
  /\ UNCHANGED <<pass, count, disk, available, wanted, converged>>

Restart ==
  /\ pc = "restart"
  /\ Boot
  /\ restarts' = restarts + 1
  /\ UNCHANGED faults

-----------------------------------------------------------------------------
BeginAdditions ==
  /\ pc = "additions"
  /\ pc' = CASE ~wanted -> "remove_task"
             [] wanted /\ ~added -> "install"
             [] wanted /\ added /\ additions = "active" -> "remove_task"
             [] OTHER -> "throw"
  /\ UNCHANGED <<fromMedia, pass, count, disk, windows, wanted, history>>

InstallAdditions ==
  /\ Goto("install", "mark_additions")
  /\ additions' = "installed"
  /\ UNCHANGED <<fromMedia, pass, count, disk, remoting, available, pending,
                 wanted, history>>

MarkAdditions ==
  /\ Goto("mark_additions", "register")
  /\ added' = TRUE
  /\ UNCHANGED <<fromMedia, pass, count, local, complete, failed, updated,
                 cycle, task, windows, wanted, history>>

-----------------------------------------------------------------------------
(* The task is taken away only when the Guest Additions needed it.         *)
RemoveResumeTaskMutant ==
  /\ Goto("remove_task", "remove_cycle")
  /\ task' = (task /\ ~wanted)
  /\ UNCHANGED <<fromMedia, pass, count, local, complete, failed, updated,
                 added, cycle, windows, wanted, history>>

RemoveResumeTask ==
  /\ Goto("remove_task", "remove_cycle")
  /\ task' = FALSE
  /\ UNCHANGED <<fromMedia, pass, count, local, complete, failed, updated,
                 added, cycle, windows, wanted, history>>

RemoveCycle ==
  /\ Goto("remove_cycle", "write_complete")
  /\ cycle' = 0
  /\ UNCHANGED <<fromMedia, pass, count, local, complete, failed, updated,
                 added, task, windows, wanted, history>>

WriteComplete ==
  /\ Goto("write_complete", "idle")
  /\ complete' = TRUE
  /\ UNCHANGED <<fromMedia, pass, count, local, failed, updated, added, cycle,
                 task, windows, wanted, history>>

(* Any step may throw.                                                     *)
Throw ==
  /\ Running
  /\ pc' = "throw"
  /\ UNCHANGED <<fromMedia, pass, count, disk, windows, wanted, history>>

(* The wait for the socket is limited.                                     *)
RemotingGivesUp ==
  /\ remoting # "up"
  /\ Goto("await_winrm", "throw")
  /\ UNCHANGED <<fromMedia, pass, count, disk, windows, wanted, history>>

(* A configuration that was never copied.                                  *)
ConfigurationMissing ==
  /\ ~fromMedia /\ "config" \notin local
  /\ Goto("load", "throw")
  /\ UNCHANGED <<fromMedia, pass, count, disk, windows, wanted, history>>

(* catch: the failure marker; the task, if any, remains.                   *)
WriteFailed ==
  /\ Goto("throw", "idle")
  /\ failed' = TRUE
  /\ UNCHANGED <<fromMedia, pass, count, local, complete, updated, added,
                 cycle, task, windows, wanted, history>>

(* The inner catch: the marker could not be written.                       *)
FailedNotWritten ==
  /\ faults < MaxFaults
  /\ Goto("throw", "idle")
  /\ faults' = faults + 1
  /\ UNCHANGED <<fromMedia, pass, count, disk, windows, wanted, restarts,
                 converged>>

PowerLoss ==
  /\ faults < MaxFaults
  /\ pc # "installing"
  /\ Boot
  /\ faults' = faults + 1
  /\ UNCHANGED restarts

(* Windows itself: WinRM comes up, updates are published.                  *)
RemotingUp ==
  /\ remoting = "down"
  /\ remoting' = "up"
  /\ UNCHANGED <<pc, fromMedia, pass, count, disk, available, pending,
                 additions, wanted, history>>

Publish ==
  /\ available < MaxUpdates
  /\ available' = available + 1
  /\ UNCHANGED <<pc, fromMedia, pass, count, disk, remoting, pending,
                 additions, wanted, history>>

-----------------------------------------------------------------------------
(* The steps the script takes by itself.                                   *)
Step ==
  \/ FirstLogon
  \/ PersistScript
  \/ ClearComplete
  \/ ClearFailed
  \/ LoadConfiguration
  \/ ConfigurationMissing
  \/ ConfigureRemoting
  \/ AwaitRemoting
  \/ RemotingGivesUp
  \/ BeginUpdates
  \/ SearchFindsNothing
  \/ RebootBeforeInstallation
  \/ InstallUpdates
  \/ MarkUpdated
  \/ CountReboot
  \/ WriteCycle
  \/ RegisterResumeTask
  \/ Restart
  \/ BeginAdditions
  \/ InstallAdditions
  \/ MarkAdditions
  \/ RemoveResumeTask
  \/ RemoveCycle
  \/ WriteComplete
  \/ WriteFailed

GuestNext ==
  \/ Step
  \/ Throw
  \/ FailedNotWritten
  \/ PowerLoss
  \/ RemotingUp
  \/ Publish

-----------------------------------------------------------------------------
(* Every variable holds a value of its kind, and the count on disk never   *)
(* exceeds the limit.                                                      *)
GuestTypeOK ==
  /\ pc \in Steps \cup {"installing", "idle", "throw"}
  /\ fromMedia \in BOOLEAN
  /\ pass \in 1 .. MaxPasses
  /\ count \in 0 .. MaxReboots
  /\ local \in SUBSET {"script", "config"}
  /\ complete \in BOOLEAN
  /\ failed \in BOOLEAN
  /\ updated \in BOOLEAN
  /\ added \in BOOLEAN
  /\ cycle \in 0 .. MaxReboots \cup {Torn}
  /\ task \in BOOLEAN
  /\ remoting \in {"unconfigured", "down", "up"}
  /\ available \in 0 .. MaxUpdates
  /\ pending \in BOOLEAN
  /\ additions \in {"none", "installed", "active"}
  /\ wanted \in BOOLEAN
  /\ restarts \in Nat
  /\ converged \in BOOLEAN
  /\ faults \in 0 .. MaxFaults

(* A guest that says it is complete has had every update it could find,    *)
(* the reboots they required took place, and a later search found nothing: *)
(* what the comment before the update stage promises, over any number of   *)
(* runs of the script and power losses between them.                       *)
CompleteMeansUpdated == complete => updated /\ converged

(* A guest that says it is complete runs the Guest Additions that were     *)
(* asked for, from a start of the guest after their installation, and they *)
(* are never installed before the updates converged.                       *)
CompleteMeansAdditions ==
  /\ complete /\ wanted => added /\ additions = "active"
  /\ additions # "none" => updated

(* Never both markers: a failure of an earlier run is not left beside the  *)
(* success of a later one, which the controller would read as a failure.   *)
MarkersExclude == ~(complete /\ failed)

(* Completion is not taken back, not even by a power loss: no task that    *)
(* resumes the script, which clears the marker first, outlives it.         *)
CompleteIsFinal == [][complete => complete']_vars

(* The guest is restarted at most MaxReboots times for updates and once    *)
(* for the Guest Additions, whatever Windows Update finds and however      *)
(* often power is lost.                                                    *)
RestartsAreBounded == restarts <= MaxReboots + 1

(* The resume task has what it needs on the disk of the guest, though the  *)
(* media may be gone.                                                      *)
ResumesFromDisk == task => local = {"script", "config"}

(* Without a fault the bootstrap never stops without a marker: whenever it *)
(* restarts the guest it is resumed.                                       *)
NoSilentStop == pc = "idle" /\ faults = 0 => complete \/ failed

=============================================================================
