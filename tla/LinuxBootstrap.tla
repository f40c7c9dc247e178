--------------------------- MODULE LinuxBootstrap ---------------------------
(***************************************************************************)
(* The bootstrap of the Linux guests (installers/linux/common/bootstrap.sh) *)
(* and the two ways it is run.  Ubuntu runs it inside the installer, in    *)
(* the target: a failure ends the installation.  Kali runs it as a service *)
(* at every boot until the completion marker exists.                       *)
(***************************************************************************)
EXTENDS Naturals

CONSTANT MaxFaults   \* bound: power losses of the installed guest

ASSUME FaultAssumption == MaxFaults \in Nat

VARIABLES
  family,      \* the guest's distribution
  env,         \* which system answers at the management address
  pc,          \* where the bootstrap is
  complete,    \* /var/lib/crucible/bootstrap-complete of the installed system
  failed,      \* /var/lib/crucible/bootstrap-failed
  done,        \* stages whose effect is on the guest
  wanted,      \* Guest Additions are to be installed
  ssh,         \* sshd answers
  cause,       \* history: what made the last run fail
  silent,      \* history: a run that failed left no marker
  faults       \* power losses so far

guest == <<family, env, pc, complete, failed, done, wanted, ssh, cause, silent,
           faults>>

Stages == {"prerequisites", "upgrade", "additions", "sudo", "sshd"}

Steps ==
  Stages \cup {"clear_complete", "clear_failed", "forget_failure", "mark"}

Resting == {"idle", "halted"}

-----------------------------------------------------------------------------
Init ==
  /\ family \in {"ubuntu", "kali"}
  /\ env = "installer"
  /\ pc = "installing"
  /\ complete = FALSE
  /\ failed = FALSE
  /\ done = {}
  /\ wanted \in BOOLEAN
  /\ ssh = (family = "ubuntu")
  /\ cause = "none"
  /\ silent = FALSE
  /\ faults = 0

(* late-commands of the Ubuntu installer run the script in the target; the *)
(* live system of the installer has an sshd of its own.                    *)
RunInTarget ==
  /\ family = "ubuntu"
  /\ pc = "installing"
  /\ pc' = "clear_complete"
  /\ UNCHANGED <<family, env, complete, failed, done, wanted, ssh, cause,
                 silent, faults>>

(* The bootstrap is run at the first boot only.                            *)
BootOnceMutant ==
  /\ env' = "installed"
  /\ ssh' = FALSE
  /\ pc' = IF family = "kali" /\ env = "installer" THEN "clear_complete"
           ELSE "idle"
  /\ silent' = FALSE
  /\ UNCHANGED <<family, complete, failed, done, wanted, cause>>

(* The installed system starts; on Kali the unit runs the script unless    *)
(* the completion marker exists.                                           *)
Boot ==
  /\ env' = "installed"
  /\ ssh' = FALSE
  /\ pc' = IF family = "kali" /\ ~complete THEN "clear_complete" ELSE "idle"
  /\ silent' = FALSE
  /\ UNCHANGED <<family, complete, failed, done, wanted, cause>>

FirstBoot ==
  /\ env = "installer"
  /\ IF family = "kali" THEN pc = "installing" ELSE pc = "leave"
  /\ Boot
  /\ UNCHANGED faults

PowerLoss ==
  /\ env = "installed"
  /\ faults < MaxFaults
  /\ Boot
  /\ faults' = faults + 1

SshUp ==
  /\ env = "installed" /\ ~ssh
  /\ ssh' = TRUE
  /\ UNCHANGED <<family, env, pc, complete, failed, done, wanted, cause,
                 silent, faults>>

-----------------------------------------------------------------------------
(* rm -f of both markers, before the trap is set.                          *)
ClearComplete ==
  /\ pc = "clear_complete"
  /\ pc' = "clear_failed"
  /\ complete' = FALSE
  /\ UNCHANGED <<family, env, failed, done, wanted, ssh, cause, silent,
                 faults>>

ClearFailed ==
  /\ pc = "clear_failed"
  /\ pc' = "prerequisites"
  /\ failed' = FALSE
  /\ UNCHANGED <<family, env, complete, done, wanted, ssh, cause, silent,
                 faults>>

After(stage) ==
  CASE stage = "prerequisites" -> "upgrade"
    [] stage = "upgrade" -> "additions"
    [] stage = "additions" -> "sudo"
    [] stage = "sudo" -> "sshd"
    [] stage = "sshd" -> "forget_failure"

(* Stages [1/6] to [5/6]; Guest Additions are skipped when unwanted.       *)
Stage ==
  /\ pc \in Stages
  /\ pc' = After(pc)
  /\ done' = IF pc = "additions" /\ ~wanted THEN done ELSE done \cup {pc}
  /\ UNCHANGED <<family, env, complete, failed, wanted, ssh, cause, silent,
                 faults>>

(* set -e: any command may fail; the upgrade and the Guest Additions also  *)
(* do when no repository answers.                                          *)
StageFails ==
  /\ pc \in Stages
  /\ pc' = "trap"
  /\ cause' \in IF pc \in {"upgrade", "additions"} THEN {"repository", "other"}
                ELSE {"other"}
  /\ UNCHANGED <<family, env, complete, failed, done, wanted, ssh, silent,
                 faults>>

ForgetFailure ==
  /\ pc = "forget_failure"
  /\ pc' = "mark"
  /\ failed' = FALSE
  /\ UNCHANGED <<family, env, complete, done, wanted, ssh, cause, silent,
                 faults>>

(* The end of the script, and of the installation on Ubuntu.               *)
Mark ==
  /\ pc = "mark"
  /\ pc' = IF env = "installer" THEN "leave" ELSE "idle"
  /\ complete' = TRUE
  /\ UNCHANGED <<family, env, failed, done, wanted, ssh, cause, silent,
                 faults>>

(* The marker is created by the shell, but date fails.                     *)
MarkFails ==
  /\ pc = "mark"
  /\ pc' = "trap"
  /\ complete' = TRUE
  /\ cause' = "other"
  /\ UNCHANGED <<family, env, failed, done, wanted, ssh, silent, faults>>

(* record_bootstrap_exit; a late-command that fails stops the installer.   *)
RecordFailure ==
  /\ pc = "trap"
  /\ pc' = IF env = "installer" THEN "halted" ELSE "idle"
  /\ failed' = TRUE
  /\ UNCHANGED <<family, env, complete, done, wanted, ssh, cause, silent,
                 faults>>

(* mkdir or rm fails: the script ends without a trace.                     *)
EndsEarly ==
  /\ pc \in {"clear_complete", "clear_failed"}
  /\ pc' = IF env = "installer" THEN "halted" ELSE "idle"
  /\ silent' = TRUE
  /\ UNCHANGED <<family, env, complete, failed, done, wanted, ssh, cause,
                 faults>>

(* The redirection to the marker fails in the trap.                        *)
RecordFails ==
  /\ pc = "trap"
  /\ pc' = IF env = "installer" THEN "halted" ELSE "idle"
  /\ silent' = TRUE
  /\ UNCHANGED <<family, env, complete, failed, done, wanted, ssh, cause,
                 faults>>

Step ==
  \/ RunInTarget
  \/ FirstBoot
  \/ ClearComplete
  \/ ClearFailed
  \/ Stage
  \/ ForgetFailure
  \/ Mark
  \/ RecordFailure

GuestNext ==
  \/ Step
  \/ StageFails
  \/ MarkFails
  \/ EndsEarly
  \/ RecordFails
  \/ PowerLoss
  \/ SshUp

-----------------------------------------------------------------------------
(* Every variable of the guest holds a value of its kind.                  *)
GuestTypeOK ==
  /\ family \in {"ubuntu", "kali"}
  /\ env \in {"installer", "installed"}
  /\ pc \in Steps \cup Resting \cup {"installing", "leave", "trap"}
  /\ complete \in BOOLEAN
  /\ failed \in BOOLEAN
  /\ done \in SUBSET Stages
  /\ wanted \in BOOLEAN
  /\ ssh \in BOOLEAN
  /\ cause \in {"none", "repository", "other"}
  /\ silent \in BOOLEAN
  /\ faults \in 0 .. MaxFaults

Required == IF wanted THEN Stages ELSE Stages \ {"additions"}

(* The completion marker is on a guest only after every stage succeeded,   *)
(* in one run or over several that were cut off.                           *)
CompleteMeansStages == complete => Required \subseteq done

(* The completion marker is never removed again: a boot of a complete      *)
(* guest does not run the script a second time.                            *)
CompleteIsFinal == [][complete => complete']_guest

(* A run whose exit trap was set and could write ends with a marker.       *)
NoSilentStop == pc \in Resting => complete \/ failed \/ silent

(* What README.md says of the Linux bootstrap: that it depends on no       *)
(* repository.                                                             *)
RepositoryIndependent == failed => cause # "repository"

=============================================================================
