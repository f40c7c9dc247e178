--------------------------- MODULE LinuxReadiness ---------------------------
(***************************************************************************)
(* verify_linux_machine_ready (crucible.py) beside a Linux guest.  The     *)
(* address is answered first by the installer, whose host key and users    *)
(* are not those of the installed system; the controller pins a host key   *)
(* only once it has seen the completion marker of the installed one.       *)
(***************************************************************************)
EXTENDS LinuxBootstrap

VARIABLES
  stage,        \* what the controller waits for
  knownHosts,   \* the host key in the machine's known_hosts
  verdict       \* what it told the Forge

controller == <<stage, knownHosts, verdict>>
allVars == <<guest, controller>>

ReadinessInit ==
  /\ Init
  /\ stage = "port"
  /\ knownHosts = "empty"
  /\ verdict = "none"

(* The user and the public key exist on the installed system only.         *)
Authenticates == ssh /\ env = "installed"

(* wait_for_ssh                                                            *)
PortOpens ==
  /\ stage = "port"
  /\ ssh
  /\ stage' = "probe"
  /\ UNCHANGED <<guest, knownHosts, verdict>>

(* The host key is pinned by the first connection, as accept-new does.     *)
ProbeFailedMutant ==
  /\ stage = "probe"
  /\ ssh
  /\ knownHosts' = IF knownHosts = "empty" THEN env ELSE knownHosts
  /\ IF knownHosts' # env \/ ~Authenticates
     THEN UNCHANGED <<stage, verdict>>
     ELSE IF failed
     THEN stage' = "done" /\ verdict' = "failed"
     ELSE stage' = "probe_complete" /\ UNCHANGED verdict
  /\ UNCHANGED guest

(* wait_for_bootstrap, without a host key: the failure marker first.       *)
ProbeFailed ==
  /\ stage = "probe"
  /\ Authenticates
  /\ IF failed
     THEN stage' = "done" /\ verdict' = "failed"
     ELSE stage' = "probe_complete" /\ UNCHANGED verdict
  /\ UNCHANGED <<guest, knownHosts>>

(* A machine that lets the user in is taken for bootstrapped.              *)
ProbeCompleteMutant ==
  /\ stage = "probe_complete"
  /\ stage' = IF Authenticates THEN "reset" ELSE "probe"
  /\ UNCHANGED <<guest, knownHosts, verdict>>

ProbeComplete ==
  /\ stage = "probe_complete"
  /\ stage' = IF Authenticates /\ complete THEN "reset" ELSE "probe"
  /\ UNCHANGED <<guest, knownHosts, verdict>>

(* reset_machine_known_hosts                                               *)
ResetKnownHosts ==
  /\ stage = "reset"
  /\ knownHosts' = "empty"
  /\ stage' = "authenticate"
  /\ UNCHANGED <<guest, verdict>>

(* wait_for_ssh_authentication: accept-new records an unknown host key and *)
(* refuses a changed one.                                                  *)
Authenticate ==
  /\ stage = "authenticate"
  /\ ssh
  /\ knownHosts' = IF knownHosts = "empty" THEN env ELSE knownHosts
  /\ stage' = IF knownHosts' = env /\ Authenticates THEN "ping" ELSE stage
  /\ UNCHANGED <<guest, verdict>>

(* generate_ansible_inventory, verify_ansible                              *)
Ping ==
  /\ stage = "ping"
  /\ stage' = "done"
  /\ verdict' = IF Authenticates /\ knownHosts = env THEN "ready"
                ELSE "unreachable"
  /\ UNCHANGED <<guest, knownHosts>>

DeadlinePasses ==
  /\ stage \in {"port", "probe", "authenticate"}
  /\ stage' = "done"
  /\ verdict' = "timeout"
  /\ UNCHANGED <<guest, knownHosts>>

Controller ==
  \/ PortOpens
  \/ ProbeFailed
  \/ ProbeComplete
  \/ ResetKnownHosts
  \/ Authenticate
  \/ Ping

Guest == GuestNext /\ UNCHANGED controller

Done == pc \in Resting /\ UNCHANGED allVars

Next ==
  \/ Guest
  \/ Controller
  \/ DeadlinePasses
  \/ Done

Spec == ReadinessInit /\ [][Next]_allVars

(* Installer, script and controller keep running and sshd starts; no       *)
(* deadline is promised to pass.                                           *)
FairSpec ==
  /\ Spec
  /\ WF_allVars(Step /\ UNCHANGED controller)
  /\ WF_allVars(SshUp /\ UNCHANGED controller)
  /\ WF_allVars(Controller)

-----------------------------------------------------------------------------
(* Every variable holds a value of its kind.                               *)
TypeOK ==
  /\ GuestTypeOK
  /\ stage \in {"port", "probe", "probe_complete", "reset", "authenticate",
                "ping", "done"}
  /\ knownHosts \in {"empty", "installer", "installed"}
  /\ verdict \in {"none", "ready", "failed", "unreachable", "timeout"}

(* The Forge goes on to Ansible only on the installed system, with every   *)
(* stage of the bootstrap done and the host key of that system pinned.     *)
ReadyMeansBootstrapped ==
  verdict = "ready" =>
    /\ complete
    /\ Required \subseteq done
    /\ env = "installed"
    /\ knownHosts = "installed"

(* The host key of the installer is never pinned, so that the installed    *)
(* system is not refused for having another one.                           *)
InstallerNeverPinned == knownHosts # "installer"

(* Once the power stops failing the bootstrap comes to rest with a marker, *)
(* or its last run failed without writing one: on Kali because every boot  *)
(* tries again.                                                            *)
BootstrapSettles ==
  <>[](pc \in Resting /\ (complete \/ failed \/ silent))

(* A guest that was installed gives the controller its verdict, and not by *)
(* a deadline alone, unless its script failed without leaving a marker:    *)
(* before the trap was set, or in a trap that could not write it.          *)
VerdictIsReached == env = "installed" ~> verdict # "none" \/ silent

=============================================================================
