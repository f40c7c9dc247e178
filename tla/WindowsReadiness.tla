-------------------------- MODULE WindowsReadiness --------------------------
(***************************************************************************)
(* verify_windows_machine_ready (crucible.py) beside the bootstrap of the  *)
(* guest: the controller waits for the port, for PSRP, then probes the     *)
(* markers until one of them tells it how the bootstrap ended.  The guest  *)
(* restarts under it, and a probe reads two files one after the other.     *)
(***************************************************************************)
EXTENDS WindowsBootstrap

VARIABLES
  stage,    \* what the controller waits for
  verdict   \* what it told the Forge

controller == <<stage, verdict>>
allVars == <<vars, controller>>

ReadinessInit ==
  /\ Init
  /\ stage = "port"
  /\ verdict = "none"

Reached(from, to) ==
  /\ stage = from
  /\ remoting = "up"
  /\ stage' = to
  /\ UNCHANGED <<vars, verdict>>

(* wait_for_tcp_port, wait_for_windows_psrp                                *)
PortOpens == Reached("port", "psrp")
PsrpAnswers == Reached("psrp", "probe")

(* The complete marker alone decides.                                      *)
ProbeFailedMutant ==
  /\ stage = "probe"
  /\ remoting = "up"
  /\ stage' = "probe_complete" /\ UNCHANGED verdict
  /\ UNCHANGED vars

(* wait_for_windows_bootstrap: the failure marker is looked at first.      *)
ProbeFailed ==
  /\ stage = "probe"
  /\ remoting = "up"
  /\ IF failed
     THEN stage' = "done" /\ verdict' = "failed"
     ELSE stage' = "probe_complete" /\ UNCHANGED verdict
  /\ UNCHANGED vars

(* A machine that answers is taken for complete.                           *)
ProbeCompleteMutant ==
  /\ stage = "probe_complete"
  /\ remoting = "up"
  /\ stage' = "ping"
  /\ UNCHANGED <<vars, verdict>>

ProbeComplete ==
  /\ stage = "probe_complete"
  /\ remoting = "up"
  /\ stage' = IF complete THEN "ping" ELSE "probe"
  /\ UNCHANGED <<vars, verdict>>

(* The guest goes away during the probe; the controller asks again.        *)
ProbeLost ==
  /\ stage = "probe_complete"
  /\ remoting # "up"
  /\ stage' = "probe"
  /\ UNCHANGED <<vars, verdict>>

(* verify_windows_ansible                                                  *)
Ping ==
  /\ stage = "ping"
  /\ stage' = "done"
  /\ verdict' = IF remoting = "up" THEN "ready" ELSE "unreachable"
  /\ UNCHANGED vars

(* One of the three deadlines passes.                                      *)
DeadlinePasses ==
  /\ stage \in {"port", "psrp", "probe"}
  /\ stage' = "done"
  /\ verdict' = "timeout"
  /\ UNCHANGED vars

Controller ==
  \/ PortOpens
  \/ PsrpAnswers
  \/ ProbeFailed
  \/ ProbeComplete
  \/ ProbeLost
  \/ Ping

Guest == GuestNext /\ UNCHANGED controller

Done == pc = "idle" /\ UNCHANGED allVars

Next ==
  \/ Guest
  \/ Controller
  \/ DeadlinePasses
  \/ Done

Spec == ReadinessInit /\ [][Next]_allVars

(* The script and the controller keep running, WinRM comes up after a      *)
(* start; nobody promises that a deadline passes.                          *)
FairSpec ==
  /\ Spec
  /\ WF_allVars(Step /\ UNCHANGED controller)
  /\ WF_allVars(RemotingUp /\ UNCHANGED controller)
  /\ WF_allVars(Controller)

-----------------------------------------------------------------------------
(* Every variable of guest and controller holds a value of its kind.       *)
TypeOK ==
  /\ GuestTypeOK
  /\ stage \in {"port", "psrp", "probe", "probe_complete", "ping", "done"}
  /\ verdict \in {"none", "ready", "failed", "unreachable", "timeout"}

(* The Forge goes on to Ansible only on a guest that is complete and will  *)
(* not run its bootstrap again, whatever happened between the probe and    *)
(* the ping.                                                               *)
ReadyMeansComplete == verdict = "ready" => complete /\ ~task /\ pc = "idle"

(* Without a fault the bootstrap ends with one of its markers, however     *)
(* many updates Windows publishes meanwhile.                               *)
BootstrapEnds == <>(complete \/ failed \/ faults > 0)

(* Without a fault a bootstrap that got as far as WinRM gives the          *)
(* controller its verdict, and not by a deadline alone.                    *)
VerdictIsReached == remoting = "up" ~> (verdict # "none" \/ faults > 0)

=============================================================================
