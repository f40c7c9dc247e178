----------------------- MODULE ConfigurationExecutor -----------------------
(***************************************************************************)
(* execute_machine_configurations (crucible/configurations/executor.py)    *)
(* and the hardening reports it writes (crucible/hardening/reporting.py),  *)
(* over the successive machines that are forged under one name.            *)
(*                                                                         *)
(* Every forge builds a new guest with a fresh serial and applies the      *)
(* configurations of its plan one after the other.  For each, the          *)
(* controller writes a report (hardening configurations only) and the      *)
(* execution state before and after the playbook.  Both files are opened   *)
(* for writing and then dumped, so a controller that dies in between       *)
(* leaves a torn file; the files of the earlier machine stay on disk.      *)
(***************************************************************************)
EXTENDS Naturals, Sequences, FiniteSets

CONSTANTS
  Config,      \* configuration ids
  Plans,       \* the execution plans a manifest may lead to
  Hardening,   \* configurations with a hardening plan
  Inline,      \* hardening configurations validated inline by the playbook
  Broken,      \* configurations whose implementation the loop rejects
  MaxForges,   \* bound: machines forged under the name
  NoFile,      \* stands for a file that does not exist
  Torn         \* stands for a file truncated or partly written

Serial == 1 .. MaxForges

Status == {"none", "running", "failed", "applied"}

ReportStatus == {"running", "playbook_failed", "playbook_succeeded"}

StateFile == [serial : Serial, entries : [Config -> Status]]

Report ==
  [serial     : Serial,
   execution  : ReportStatus,
   validation : {"not_configured", "pending", "passed", "not_completed"}]

ASSUME ExecutorAssumption ==
  /\ MaxForges \in Nat
  /\ Hardening \subseteq Config
  /\ Inline \subseteq Hardening
  /\ Broken \subseteq Config
  /\ \A p \in Plans :
       /\ p \in Seq(Config)
       /\ \A i, j \in DOMAIN p : p[i] = p[j] => i = j

ASSUME SentinelAssumption ==
  /\ NoFile \notin StateFile \cup Report
  /\ Torn \notin StateFile \cup Report
  /\ NoFile # Torn

VARIABLES
  serial,      \* serial in the machine's manifest, 0 before the first forge
  plan,        \* the configurations of this forge in execution order
  pc,          \* where the executor is
  at,          \* the position in the plan it works on
  stateFile,   \* .crucible/state/configurations/<machine>.yml
  reports,     \* .crucible/state/hardening/<machine>/<configuration>.yml
  pending,     \* the execution state about to be dumped
  applied,     \* the ids the executor would return
  guest,       \* what the playbooks did to the guest of this forge
  outcome      \* how the last call of the executor ended

vars == <<serial, plan, pc, at, stateFile, reports, pending, applied, guest,
          outcome>>

disk == <<stateFile, reports>>

Idle == pc = "idle"

Current == plan[at]

-----------------------------------------------------------------------------
Init ==
  /\ serial = 0
  /\ plan = <<>>
  /\ pc = "idle"
  /\ at = 1
  /\ stateFile = NoFile
  /\ reports = [c \in Config |-> NoFile]
  /\ pending = NoFile
  /\ applied = <<>>
  /\ guest = [c \in Config |-> "untouched"]
  /\ outcome = "none"

(***************************************************************************)
(* A new machine is forged under the name, its earlier one being gone: a   *)
(* fresh guest, a fresh serial, and the executor starts.                   *)
(***************************************************************************)
Forge ==
  /\ Idle
  /\ serial < MaxForges
  /\ serial' = serial + 1
  /\ plan' \in Plans
  /\ at' = 1
  /\ applied' = <<>>
  /\ guest' = [c \in Config |-> "untouched"]
  /\ pc' = "next"
  /\ outcome' = "none"
  /\ UNCHANGED <<disk, pending>>

(***************************************************************************)
(* The head of the loop: nothing left to do, an implementation that is     *)
(* refused, or the next configuration.                                     *)
(***************************************************************************)
Finish ==
  /\ pc = "next"
  /\ at > Len(plan)
  /\ pc' = "idle"
  /\ outcome' = "applied"
  /\ UNCHANGED <<serial, plan, at, disk, pending, applied, guest>>

RejectImplementation ==
  /\ pc = "next"
  /\ at <= Len(plan)
  /\ Current \in Broken
  /\ pc' = "idle"
  /\ outcome' = "error"
  /\ UNCHANGED <<serial, plan, at, disk, pending, applied, guest>>

(* "running" is not recorded.                                              *)
BeginConfigurationMutant ==
  /\ pc = "next"
  /\ at <= Len(plan)
  /\ Current \notin Broken
  /\ pc' = IF Current \in Hardening THEN "report_running" ELSE "playbook"
  /\ UNCHANGED <<serial, plan, at, disk, pending, applied, guest, outcome>>

BeginConfiguration ==
  /\ pc = "next"
  /\ at <= Len(plan)
  /\ Current \notin Broken
  /\ pc' = IF Current \in Hardening THEN "report_running" ELSE "load_running"
  /\ UNCHANGED <<serial, plan, at, disk, pending, applied, guest, outcome>>

-----------------------------------------------------------------------------
(* Inline validation is taken for passed whatever the playbook returned.   *)
ValidationStatusMutant(c, execution) ==
  IF c \in Inline THEN "passed" ELSE "not_configured"

(* _validation_status.                                                     *)
ValidationStatus(c, execution) ==
  CASE c \notin Inline -> "not_configured"
    [] c \in Inline /\ execution = "playbook_succeeded" -> "passed"
    [] c \in Inline /\ execution = "playbook_failed" -> "not_completed"
    [] OTHER -> "pending"

NewReport(c, execution) ==
  [serial |-> serial, execution |-> execution,
   validation |-> ValidationStatus(c, execution)]

OpenReport(from, to) ==
  /\ pc = from
  /\ pc' = to
  /\ reports' = [reports EXCEPT ![Current] = Torn]
  /\ UNCHANGED <<serial, plan, at, stateFile, pending, applied, guest,
                 outcome>>

DumpReport(from, execution) ==
  /\ pc = from
  /\ reports' = [reports EXCEPT ![Current] = NewReport(Current, execution)]
  /\ UNCHANGED <<serial, plan, stateFile, pending, guest>>

(***************************************************************************)
(* write_hardening_execution_report: before the playbook, after it failed, *)
(* and after it succeeded.                                                 *)
(***************************************************************************)
OpenRunningReport == OpenReport("report_running", "dump_report_running")

DumpRunningReport ==
  /\ DumpReport("dump_report_running", "running")
  /\ pc' = "load_running"
  /\ UNCHANGED <<at, applied, outcome>>

OpenFailedReport == OpenReport("report_failed", "dump_report_failed")

(* The executor goes on with the next configuration after a failure.       *)
DumpFailedReportMutant ==
  /\ DumpReport("dump_report_failed", "playbook_failed")
  /\ pc' = "next"
  /\ at' = at + 1
  /\ UNCHANGED <<applied, outcome>>

DumpFailedReport ==
  /\ DumpReport("dump_report_failed", "playbook_failed")
  /\ pc' = "idle"
  /\ outcome' = "failed"
  /\ UNCHANGED <<at, applied>>

OpenSucceededReport ==
  OpenReport("report_succeeded", "dump_report_succeeded")

DumpSucceededReport ==
  /\ DumpReport("dump_report_succeeded", "playbook_succeeded")
  /\ pc' = "next"
  /\ at' = at + 1
  /\ applied' = Append(applied, Current)
  /\ UNCHANGED outcome

-----------------------------------------------------------------------------
(***************************************************************************)
(* _write_execution_state: the file is loaded, replaced by a new state     *)
(* when it is missing or belongs to another serial, and given an entry.    *)
(***************************************************************************)
EmptyState == [serial |-> serial, entries |-> [c \in Config |-> "none"]]

(* The entries of the machine that had the name before are kept.           *)
StateToUpdateMutant ==
  IF stateFile \in {NoFile, Torn} THEN EmptyState
  ELSE [stateFile EXCEPT !.serial = serial]

StateToUpdate ==
  IF stateFile \in {NoFile, Torn} THEN EmptyState
  ELSE IF stateFile.serial # serial THEN EmptyState
  ELSE stateFile

(* A torn file is a YAML mapping without this serial, or it is refused.    *)
LoadState(from, to, status) ==
  /\ pc = from
  /\ pc' = to
  /\ pending' = [StateToUpdate EXCEPT !.entries[Current] = status]
  /\ UNCHANGED <<serial, plan, at, disk, applied, guest, outcome>>

LoadRejected ==
  /\ pc = "load_running"
  /\ stateFile = Torn
  /\ pc' = "idle"
  /\ outcome' = "error"
  /\ UNCHANGED <<serial, plan, at, disk, pending, applied, guest>>

OpenState(from, to) ==
  /\ pc = from
  /\ pc' = to
  /\ stateFile' = Torn
  /\ UNCHANGED <<serial, plan, at, reports, pending, applied, guest, outcome>>

DumpState(from) ==
  /\ pc = from
  /\ stateFile' = pending
  /\ UNCHANGED <<serial, plan, reports, pending, guest>>

LoadRunning == LoadState("load_running", "open_running", "running")
OpenRunning == OpenState("open_running", "dump_running")

DumpRunning ==
  /\ DumpState("dump_running")
  /\ pc' = "playbook"
  /\ UNCHANGED <<at, applied, outcome>>

LoadFailed == LoadState("load_failed", "open_failed", "failed")
OpenFailed == OpenState("open_failed", "dump_failed")

DumpFailed ==
  /\ DumpState("dump_failed")
  /\ IF Current \in Hardening
     THEN pc' = "report_failed" /\ outcome' = outcome
     ELSE pc' = "idle" /\ outcome' = "failed"
  /\ UNCHANGED <<at, applied>>

LoadApplied == LoadState("load_applied", "open_applied", "applied")
OpenApplied == OpenState("open_applied", "dump_applied")

DumpApplied ==
  /\ DumpState("dump_applied")
  /\ IF Current \in Hardening
     THEN pc' = "report_succeeded" /\ UNCHANGED <<at, applied>>
     ELSE /\ pc' = "next"
          /\ at' = at + 1
          /\ applied' = Append(applied, Current)
  /\ UNCHANGED outcome

-----------------------------------------------------------------------------
(***************************************************************************)
(* The playbook changes the guest task by task and ends one way or the     *)
(* other.                                                                  *)
(***************************************************************************)
PlaybookChanges ==
  /\ pc = "playbook"
  /\ guest[Current] = "untouched"
  /\ guest' = [guest EXCEPT ![Current] = "touched"]
  /\ UNCHANGED <<serial, plan, pc, at, disk, pending, applied, outcome>>

PlaybookSucceeds ==
  /\ pc = "playbook"
  /\ guest' = [guest EXCEPT ![Current] = "configured"]
  /\ pc' = "load_applied"
  /\ UNCHANGED <<serial, plan, at, disk, pending, applied, outcome>>

PlaybookFails ==
  /\ pc = "playbook"
  /\ pc' = "load_failed"
  /\ UNCHANGED <<serial, plan, at, disk, pending, applied, guest, outcome>>

(***************************************************************************)
(* The controller dies; an ansible-playbook it started may still finish.   *)
(***************************************************************************)
Crash ==
  /\ ~Idle
  /\ pc' = "idle"
  /\ outcome' = "crashed"
  /\ \/ guest' = guest
     \/ /\ pc = "playbook"
        /\ guest' = [guest EXCEPT ![Current] = "configured"]
  /\ UNCHANGED <<serial, plan, at, disk, pending, applied>>

WriteReports ==
  \/ OpenRunningReport
  \/ DumpRunningReport
  \/ OpenFailedReport
  \/ DumpFailedReport
  \/ OpenSucceededReport
  \/ DumpSucceededReport

WriteState ==
  \/ LoadRunning
  \/ LoadRejected
  \/ OpenRunning
  \/ DumpRunning
  \/ LoadFailed
  \/ OpenFailed
  \/ DumpFailed
  \/ LoadApplied
  \/ OpenApplied
  \/ DumpApplied

Playbook ==
  \/ PlaybookChanges
  \/ PlaybookSucceeds
  \/ PlaybookFails

Done == Idle /\ serial = MaxForges /\ UNCHANGED vars

Next ==
  \/ Forge
  \/ Finish
  \/ RejectImplementation
  \/ BeginConfiguration
  \/ WriteReports
  \/ WriteState
  \/ Playbook
  \/ Crash
  \/ Done

Spec == Init /\ [][Next]_vars

-----------------------------------------------------------------------------
(* Every variable holds a value of its kind.                               *)
TypeOK ==
  /\ serial \in 0 .. MaxForges
  /\ plan \in Plans \cup {<<>>}
  /\ at \in Nat \ {0}
  /\ stateFile \in StateFile \cup {NoFile, Torn}
  /\ reports \in [Config -> Report \cup {NoFile, Torn}]
  /\ pending \in StateFile \cup {NoFile}
  /\ applied \in Seq(Config)
  /\ guest \in [Config -> {"untouched", "touched", "configured"}]

(* The execution state on disk is readable and is about this machine, not  *)
(* about one that had its name before.                                     *)
StateIsOurs == stateFile \notin {NoFile, Torn} /\ stateFile.serial = serial

(* A configuration recorded as applied was applied to this machine: an     *)
(* entry of an earlier machine of the same name is never taken for one of  *)
(* the new machine's.                                                      *)
AppliedIsTrue ==
  \A c \in Config :
    StateIsOurs /\ stateFile.entries[c] = "applied" => guest[c] = "configured"

(* The guest is not touched before the execution state says "running": a   *)
(* controller that dies leaves no change without a record, unless the      *)
(* record itself was torn.                                                 *)
NoChangeUnrecorded ==
  \A c \in Config :
    guest[c] # "untouched" =>
      \/ stateFile = Torn
      \/ StateIsOurs /\ stateFile.entries[c] # "none"

(* A hardening report of this machine never says more than the guest and   *)
(* the execution state: success is reported after it was recorded, and     *)
(* "passed" only for a playbook that validates inline and ended well.      *)
ReportNeverAhead ==
  \A c \in Config :
    /\ reports[c] \notin {NoFile, Torn}
    /\ reports[c].serial = serial
    => /\ reports[c].execution = "playbook_succeeded" =>
            \/ stateFile = Torn
            \/ StateIsOurs /\ stateFile.entries[c] = "applied"
       /\ reports[c].validation = "passed" =>
            c \in Inline /\ guest[c] = "configured"

(* The guest is configured in plan order and nothing is tried after a      *)
(* failure: whatever touched it came after everything planned before it    *)
(* was completed.                                                          *)
StopsAtFirstFailure ==
  \A j \in DOMAIN plan : \A i \in 1 .. j - 1 :
    guest[plan[j]] # "untouched" => guest[plan[i]] = "configured"

=============================================================================
