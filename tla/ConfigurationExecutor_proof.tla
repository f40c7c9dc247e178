-------------------- MODULE ConfigurationExecutor_proof --------------------
(***************************************************************************)
(* Theorems about the configuration executor for every catalogue, every    *)
(* plan and every number of machines forged under one name.                *)
(***************************************************************************)
EXTENDS ConfigurationExecutor, TLAPS

BeforePlaybook ==
  {"report_running", "dump_report_running", "load_running", "open_running",
   "dump_running"}

AfterSuccess ==
  {"load_applied", "open_applied", "dump_applied", "report_succeeded",
   "dump_report_succeeded"}

AfterFailure ==
  {"load_failed", "open_failed", "dump_failed", "report_failed",
   "dump_report_failed"}

Writing ==
  {"open_running", "dump_running", "open_failed", "dump_failed",
   "open_applied", "dump_applied"}

ProgramPoints ==
  {"idle", "next", "playbook"}
    \cup BeforePlaybook \cup AfterSuccess \cup AfterFailure

(***************************************************************************)
(* The inductive invariant.  Its core relates the position in the plan to  *)
(* what happened to the guest, and the state about to be written (or on    *)
(* disk) to both.                                                          *)
(***************************************************************************)
Types ==
  /\ serial \in 0 .. MaxForges
  /\ plan \in Seq(Config)
  /\ at \in Nat \ {0}
  /\ stateFile \in StateFile \cup {NoFile, Torn}
  /\ pending \in StateFile \cup {NoFile}
  /\ guest \in [Config -> {"untouched", "touched", "configured"}]
  /\ pc \in ProgramPoints
  /\ \A i, j \in DOMAIN plan : plan[i] = plan[j] => i = j

Position ==
  /\ pc # "idle" => serial \in Serial
  /\ pc \notin {"idle", "next"} => at \in DOMAIN plan

SerialNotAhead ==
  stateFile \notin {NoFile, Torn} => stateFile.serial <= serial

GuestFollowsPlan ==
  pc # "idle" =>
    /\ \A i \in DOMAIN plan : i < at => guest[plan[i]] = "configured"
    /\ \A c \in Config :
         (\A i \in DOMAIN plan : plan[i] = c => i > at) => guest[c] = "untouched"
    /\ pc \in BeforePlaybook => guest[Current] = "untouched"
    /\ pc = "next" /\ at \in DOMAIN plan => guest[Current] = "untouched"
    /\ pc \in AfterSuccess => guest[Current] = "configured"

PendingIsTrue ==
  pc \in Writing =>
    /\ pending \in StateFile
    /\ pending.serial = serial
    /\ pending.entries[Current] # "none"
    /\ \A c \in Config :
         /\ pending.entries[c] = "applied" => guest[c] = "configured"
         /\ guest[c] # "untouched" => pending.entries[c] # "none"

RunningIsRecorded ==
  pc \in {"playbook", "load_failed", "load_applied"} =>
    /\ StateIsOurs
    /\ stateFile.entries[Current] # "none"

Reading ==
  {"next", "report_running", "dump_report_running", "load_running",
   "report_succeeded", "dump_report_succeeded"}

TornIsInherited ==
  pc \in Reading /\ stateFile = Torn =>
    \A c \in Config : guest[c] = "untouched"

IInv ==
  /\ Types
  /\ Position
  /\ SerialNotAhead
  /\ GuestFollowsPlan
  /\ PendingIsTrue
  /\ RunningIsRecorded
  /\ TornIsInherited
  /\ AppliedIsTrue
  /\ NoChangeUnrecorded
  /\ StopsAtFirstFailure

-----------------------------------------------------------------------------
LEMMA InitIInv == Init => IInv
BY SentinelAssumption, ExecutorAssumption DEF Init, IInv, Types, Position, SerialNotAhead,
   GuestFollowsPlan, PendingIsTrue, RunningIsRecorded, TornIsInherited,
   AppliedIsTrue, NoChangeUnrecorded, StopsAtFirstFailure, StateIsOurs,
   ProgramPoints, Writing, BeforePlaybook, AfterSuccess

(* A fresh guest, with the files of the earlier machine.                   *)
LEMMA ForgeIInv == IInv /\ Forge => IInv'
<1> SUFFICES ASSUME IInv, Forge PROVE IInv'
  OBVIOUS
<1>1. /\ serial' = serial + 1 /\ serial' \in Serial /\ serial' \in 0 .. MaxForges
      /\ plan' \in Plans /\ plan' \in Seq(Config)
      /\ \A i, j \in DOMAIN plan' : plan'[i] = plan'[j] => i = j
      /\ UNCHANGED <<stateFile, pending>>
      /\ guest' = [c \in Config |-> "untouched"]
      /\ at' = 1 /\ pc' = "next"
  BY ExecutorAssumption DEF Forge, IInv, Types, Serial, disk
<1>2. ~StateIsOurs'
  BY <1>1 DEF IInv, SerialNotAhead, StateIsOurs, Types, StateFile, Serial
<1>3. Types' /\ Position'
  BY <1>1 DEF IInv, Types, Position, ProgramPoints
<1>4. SerialNotAhead'
  BY <1>1 DEF IInv, SerialNotAhead, Types, StateFile, Serial
<1>5. GuestFollowsPlan'
  BY <1>1 DEF GuestFollowsPlan, BeforePlaybook, AfterSuccess, Current
<1>6. PendingIsTrue' /\ RunningIsRecorded' /\ TornIsInherited'
  BY <1>1 DEF PendingIsTrue, RunningIsRecorded, TornIsInherited, Writing
<1>7. AppliedIsTrue' /\ NoChangeUnrecorded'
  BY <1>1, <1>2 DEF AppliedIsTrue, NoChangeUnrecorded
<1>8. StopsAtFirstFailure'
  BY <1>1 DEF StopsAtFirstFailure
<1> QED
  BY <1>3, <1>4, <1>5, <1>6, <1>7, <1>8 DEF IInv

(* Steps that change neither the state file nor the guest, and move the    *)
(* program on without leaving the phase they are in, or end the call.      *)
LEMMA QuietIInv ==
  ASSUME IInv, UNCHANGED <<serial, plan, at, stateFile, pending, guest>>,
         \/ pc' = "idle"
         \/ pc' = pc
         \/ pc = "next" /\ pc' \in {"report_running", "load_running"}
            /\ at \in DOMAIN plan
         \/ pc = "report_running" /\ pc' = "dump_report_running"
         \/ pc = "dump_report_running" /\ pc' = "load_running"
         \/ pc = "report_failed" /\ pc' = "dump_report_failed"
         \/ pc = "report_succeeded" /\ pc' = "dump_report_succeeded"
         \/ pc = "playbook" /\ pc' = "load_failed"
  PROVE  IInv'
<1>1. Types' /\ Position'
  BY DEF IInv, Types, Position, ProgramPoints, BeforePlaybook, AfterFailure,
     AfterSuccess
<1>2. SerialNotAhead' /\ AppliedIsTrue' /\ NoChangeUnrecorded'
      /\ StopsAtFirstFailure'
  BY DEF IInv, SerialNotAhead, AppliedIsTrue, NoChangeUnrecorded,
     StopsAtFirstFailure, StateIsOurs
<1>3. GuestFollowsPlan'
  BY DEF IInv, GuestFollowsPlan, BeforePlaybook, AfterSuccess, Current
<1>4. PendingIsTrue'
  BY DEF IInv, PendingIsTrue, Writing, Current
<1>5. RunningIsRecorded' /\ TornIsInherited'
  BY DEF IInv, RunningIsRecorded, TornIsInherited, StateIsOurs, Current,
     Reading
<1> QED
  BY <1>1, <1>2, <1>3, <1>4, <1>5 DEF IInv

(* The end of the loop body: the next position, whose configuration the    *)
(* playbooks have not touched.                                             *)
LEMMA AdvanceIInv ==
  ASSUME IInv, UNCHANGED <<serial, plan, pending, guest>>,
         at' = at + 1, pc' = "next",
         \/ pc = "dump_report_succeeded" /\ stateFile' = stateFile
         \/ pc = "dump_applied" /\ stateFile' = pending
  PROVE  IInv'
<1>1. /\ at \in DOMAIN plan /\ guest[Current] = "configured"
      /\ serial \in Serial
  BY DEF IInv, Position, GuestFollowsPlan, AfterSuccess
<1>2. Types' /\ Position'
  BY DEF IInv, Types, Position, ProgramPoints
<1>3. ASSUME stateFile' = pending, pc = "dump_applied"
      PROVE  SerialNotAhead' /\ AppliedIsTrue' /\ NoChangeUnrecorded'
             /\ TornIsInherited'
  <2>1. /\ pending \in StateFile /\ pending.serial = serial
        /\ StateIsOurs' /\ stateFile' # Torn
    BY <1>3, SentinelAssumption DEF IInv, PendingIsTrue, Writing, StateIsOurs
  <2>2. SerialNotAhead' /\ TornIsInherited'
    BY <1>3, <2>1 DEF SerialNotAhead, TornIsInherited, IInv, Types
  <2>3. AppliedIsTrue' /\ NoChangeUnrecorded'
    BY <1>3, <2>1
       DEF IInv, PendingIsTrue, AppliedIsTrue, NoChangeUnrecorded, Writing
  <2> QED
    BY <2>2, <2>3
<1>4. ASSUME stateFile' = stateFile, pc = "dump_report_succeeded"
      PROVE  SerialNotAhead' /\ AppliedIsTrue' /\ NoChangeUnrecorded'
             /\ TornIsInherited'
  BY <1>4 DEF IInv, SerialNotAhead, AppliedIsTrue, NoChangeUnrecorded,
     StateIsOurs, TornIsInherited, Reading
<1>5. StopsAtFirstFailure'
  BY DEF IInv, StopsAtFirstFailure
<1>6. GuestFollowsPlan'
  <2>1. \A i \in DOMAIN plan : i < at' => guest[plan[i]] = "configured"
    BY <1>1 DEF IInv, Types, GuestFollowsPlan, AfterSuccess, Current
  <2>2. \A c \in Config :
          (\A i \in DOMAIN plan : plan[i] = c => i > at) => guest[c] = "untouched"
    BY DEF IInv, GuestFollowsPlan, AfterSuccess
  <2>3. ASSUME NEW c \in Config, \A i \in DOMAIN plan : plan[i] = c => i > at'
        PROVE  guest[c] = "untouched"
    BY <2>2, <2>3 DEF IInv, Types
  <2>4. ASSUME at' \in DOMAIN plan PROVE guest[plan[at']] = "untouched"
    <3>1. plan[at'] \in Config
      BY <2>4 DEF IInv, Types
    <3>2. \A i \in DOMAIN plan : plan[i] = plan[at'] => i > at
      BY <2>4 DEF IInv, Types
    <3> QED
      BY <2>2, <3>1, <3>2
  <2> QED
    BY <2>1, <2>3, <2>4
       DEF GuestFollowsPlan, BeforePlaybook, AfterSuccess, Current
<1>7. PendingIsTrue' /\ RunningIsRecorded'
  BY DEF PendingIsTrue, RunningIsRecorded, Writing
<1> QED
  BY <1>2, <1>3, <1>4, <1>5, <1>6, <1>7 DEF IInv

(* Loading the state: what will be written is the truth about this guest.  *)
LEMMA LoadIInv ==
  ASSUME IInv, NEW from, NEW to, NEW status, LoadState(from, to, status),
         \/ from = "load_running" /\ to = "open_running" /\ status = "running"
         \/ from = "load_failed" /\ to = "open_failed" /\ status = "failed"
         \/ from = "load_applied" /\ to = "open_applied" /\ status = "applied"
  PROVE  IInv'
<1>1. /\ pc = from /\ pc' = to
      /\ UNCHANGED <<serial, plan, at, stateFile, applied, guest>>
      /\ pending' = [StateToUpdate EXCEPT !.entries[Current] = status]
  BY DEF LoadState, disk
<1>2. /\ at \in DOMAIN plan /\ Current \in Config /\ serial \in Serial
      /\ status \in Status
  BY <1>1 DEF IInv, Types, Position, Current, Status
<1>3. StateToUpdate \in StateFile /\ StateToUpdate.serial = serial
  BY <1>2 DEF StateToUpdate, EmptyState, IInv, Types, StateFile, Status
<1>4. /\ pending' \in StateFile /\ pending'.serial = serial
      /\ pending'.entries = [StateToUpdate.entries EXCEPT ![Current] = status]
  BY <1>1, <1>2, <1>3 DEF StateFile
<1>5. \A c \in Config :
        /\ StateToUpdate.entries[c] = "applied" => guest[c] = "configured"
        /\ guest[c] # "untouched" => StateToUpdate.entries[c] # "none"
  <2>1. CASE StateIsOurs
    BY <2>1 DEF StateIsOurs, StateToUpdate, IInv, AppliedIsTrue,
       NoChangeUnrecorded
  <2>2. CASE ~StateIsOurs
    <3>1. StateToUpdate = EmptyState
      BY <2>2 DEF StateIsOurs, StateToUpdate
    <3>2. pc = "load_running"
      BY <1>1, <2>2 DEF IInv, RunningIsRecorded, LoadState
    <3>3. \A c \in Config : guest[c] = "untouched"
      BY <2>2, <3>2 DEF IInv, NoChangeUnrecorded, TornIsInherited, Reading
    <3> QED
      BY <3>1, <3>3 DEF EmptyState
  <2> QED
    BY <2>1, <2>2
<1>6. status = "applied" => guest[Current] = "configured"
  BY <1>1 DEF IInv, GuestFollowsPlan, AfterSuccess
<1>7. StateToUpdate.entries \in [Config -> Status]
  BY <1>3 DEF StateFile
<1>8. PendingIsTrue'
  <2>1. status # "none"
    OBVIOUS
  <2>2. Current' = Current
    BY <1>1 DEF Current
  <2>3. \A c \in Config :
          /\ pending'.entries[c] = "applied" => guest[c] = "configured"
          /\ guest[c] # "untouched" => pending'.entries[c] # "none"
    BY <1>2, <1>4, <1>5, <1>6, <1>7, <2>1
  <2> QED
    BY <1>1, <1>2, <1>4, <1>7, <2>1, <2>2, <2>3 DEF PendingIsTrue
<1>9. Types' /\ Position'
  BY <1>1, <1>4 DEF IInv, Types, Position, ProgramPoints, BeforePlaybook,
     AfterFailure, AfterSuccess
<1>10. SerialNotAhead' /\ AppliedIsTrue' /\ NoChangeUnrecorded'
       /\ StopsAtFirstFailure' /\ RunningIsRecorded' /\ TornIsInherited'
  BY <1>1 DEF IInv, SerialNotAhead, AppliedIsTrue, NoChangeUnrecorded,
     StopsAtFirstFailure, StateIsOurs, RunningIsRecorded, TornIsInherited,
     Reading
<1>11. GuestFollowsPlan'
  BY <1>1 DEF IInv, GuestFollowsPlan, BeforePlaybook, AfterSuccess, Current
<1> QED
  BY <1>8, <1>9, <1>10, <1>11 DEF IInv

(* Truncating the state file: nothing is recorded until it is dumped.      *)
LEMMA OpenIInv ==
  ASSUME IInv, NEW from, NEW to, OpenState(from, to),
         \/ from = "open_running" /\ to = "dump_running"
         \/ from = "open_failed" /\ to = "dump_failed"
         \/ from = "open_applied" /\ to = "dump_applied"
  PROVE  IInv'
<1>1. /\ pc = from /\ pc' = to /\ stateFile' = Torn
      /\ UNCHANGED <<serial, plan, at, pending, guest>>
  BY DEF OpenState
<1>2. Types' /\ Position'
  BY <1>1 DEF IInv, Types, Position, ProgramPoints, BeforePlaybook,
     AfterFailure, AfterSuccess
<1>3. SerialNotAhead' /\ AppliedIsTrue' /\ NoChangeUnrecorded'
      /\ RunningIsRecorded' /\ TornIsInherited'
  BY <1>1 DEF SerialNotAhead, AppliedIsTrue, NoChangeUnrecorded, StateIsOurs,
     RunningIsRecorded, TornIsInherited, Reading
<1>4. GuestFollowsPlan' /\ PendingIsTrue' /\ StopsAtFirstFailure'
  BY <1>1 DEF IInv, GuestFollowsPlan, BeforePlaybook, AfterSuccess, Current,
     PendingIsTrue, Writing, StopsAtFirstFailure
<1> QED
  BY <1>2, <1>3, <1>4 DEF IInv

(* Dumping the state: the record is true again.                            *)
LEMMA DumpIInv ==
  ASSUME IInv, UNCHANGED <<serial, plan, at, pending, guest>>,
         stateFile' = pending,
         \/ pc = "dump_running" /\ pc' = "playbook"
         \/ pc = "dump_failed" /\ pc' \in {"report_failed", "idle"}
         \/ pc = "dump_applied" /\ pc' = "report_succeeded"
  PROVE  IInv'
<1>1. /\ pending \in StateFile /\ pending.serial = serial
      /\ pending.entries[Current] # "none"
      /\ \A c \in Config :
           /\ pending.entries[c] = "applied" => guest[c] = "configured"
           /\ guest[c] # "untouched" => pending.entries[c] # "none"
  BY DEF IInv, PendingIsTrue, Writing
<1>2. StateIsOurs' /\ stateFile' # Torn
  BY <1>1, SentinelAssumption DEF StateIsOurs
<1>3. Types' /\ Position'
  BY <1>1 DEF IInv, Types, Position, ProgramPoints, BeforePlaybook,
     AfterFailure, AfterSuccess
<1>4. SerialNotAhead' /\ AppliedIsTrue' /\ NoChangeUnrecorded'
      /\ RunningIsRecorded' /\ TornIsInherited'
  BY <1>1, <1>2 DEF IInv, Types, SerialNotAhead, AppliedIsTrue,
     NoChangeUnrecorded, RunningIsRecorded, TornIsInherited, Current
<1>5. GuestFollowsPlan' /\ PendingIsTrue' /\ StopsAtFirstFailure'
  BY DEF IInv, GuestFollowsPlan, BeforePlaybook, AfterSuccess, Current,
     PendingIsTrue, Writing, StopsAtFirstFailure
<1> QED
  BY <1>3, <1>4, <1>5 DEF IInv

(* The playbook, also one that outlives the controller, touches only the   *)
(* configuration at the current position.                                  *)
LEMMA PlaybookIInv ==
  ASSUME IInv, pc = "playbook",
         UNCHANGED <<serial, plan, at, stateFile, pending>>,
         NEW value \in {"touched", "configured"},
         guest' = [guest EXCEPT ![Current] = value],
         \/ pc' \in {"playbook", "idle"}
         \/ pc' = "load_applied" /\ value = "configured",
         value = "touched" => guest[Current] = "untouched"
  PROVE  IInv'
<1>1. /\ at \in DOMAIN plan /\ Current \in Config /\ Current = plan[at]
      /\ StateIsOurs /\ stateFile.entries[Current] # "none"
      /\ guest \in [Config -> {"untouched", "touched", "configured"}]
  BY DEF IInv, Position, Types, RunningIsRecorded, Current
<1>2. Types' /\ Position'
  BY DEF IInv, Types, Position, ProgramPoints, BeforePlaybook, AfterFailure,
     AfterSuccess
<1>3. \A c \in Config : c # Current => guest'[c] = guest[c]
  BY <1>1
<1>4. SerialNotAhead' /\ RunningIsRecorded' /\ TornIsInherited'
      /\ PendingIsTrue'
  BY <1>1 DEF IInv, SerialNotAhead, RunningIsRecorded, StateIsOurs, Current,
     TornIsInherited, PendingIsTrue, Writing, Reading
<1>5. AppliedIsTrue'
  <2>1. stateFile.entries[Current] = "applied" => value = "configured"
    BY <1>1 DEF IInv, AppliedIsTrue
  <2> QED
    BY <1>1, <1>3, <2>1 DEF IInv, AppliedIsTrue, StateIsOurs
<1>6. NoChangeUnrecorded'
  BY <1>1, <1>3 DEF IInv, NoChangeUnrecorded, StateIsOurs
<1>7. GuestFollowsPlan'
  <2>1. \A i \in DOMAIN plan : i < at => guest'[plan[i]] = "configured"
    BY <1>1, <1>3 DEF IInv, GuestFollowsPlan, Types
  <2>2. ASSUME NEW c \in Config, \A i \in DOMAIN plan : plan[i] = c => i > at
        PROVE  guest'[c] = "untouched"
    BY <1>1, <1>3, <2>2 DEF IInv, GuestFollowsPlan, Types
  <2> QED
    BY <1>1, <2>1, <2>2
       DEF GuestFollowsPlan, BeforePlaybook, AfterSuccess, Current
<1>8. StopsAtFirstFailure'
  <2> SUFFICES ASSUME NEW j \in DOMAIN plan, NEW i \in 1 .. j - 1,
                      guest'[plan[j]] # "untouched"
               PROVE  guest'[plan[i]] = "configured"
    BY DEF StopsAtFirstFailure
  <2>1. i \in DOMAIN plan /\ i < j /\ plan[i] \in Config /\ plan[j] \in Config
    BY DEF IInv, Types
  <2>2. CASE j = at
    BY <1>1, <1>3, <2>1, <2>2 DEF IInv, GuestFollowsPlan, Types
  <2>3. CASE j # at
    <3>1. plan[j] # Current /\ guest[plan[j]] # "untouched"
      BY <1>1, <1>3, <2>1, <2>3 DEF IInv, Types
    <3>2. guest[plan[i]] = "configured"
      BY <3>1 DEF IInv, StopsAtFirstFailure
    <3>3. j < at
      BY <1>1, <2>1, <2>3, <3>1 DEF IInv, GuestFollowsPlan, Types
    <3> QED
      BY <1>1, <1>3, <2>1, <3>2, <3>3 DEF IInv, Types
  <2> QED
    BY <2>2, <2>3
<1> QED
  BY <1>2, <1>4, <1>5, <1>6, <1>7, <1>8 DEF IInv

(* Every step, crashes included, preserves the invariant.                  *)
LEMMA StepIInv == IInv /\ [Next]_vars => IInv'
<1> SUFFICES ASSUME IInv, [Next]_vars PROVE IInv'
  OBVIOUS
<1>1. CASE Forge
  BY <1>1, ForgeIInv
<1>2. CASE Finish \/ RejectImplementation \/ BeginConfiguration
  <2>1. at <= Len(plan) => at \in DOMAIN plan
    BY DEF IInv, Types
  <2> QED
    BY <1>2, <2>1, QuietIInv
       DEF Finish, RejectImplementation, BeginConfiguration, disk
<1>3. CASE \/ OpenRunningReport \/ DumpRunningReport \/ OpenFailedReport
           \/ DumpFailedReport \/ OpenSucceededReport
  BY <1>3, QuietIInv
     DEF OpenRunningReport, DumpRunningReport, OpenFailedReport,
         DumpFailedReport, OpenSucceededReport, OpenReport, DumpReport
<1>4. CASE DumpSucceededReport
  BY <1>4, AdvanceIInv DEF DumpSucceededReport, DumpReport
<1>5. CASE LoadRunning \/ LoadFailed \/ LoadApplied
  BY <1>5, LoadIInv DEF LoadRunning, LoadFailed, LoadApplied
<1>6. CASE LoadRejected
  BY <1>6, QuietIInv DEF LoadRejected, disk
<1>7. CASE OpenRunning \/ OpenFailed \/ OpenApplied
  BY <1>7, OpenIInv DEF OpenRunning, OpenFailed, OpenApplied
<1>8. CASE DumpRunning
  BY <1>8, DumpIInv DEF DumpRunning, DumpState
<1>9. CASE DumpFailed
  BY <1>9, DumpIInv DEF DumpFailed, DumpState
<1>10. CASE DumpApplied
  <2>1. CASE Current \in Hardening
    BY <1>10, <2>1, DumpIInv DEF DumpApplied, DumpState
  <2>2. CASE Current \notin Hardening
    BY <1>10, <2>2, AdvanceIInv DEF DumpApplied, DumpState
  <2> QED
    BY <2>1, <2>2
<1>11. CASE PlaybookChanges
  BY <1>11, PlaybookIInv DEF PlaybookChanges, disk
<1>12. CASE PlaybookSucceeds
  BY <1>12, PlaybookIInv DEF PlaybookSucceeds, disk
<1>13. CASE PlaybookFails
  BY <1>13, QuietIInv DEF PlaybookFails, disk
<1>14. CASE Crash
  <2>1. CASE guest' = guest
    BY <1>14, <2>1, QuietIInv DEF Crash, disk
  <2>2. CASE pc = "playbook"
             /\ guest' = [guest EXCEPT ![Current] = "configured"]
    BY <1>14, <2>2, PlaybookIInv DEF Crash, disk
  <2> QED
    BY <1>14, <2>1, <2>2 DEF Crash
<1>15. CASE UNCHANGED vars \/ Done
  BY <1>15, QuietIInv DEF Done, vars
<1> QED
  BY <1>1, <1>2, <1>3, <1>4, <1>5, <1>6, <1>7, <1>8, <1>9, <1>10, <1>11,
     <1>12, <1>13, <1>14, <1>15 DEF Next, WriteReports, WriteState, Playbook

(* The inductive invariant holds in every reachable state.                 *)
THEOREM IInvHolds == Spec => []IInv
BY InitIInv, StepIInv, PTL DEF Spec

(* A configuration recorded as applied was applied to the machine the      *)
(* record is about, however often the name was forged and wherever the     *)
(* controller died.                                                        *)
THEOREM RecordsAreTrue == Spec => []AppliedIsTrue
<1>1. IInv => AppliedIsTrue
  BY DEF IInv
<1> QED
  BY <1>1, IInvHolds, PTL

(* The guest is never changed before a record says so.                     *)
THEOREM ChangesAreRecorded == Spec => []NoChangeUnrecorded
<1>1. IInv => NoChangeUnrecorded
  BY DEF IInv
<1> QED
  BY <1>1, IInvHolds, PTL

(* The guest is configured in plan order up to the first failure.          *)
THEOREM PlanIsFollowed == Spec => []StopsAtFirstFailure
<1>1. IInv => StopsAtFirstFailure
  BY DEF IInv
<1> QED
  BY <1>1, IInvHolds, PTL

-----------------------------------------------------------------------------
(***************************************************************************)
(* The hardening reports.  A report of success is of a configuration the   *)
(* executor has left behind, so that it touches the entry no more; and it  *)
(* is written only when the entry is on disk.                              *)
(***************************************************************************)
Succeeded(c) ==
  /\ reports[c] \notin {NoFile, Torn}
  /\ reports[c].serial = serial
  /\ reports[c].execution = "playbook_succeeded"

ReportShape ==
  /\ reports \in [Config -> Report \cup {NoFile, Torn}]
  /\ \A c \in Config : reports[c] \notin {NoFile, Torn} =>
       /\ reports[c].serial <= serial
       /\ reports[c].validation = "passed" =>
            c \in Inline /\ reports[c].execution = "playbook_succeeded"

ReportIsBehind ==
  \A c \in Config : Succeeded(c) =>
    guest[c] = "configured" /\ \E i \in DOMAIN plan : i < at /\ plan[i] = c

ReportIsRecorded ==
  \A c \in Config : Succeeded(c) =>
    \/ stateFile = Torn
    \/ StateIsOurs /\ stateFile.entries[c] = "applied"

PendingKeepsReported ==
  pc \in Writing =>
    \A c \in Config : Succeeded(c) => pending.entries[c] = "applied"

SuccessIsPending ==
  pc \in {"open_applied", "dump_applied"} =>
    pending.entries[Current] = "applied"

SuccessIsRecorded ==
  pc \in {"report_succeeded", "dump_report_succeeded"} =>
    StateIsOurs /\ stateFile.entries[Current] = "applied"

ReportInv ==
  /\ IInv
  /\ ReportShape
  /\ ReportIsBehind
  /\ ReportIsRecorded
  /\ PendingKeepsReported
  /\ SuccessIsPending
  /\ SuccessIsRecorded

(* What succeeded is not what the executor works on.                       *)
LEMMA CurrentIsAhead ==
  ASSUME ReportInv, at \in DOMAIN plan, NEW c \in Config, Succeeded(c)
  PROVE  c # Current
BY DEF ReportInv, ReportIsBehind, IInv, Types, Current

LEMMA InitReportInv == Init => ReportInv
<1> SUFFICES ASSUME Init PROVE ReportInv
  OBVIOUS
<1>1. IInv
  BY InitIInv
<1>2. ReportShape /\ \A c \in Config : ~Succeeded(c)
  BY SentinelAssumption DEF Init, ReportShape, Succeeded
<1> QED
  BY <1>1, <1>2 DEF Init, ReportInv, ReportIsBehind, ReportIsRecorded,
     PendingKeepsReported, SuccessIsPending, SuccessIsRecorded, Writing

(* No report is of the machine that is forged now.                         *)
LEMMA ForgeReports == ReportInv /\ IInv' /\ Forge => ReportInv'
<1> SUFFICES ASSUME ReportInv, IInv', Forge PROVE ReportInv'
  OBVIOUS
<1>1. /\ serial' = serial + 1 /\ serial \in Nat /\ reports' = reports
      /\ pc' = "next"
  BY DEF Forge, disk, ReportInv, IInv, Types
<1>2. \A c \in Config : reports[c] \notin {NoFile, Torn} =>
        reports[c].serial \in Nat
  BY DEF ReportInv, ReportShape, Report, Serial
<1>3. ReportShape'
  BY <1>1, <1>2 DEF ReportInv, ReportShape
<1>4. \A c \in Config : ~Succeeded(c)'
  BY <1>1, <1>2 DEF ReportInv, ReportShape, Succeeded
<1> QED
  BY <1>1, <1>3, <1>4 DEF ReportInv, ReportIsBehind, ReportIsRecorded,
     PendingKeepsReported, SuccessIsPending, SuccessIsRecorded, Writing

(* Steps outside the reports that leave the state alone, the playbook's    *)
(* among them.                                                             *)
LEMMA QuietReports ==
  ASSUME ReportInv, IInv',
         UNCHANGED <<serial, plan, at, stateFile, pending, reports>>,
         \/ guest' = guest
         \/ pc = "playbook" /\ \E v \in {"touched", "configured"} :
              guest' = [guest EXCEPT ![Current] = v],
         \/ pc' = pc
         \/ pc' \in {"idle", "next", "report_running", "load_running",
                     "load_failed", "load_applied"}
  PROVE  ReportInv'
<1>1. \A c \in Config : Succeeded(c)' = Succeeded(c)
  BY DEF Succeeded
<1>2. \A c \in Config : Succeeded(c) => guest'[c] = guest[c]
  <2>1. CASE guest' = guest
    BY <2>1
  <2>2. CASE pc = "playbook"
    <3>1. at \in DOMAIN plan
      BY <2>2 DEF ReportInv, IInv, Position
    <3> QED
      BY <3>1, CurrentIsAhead DEF ReportInv, IInv, Types
  <2> QED
    BY <2>1, <2>2
<1>3. ReportShape' /\ ReportIsBehind'
  BY <1>1, <1>2 DEF ReportInv, ReportShape, ReportIsBehind
<1>4. ReportIsRecorded' /\ PendingKeepsReported'
  BY <1>1 DEF ReportInv, ReportIsRecorded, PendingKeepsReported, StateIsOurs,
     Writing
<1>5. SuccessIsPending' /\ SuccessIsRecorded'
  BY DEF ReportInv, SuccessIsPending, SuccessIsRecorded, StateIsOurs, Current
<1> QED
  BY <1>3, <1>4, <1>5 DEF ReportInv

(* A report is truncated, or written before or after the playbook.         *)
LEMMA WriteReportKeeps ==
  ASSUME ReportInv, IInv',
         UNCHANGED <<serial, plan, stateFile, pending, guest>>,
         NEW value \in Report \cup {Torn},
         reports' = [reports EXCEPT ![Current] = value],
         at \in DOMAIN plan,
         \/ value = Torn /\ at' = at
            /\ (pc' = "dump_report_succeeded" => pc = "report_succeeded")
            /\ pc' \in {"dump_report_running", "dump_report_failed",
                        "dump_report_succeeded"}
         \/ /\ at' = at /\ pc' \in {"load_running", "idle"}
            /\ value \in Report /\ value.serial = serial
            /\ value.execution # "playbook_succeeded"
            /\ value.validation # "passed"
         \/ /\ at' = at + 1 /\ pc = "dump_report_succeeded" /\ pc' = "next"
            /\ value \in Report /\ value.serial = serial
            /\ value.execution = "playbook_succeeded"
            /\ value.validation = "passed" => Current \in Inline
  PROVE  ReportInv'
<1>1. /\ Current \in Config /\ Current = plan[at] /\ at \in Nat
      /\ serial \in Nat
  BY DEF ReportInv, IInv, Types, Current
<1>2. /\ reports'[Current] = value
      /\ \A c \in Config : c # Current => reports'[c] = reports[c]
      /\ reports' \in [Config -> Report \cup {NoFile, Torn}]
  BY <1>1 DEF ReportInv, ReportShape
<1>3. ReportShape'
  BY <1>1, <1>2, SentinelAssumption DEF ReportInv, ReportShape
<1>4. ASSUME NEW c \in Config, Succeeded(c)'
      PROVE  \/ c # Current /\ Succeeded(c)
             \/ c = Current /\ pc = "dump_report_succeeded" /\ at' = at + 1
  BY <1>2, <1>4 DEF Succeeded
<1>5. ASSUME pc = "dump_report_succeeded"
      PROVE  /\ guest[Current] = "configured" /\ StateIsOurs
             /\ stateFile.entries[Current] = "applied"
  BY <1>5 DEF ReportInv, SuccessIsRecorded, IInv, GuestFollowsPlan,
     AfterSuccess
<1>6. ReportIsBehind'
  <2> SUFFICES ASSUME NEW c \in Config, Succeeded(c)'
               PROVE  guest[c] = "configured"
                      /\ \E i \in DOMAIN plan : i < at' /\ plan[i] = c
    BY DEF ReportIsBehind
  <2>1. CASE Succeeded(c)
    <3>1. PICK i \in DOMAIN plan : i < at /\ plan[i] = c
      BY <2>1 DEF ReportInv, ReportIsBehind
    <3>2. i \in Nat /\ i < at'
      BY <1>1, <3>1 DEF ReportInv, IInv, Types
    <3> QED
      BY <2>1, <3>1, <3>2 DEF ReportInv, ReportIsBehind
  <2>2. CASE c = Current /\ pc = "dump_report_succeeded" /\ at' = at + 1
    BY <1>1, <1>5, <2>2
  <2> QED
    BY <1>4, <2>1, <2>2
<1>7. ReportIsRecorded'
  BY <1>4, <1>5 DEF ReportInv, ReportIsRecorded, StateIsOurs
<1>8. PendingKeepsReported' /\ SuccessIsPending'
  BY DEF PendingKeepsReported, SuccessIsPending, Writing
<1>9. SuccessIsRecorded'
  BY DEF ReportInv, SuccessIsRecorded, StateIsOurs, Current
<1> QED
  BY <1>3, <1>6, <1>7, <1>8, <1>9 DEF ReportInv

(* The state that is loaded has an entry for every report of success.      *)
LEMMA LoadReports ==
  ASSUME ReportInv, IInv', NEW from, NEW to, NEW status,
         LoadState(from, to, status),
         \/ from = "load_running" /\ to = "open_running" /\ status = "running"
         \/ from = "load_failed" /\ to = "open_failed" /\ status = "failed"
         \/ from = "load_applied" /\ to = "open_applied" /\ status = "applied"
  PROVE  ReportInv'
<1>1. /\ pc = from /\ pc' = to
      /\ UNCHANGED <<serial, plan, at, stateFile, reports, guest>>
      /\ pending' = [StateToUpdate EXCEPT !.entries[Current] = status]
  BY DEF LoadState, disk
<1>2. at \in DOMAIN plan /\ Current \in Config /\ serial \in Serial
  BY <1>1 DEF ReportInv, IInv, Types, Position, Current
<1>3. StateToUpdate \in StateFile
  BY <1>2 DEF StateToUpdate, EmptyState, ReportInv, IInv, Types, StateFile,
     Status
<1>4. \A c \in Config : Succeeded(c)' = Succeeded(c)
  BY <1>1 DEF Succeeded
<1>5. ASSUME NEW c \in Config, Succeeded(c)
      PROVE  pending'.entries[c] = "applied"
  <2>1. c # Current
    BY <1>2, <1>5, CurrentIsAhead
  <2>2. stateFile # Torn
    <3>1. ASSUME stateFile = Torn PROVE FALSE
      <4>1. pc = "load_running"
        BY <1>1, <3>1 DEF ReportInv, IInv, RunningIsRecorded, StateIsOurs
      <4>2. guest[c] = "untouched"
        BY <3>1, <4>1 DEF ReportInv, IInv, TornIsInherited, Reading
      <4> QED
        BY <1>5, <4>2 DEF ReportInv, ReportIsBehind
    <3> QED
      BY <3>1
  <2>3. StateToUpdate = stateFile /\ stateFile.entries[c] = "applied"
    BY <1>5, <2>2 DEF ReportInv, ReportIsRecorded, StateIsOurs, StateToUpdate
  <2> QED
    BY <1>1, <1>3, <2>1, <2>3 DEF StateFile
<1>6. PendingKeepsReported'
  BY <1>4, <1>5 DEF PendingKeepsReported
<1>7. SuccessIsPending'
  BY <1>1, <1>2, <1>3 DEF SuccessIsPending, StateFile, Current
<1>8. ReportShape' /\ ReportIsBehind' /\ ReportIsRecorded'
  BY <1>1, <1>4 DEF ReportInv, ReportShape, ReportIsBehind, ReportIsRecorded,
     StateIsOurs
<1>9. SuccessIsRecorded'
  BY <1>1 DEF SuccessIsRecorded
<1> QED
  BY <1>6, <1>7, <1>8, <1>9 DEF ReportInv

(* A torn state is no record; a dumped one holds what was pending.         *)
LEMMA WriteStateKeeps ==
  ASSUME ReportInv, IInv', UNCHANGED <<serial, plan, pending, reports, guest>>,
         \/ /\ stateFile' = Torn /\ at' = at
            /\ \/ pc = "open_running" /\ pc' = "dump_running"
               \/ pc = "open_failed" /\ pc' = "dump_failed"
               \/ pc = "open_applied" /\ pc' = "dump_applied"
         \/ /\ stateFile' = pending /\ at' = at
            /\ \/ pc = "dump_running" /\ pc' = "playbook"
               \/ pc = "dump_failed" /\ pc' \in {"report_failed", "idle"}
               \/ pc = "dump_applied" /\ pc' = "report_succeeded"
         \/ /\ stateFile' = pending /\ at' = at + 1
            /\ pc = "dump_applied" /\ pc' = "next"
  PROVE  ReportInv'
<1>1. pc \in Writing
  BY DEF Writing
<1>2. \A c \in Config : Succeeded(c)' = Succeeded(c)
  BY DEF Succeeded
<1>3. ReportShape'
  BY DEF ReportInv, ReportShape
<1>4. ReportIsBehind'
  <2> SUFFICES ASSUME NEW c \in Config, Succeeded(c)
               PROVE  guest[c] = "configured"
                      /\ \E i \in DOMAIN plan : i < at' /\ plan[i] = c
    BY <1>2 DEF ReportIsBehind
  <2>1. PICK i \in DOMAIN plan : i < at /\ plan[i] = c
    BY DEF ReportInv, ReportIsBehind
  <2>2. i < at'
    BY <2>1 DEF ReportInv, IInv, Types
  <2> QED
    BY <2>1, <2>2 DEF ReportInv, ReportIsBehind
<1>5. stateFile' = pending =>
        StateIsOurs' /\ \A c \in Config :
          Succeeded(c) => stateFile'.entries[c] = "applied"
  BY <1>1, SentinelAssumption
     DEF ReportInv, PendingKeepsReported, IInv, PendingIsTrue, StateIsOurs
<1>6. ReportIsRecorded'
  BY <1>2, <1>5 DEF ReportIsRecorded
<1>7. PendingKeepsReported' /\ SuccessIsPending'
  BY <1>2 DEF ReportInv, PendingKeepsReported, SuccessIsPending, Writing,
     Current
<1>8. SuccessIsRecorded'
  BY <1>5 DEF ReportInv, SuccessIsPending, SuccessIsRecorded, Current
<1> QED
  BY <1>3, <1>4, <1>6, <1>7, <1>8 DEF ReportInv

(* Every step keeps what is known of the reports.                          *)
LEMMA StepReports == ReportInv /\ [Next]_vars => ReportInv'
<1> SUFFICES ASSUME ReportInv, [Next]_vars PROVE ReportInv'
  OBVIOUS
<1>0. IInv'
  BY StepIInv DEF ReportInv
<1>1. CASE Forge
  BY <1>0, <1>1, ForgeReports
<1>2. CASE Finish \/ RejectImplementation \/ BeginConfiguration \/ LoadRejected
  BY <1>0, <1>2, QuietReports
     DEF Finish, RejectImplementation, BeginConfiguration, LoadRejected, disk
<1>3. CASE OpenRunningReport \/ OpenFailedReport \/ OpenSucceededReport
  <2>1. at \in DOMAIN plan
    BY <1>3 DEF ReportInv, IInv, Position, OpenRunningReport,
       OpenFailedReport, OpenSucceededReport, OpenReport
  <2> QED
    BY <1>0, <1>3, <2>1, WriteReportKeeps DEF OpenRunningReport,
       OpenFailedReport, OpenSucceededReport, OpenReport
<1>4. CASE DumpRunningReport \/ DumpFailedReport \/ DumpSucceededReport
  <2>1. at \in DOMAIN plan /\ serial \in Serial
    BY <1>4 DEF ReportInv, IInv, Position, DumpRunningReport,
       DumpFailedReport, DumpSucceededReport, DumpReport
  <2>2. \A e \in ReportStatus :
          LET r == NewReport(Current, e)
          IN /\ r \in Report /\ r.serial = serial /\ r.execution = e
             /\ r.validation = "passed" =>
                  Current \in Inline /\ e = "playbook_succeeded"
    BY <2>1 DEF NewReport, ValidationStatus, Report, ReportStatus
  <2>3. CASE DumpRunningReport
    BY <1>0, <2>1, <2>2, <2>3, WriteReportKeeps
       DEF DumpRunningReport, DumpReport, ReportStatus
  <2>4. CASE DumpFailedReport
    BY <1>0, <2>1, <2>2, <2>4, WriteReportKeeps
       DEF DumpFailedReport, DumpReport, ReportStatus
  <2>5. CASE DumpSucceededReport
    BY <1>0, <2>1, <2>2, <2>5, WriteReportKeeps
       DEF DumpSucceededReport, DumpReport, ReportStatus
  <2> QED
    BY <1>4, <2>3, <2>4, <2>5
<1>5. CASE LoadRunning \/ LoadFailed \/ LoadApplied
  BY <1>0, <1>5, LoadReports DEF LoadRunning, LoadFailed, LoadApplied
<1>6. CASE OpenRunning \/ OpenFailed \/ OpenApplied
  BY <1>0, <1>6, WriteStateKeeps
     DEF OpenRunning, OpenFailed, OpenApplied, OpenState
<1>7. CASE DumpRunning \/ DumpFailed \/ DumpApplied
  BY <1>0, <1>7, WriteStateKeeps
     DEF DumpRunning, DumpFailed, DumpApplied, DumpState
<1>8. CASE Playbook \/ Crash
  BY <1>0, <1>8, QuietReports
     DEF Playbook, PlaybookChanges, PlaybookSucceeds, PlaybookFails, Crash, disk
<1>9. CASE UNCHANGED vars \/ Done
  BY <1>0, <1>9, QuietReports DEF Done, vars
<1> QED
  BY <1>1, <1>2, <1>3, <1>4, <1>5, <1>6, <1>7, <1>8, <1>9
     DEF Next, WriteReports, WriteState

(* A hardening report of this machine never says more than the execution   *)
(* state and the guest, though they are files written one after the other  *)
(* and the controller may die between any two writes.                      *)
THEOREM ReportsAreTrue == Spec => []ReportNeverAhead
<1>1. ReportInv => ReportNeverAhead
  BY DEF ReportInv, ReportShape, ReportIsBehind, ReportIsRecorded, Succeeded,
     ReportNeverAhead
<1>2. Spec => []ReportInv
  BY InitReportInv, StepReports, PTL DEF Spec
<1> QED
  BY <1>1, <1>2, PTL

=============================================================================
