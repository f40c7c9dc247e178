-------------------------- MODULE MachineCreation --------------------------
(***************************************************************************)
(* create_machine on an accepted manifest, with the VirtualBox provider:   *)
(* the installation medium, the registration of the machine, its disk,     *)
(* media, adapters and the start with the keystrokes of the installer.     *)
(* One run at a time, any number of runs; a run that fails cleans up only  *)
(* what the first modification spoilt. Every call to VBoxManage may fail,  *)
(* before its effect or after it (a call that times out). The operator     *)
(* switches machines on and off, removes them and clears their files.      *)
(***************************************************************************)
EXTENDS NetworkLayout, HostOnlyNetwork, Keystrokes

CONSTANTS
  Name, NoName,
  Job,        \* what manifests ask for
  MaxRuns,    \* bound: runs of the program
  MaxFaults,  \* bound: calls that fail outside the management interface
  MaxMoves    \* bound: interventions of the operator

ASSUME JobAssumption ==
  /\ Job # {}
  /\ NoName \notin Name
  /\ MaxRuns \in Nat /\ MaxFaults \in Nat /\ MaxMoves \in Nat
  /\ Job \subseteq
       [name : Name, family : Family, topology : 0 .. MaxTopology,
        internet : BOOLEAN, management : BOOLEAN, secure : BOOLEAN,
        start : BOOLEAN]
  /\ \A j \in Job : j.family = "kali" => j.internet /\ j.management

VARIABLES
  vm,       \* the machines VirtualBox has registered
  disk,     \* the run that made the disk file of a name, 0 if there is none
  medium,   \* the run that made the installation medium of a name, likewise
  pc, job, run,
  todo,     \* what is left to configure, then the keys left to press
  clean,    \* history: nothing disturbed this run
  faults, moves

machineVars == <<vm, disk, medium, pc, job, run, todo, clean, faults, moves>>

vars == <<machineVars, netVars>>

-----------------------------------------------------------------------------
Role == {"none", "topology", "nat", "nat-host", "management"}

Part ==
  {"hardware", "controller", "disk", "order", "efivars", "mskeys",
   "platformkey", "secureboot", "vendor", "seed", "additions"}

NoMachine == [run |-> 0]

(* Between the runs "job" has no meaning.                                  *)
NoJob == CHOOSE j \in Job : TRUE

Machine ==
  [run : 1 .. MaxRuns, asked : Job, power : {"poweroff", "running", "saved"},
   parts : SUBSET Part, nic : [Slot -> Role], adapter : Iface \cup {NoIface}]

NewMachine(r, j) ==
  [run |-> r, asked |-> j, power |-> "poweroff", parts |-> {},
   nic |-> [s \in Slot |-> "none"], adapter |-> NoIface]

Exists(n) == vm[n].run # 0

(* A step of the configuration: a part, or the role of an adapter.         *)
PartStep == [what : {"part"}, part : Part, slot : {NoSlot}, role : {"none"}]

NicStep == [what : {"nic"}, part : {"none"}, slot : Slot, role : Role]

Step == PartStep \cup NicStep

AddPart(p) == [what |-> "part", part |-> p, slot |-> NoSlot, role |-> "none"]

SetRole(slot, role) ==
  [what |-> "nic", part |-> "none", slot |-> slot, role |-> role]

When(condition, steps) == IF condition THEN steps ELSE <<>>

MakesMedium(j) == j.family # "manual"

AttachesSeed(j) == j.family \in {"ubuntu-server", "ubuntu-desktop", "windows"}

HardwareSteps == <<AddPart("hardware"), AddPart("controller")>>

DiskSteps == <<AddPart("disk"), AddPart("order")>>

SecureBootSteps ==
  <<AddPart("efivars"), AddPart("mskeys"), AddPart("platformkey"),
    AddPart("secureboot")>>

MediaSteps(j) ==
  <<AddPart("vendor")>>
    \o When(AttachesSeed(j), <<AddPart("seed")>>)
    \o When(j.family = "windows", <<AddPart("additions")>>)

AdapterSteps(j) ==
  [i \in 1 .. j.topology |-> SetRole(i, "topology")]
    \o When(j.internet, <<SetRole(InternetSlot(j.topology, TRUE), "nat")>>)
    \o When(j.family = "kali",
            <<SetRole(InternetSlot(j.topology, TRUE), "nat-host")>>)
    \o When(j.management,
            <<SetRole(ManagementSlot(j.topology, j.internet, TRUE),
                      "management")>>)

(* Everything between the registration and the start; the disk file is     *)
(* made in a step of its own before "disk".                                *)
PartSteps(j) ==
  HardwareSteps \o DiskSteps \o When(j.secure, SecureBootSteps) \o MediaSteps(j)

Plan == [j \in Job |-> PartSteps(j) \o AdapterSteps(j)]

InEffect(m, step) ==
  IF step.what = "part" THEN step.part \in m.parts
  ELSE \/ m.nic[step.slot] = step.role
       \/ step.role = "nat" /\ m.nic[step.slot] = "nat-host"

(* A machine with everything a manifest asks for.                          *)
Equipped(m, j) == \A i \in DOMAIN Plan[j] : InEffect(m, Plan[j][i])

-----------------------------------------------------------------------------
MachineInit ==
  /\ vm = [n \in Name |-> NoMachine]
  /\ disk = [n \in Name |-> 0]
  /\ medium = [n \in Name |-> 0]
  /\ pc = "idle"
  /\ job = NoJob
  /\ run = 0
  /\ todo = <<>>
  /\ clean = TRUE
  /\ faults = 0 /\ moves = 0

Init == NetInit /\ MachineInit

(* A call fails; the exception ends the run.                               *)
Fault ==
  /\ faults < MaxFaults
  /\ faults' = faults + 1
  /\ clean' = FALSE
  /\ pc' = "failed"

NoFault == UNCHANGED <<faults, clean>>

(* A manifest is accepted and its vendor image found.                      *)
Begin ==
  /\ pc = "idle"
  /\ run < MaxRuns
  /\ run' = run + 1
  /\ \E j \in Job :
       /\ job' = j
       /\ pc' = IF MakesMedium(j) THEN "medium" ELSE "create"
       /\ clean' = /\ ~Exists(j.name)
                   /\ disk[j.name] = 0
                   /\ Being("inside") = {}
                   /\ Being("absent") # {}
       /\ todo' = Plan[j]
  /\ UNCHANGED <<vm, disk, medium, faults, moves, netVars>>

(* Templates are rendered and validated before the old medium is removed.  *)
RenderFails ==
  /\ pc = "medium"
  /\ Fault
  /\ UNCHANGED <<vm, disk, medium, job, run, todo, moves, netVars>>

(* The old medium is removed, then the new one built. A builder that fails *)
(* leaves nothing or an incomplete file, and ends the run.                 *)
BuildMedium ==
  /\ pc = "medium"
  /\ \/ /\ medium' = [medium EXCEPT ![job.name] = run]
        /\ pc' = "create"
        /\ NoFault
     \/ /\ medium' \in {[medium EXCEPT ![job.name] = 0],
                        [medium EXCEPT ![job.name] = run]}
        /\ Fault
  /\ UNCHANGED <<vm, disk, job, run, todo, moves, netVars>>

-----------------------------------------------------------------------------
(* create_vm refuses a name VirtualBox knows.                              *)
NameIsTaken ==
  /\ pc = "create"
  /\ Exists(job.name)
  /\ pc' = "failed"
  /\ UNCHANGED <<vm, disk, medium, job, run, todo, clean, faults, moves,
                 netVars>>

(* A machine that is there already is completed.                           *)
CreateVmMutant ==
  /\ pc = "create"
  /\ vm' = IF Exists(job.name) THEN vm
           ELSE [vm EXCEPT ![job.name] = NewMachine(run, job)]
  /\ \/ pc' = "configure" /\ NoFault
     \/ Fault
  /\ UNCHANGED <<disk, medium, job, run, todo, moves, netVars>>

CreateVm ==
  /\ pc = "create"
  /\ ~Exists(job.name)
  /\ vm' = [vm EXCEPT ![job.name] = NewMachine(run, job)]
  /\ \/ pc' = "configure" /\ NoFault
     \/ Fault
  /\ UNCHANGED <<disk, medium, job, run, todo, moves, netVars>>

(* If the first modification fails the machine is deleted, running or not; *)
(* what the deletion raises is swallowed. Nothing later is undone.         *)
RollBack ==
  IF pc = "configure" /\ todo = Plan[job] /\ Exists(job.name)
  THEN vm' \in {vm, [vm EXCEPT ![job.name].power = "poweroff"],
               [vm EXCEPT ![job.name] = NoMachine]}
  ELSE UNCHANGED vm

(* Before the disk is attached its file is made; one that is there already *)
(* is used again.                                                          *)
DiskIsFreeMutant == TRUE

(* create_disk refuses a file that exists.                                 *)
DiskIsFree == disk[job.name] = 0

DiskIsNext == todo # <<>> /\ Head(todo) = AddPart("disk")

DiskRefused ==
  /\ pc = "configure"
  /\ DiskIsNext
  /\ ~DiskIsFree
  /\ pc' = "failed"
  /\ UNCHANGED <<vm, disk, medium, job, run, todo, clean, faults, moves,
                 netVars>>

CreateDisk ==
  /\ pc = "configure"
  /\ DiskIsNext
  /\ DiskIsFree
  /\ disk' = [disk EXCEPT ![job.name] = IF @ = 0 THEN run ELSE @]
  /\ \/ pc' = "attach" /\ NoFault
     \/ Fault
  /\ UNCHANGED <<vm, medium, job, run, todo, moves, netVars>>

-----------------------------------------------------------------------------
(* A modification requires a machine that exists and is off: the provider  *)
(* looks before each, VirtualBox itself when the hardware is set.          *)
MayModify == Exists(job.name) /\ vm[job.name].power = "poweroff"

Effect(m, step) ==
  CASE step.what = "part" -> [m EXCEPT !.parts = @ \cup {step.part}]
    [] step.role = "nat-host" ->
         [m EXCEPT !.nic[step.slot] = IF @ = "nat" THEN "nat-host" ELSE @]
    [] step.role = "management" ->
         [m EXCEPT !.nic[step.slot] = "management", !.adapter = chosen]
    [] OTHER -> [m EXCEPT !.nic[step.slot] = step.role]

NeedsInterface == todo # <<>> /\ Head(todo).role = "management"

(* The next step is a modification: the disk has its file, the management  *)
(* adapter its interface.                                                  *)
AtModification ==
  /\ pc \in {"configure", "attach"}
  /\ todo # <<>>
  /\ pc = "configure" => ~DiskIsNext
  /\ NeedsInterface => netPc = "ready"

KeepInterface == UNCHANGED <<iface, foreign, before, chosen, netFault>>

(* A modification that times out has its effect and ends the run.          *)
Configure ==
  /\ AtModification
  /\ MayModify
  /\ LET m == Effect(vm[job.name], Head(todo))
     IN \/ /\ vm' = [vm EXCEPT ![job.name] = m]
           /\ pc' = "configure" /\ todo' = Tail(todo)
           /\ NoFault
        \/ /\ vm' \in {[vm EXCEPT ![job.name] = m],
                       [vm EXCEPT ![job.name] =
                          IF todo = Plan[job] THEN NoMachine ELSE m]}
           /\ UNCHANGED todo
           /\ Fault
  /\ netPc' = IF NeedsInterface THEN "idle" ELSE netPc
  /\ UNCHANGED <<disk, medium, job, run, moves>>
  /\ KeepInterface

(* The machine is gone or not off: the operator has been there.            *)
ModificationRefused ==
  /\ AtModification
  /\ ~MayModify
  /\ pc' = "failed"
  /\ RollBack
  /\ netPc' = "idle"
  /\ UNCHANGED <<disk, medium, job, run, todo, clean, faults, moves>>
  /\ KeepInterface

(* A call fails that has no effect, in the configuration or the start.     *)
CallFails ==
  /\ \/ pc \in {"create", "start"}
     \/ pc \in {"configure", "attach", "keys"} /\ todo # <<>>
  /\ netPc \in {"idle", "ready"}
  /\ Fault
  /\ RollBack
  /\ netPc' = "idle"
  /\ UNCHANGED <<disk, medium, job, run, todo, moves>>
  /\ KeepInterface

EnsureInterface ==
  /\ pc = "configure"
  /\ NeedsInterface
  /\ \/ /\ netPc = "idle"
        /\ netPc' = "list"
        /\ KeepInterface
     \/ EnsureManagementInterface
  /\ UNCHANGED machineVars

InterfaceFails ==
  /\ netPc = "error"
  /\ netPc' = "idle"
  /\ pc' = "failed"
  /\ UNCHANGED <<vm, disk, medium, job, run, todo, clean, faults, moves>>
  /\ KeepInterface

-----------------------------------------------------------------------------
(* The machine is complete; its start may be disabled.                     *)
FinishConfiguration ==
  /\ pc = "configure"
  /\ todo = <<>>
  /\ IF job.start THEN pc' = "start" /\ todo' = Keys(job.family)
     ELSE pc' = "done" /\ todo' = <<>>
  /\ UNCHANGED <<vm, disk, medium, job, run, clean, faults, moves, netVars>>

(* start_vm: a machine that runs is left alone, a saved one continues.     *)
StartVm ==
  /\ pc = "start"
  /\ Exists(job.name)
  /\ vm' = [vm EXCEPT ![job.name].power = "running"]
  /\ \/ pc' = "keys" /\ NoFault
     \/ Fault
  /\ UNCHANGED <<disk, medium, job, run, todo, moves, netVars>>

(* controlvm sends the next key; a machine that does not run takes none.   *)
PressKey ==
  /\ pc = "keys"
  /\ todo # <<>>
  /\ Exists(job.name) /\ vm[job.name].power = "running"
  /\ todo' = Tail(todo)
  /\ UNCHANGED <<vm, disk, medium, pc, job, run, clean, faults, moves, netVars>>

MachineIsGone ==
  /\ \/ pc = "start" /\ ~Exists(job.name)
     \/ /\ pc = "keys" /\ todo # <<>>
        /\ ~(Exists(job.name) /\ vm[job.name].power = "running")
  /\ pc' = "failed"
  /\ UNCHANGED <<vm, disk, medium, job, run, todo, clean, faults, moves,
                 netVars>>

KeysAreSent ==
  /\ pc = "keys"
  /\ todo = <<>>
  /\ pc' = IF job.family = "kali" THEN "fetch" ELSE "done"
  /\ UNCHANGED <<vm, disk, medium, job, run, todo, clean, faults, moves,
                 netVars>>

(* The Kali installer fetches its preseed from the host, which its adapter *)
(* lets it reach, or it does not: what the keys made of it is not seen.    *)
Fetch ==
  /\ pc = "fetch"
  /\ Exists(job.name)
  /\ vm[job.name].nic[InternetSlot(job.topology, TRUE)] = "nat-host"
  /\ pc' = "done"
  /\ UNCHANGED <<vm, disk, medium, job, run, todo, clean, faults, moves,
                 netVars>>

(* The wait for the fetch has a deadline.                                  *)
FetchTimesOut ==
  /\ pc = "fetch"
  /\ pc' = "failed"
  /\ clean' = FALSE
  /\ UNCHANGED <<vm, disk, medium, job, run, todo, faults, moves, netVars>>

Close ==
  /\ pc \in {"done", "failed"}
  /\ pc' = "idle"
  /\ todo' = <<>>
  /\ job' = NoJob
  /\ clean' = TRUE
  /\ before' = {} /\ chosen' = NoIface
  /\ netFault' = FALSE
  /\ UNCHANGED <<vm, disk, medium, run, faults, moves, iface, foreign, netPc>>

-----------------------------------------------------------------------------
(* The operator comes before a run or into it.                             *)
Move ==
  /\ moves < MaxMoves
  /\ moves' = moves + 1
  /\ clean' = (pc = "idle")

SwitchPower ==
  /\ Move
  /\ \E n \in {x \in Name : Exists(x)}, p \in {"poweroff", "running", "saved"} :
       /\ p # vm[n].power
       /\ vm' = [vm EXCEPT ![n].power = p]
  /\ UNCHANGED <<disk, medium, pc, job, run, todo, faults, netVars>>

(* VirtualBox deletes the files that are attached to a machine it removes; *)
(* one that is not, the operator may delete or overlook.                   *)
RemoveMachine ==
  /\ Move
  /\ \E n \in {x \in Name : Exists(x)} :
       /\ vm[n].power # "running"
       /\ vm' = [vm EXCEPT ![n] = NoMachine]
       /\ \/ disk' = [disk EXCEPT ![n] = 0]
          \/ "disk" \notin vm[n].parts /\ UNCHANGED disk
  /\ UNCHANGED <<medium, pc, job, run, todo, faults, netVars>>

ChangeInterfaces ==
  /\ Move
  /\ \/ AddInterface
     \/ pc = "idle" /\ RemoveInterface
  /\ UNCHANGED <<vm, disk, medium, pc, job, run, todo, faults>>

Operator == SwitchPower \/ RemoveMachine \/ ChangeInterfaces

(* All runs are used up.                                                   *)
Rest ==
  /\ pc = "idle" /\ run = MaxRuns
  /\ UNCHANGED vars

Next ==
  \/ Begin
  \/ RenderFails \/ BuildMedium
  \/ NameIsTaken \/ CreateVm
  \/ DiskRefused \/ CreateDisk
  \/ Configure \/ ModificationRefused \/ CallFails
  \/ EnsureInterface \/ InterfaceFails
  \/ FinishConfiguration
  \/ StartVm \/ PressKey \/ MachineIsGone \/ KeysAreSent
  \/ Fetch \/ FetchTimesOut
  \/ Close
  \/ Operator
  \/ Rest

Spec == Init /\ [][Next]_vars

-----------------------------------------------------------------------------
TypeOK ==
  /\ NetTypeOK
  /\ vm \in [Name -> Machine \cup {NoMachine}]
  /\ disk \in [Name -> 0 .. MaxRuns]
  /\ medium \in [Name -> 0 .. MaxRuns]
  /\ pc \in {"idle", "medium", "create", "configure", "attach", "start",
             "keys", "fetch", "done", "failed"}
  /\ job \in Job
  /\ run \in 0 .. MaxRuns
  /\ todo \in Seq(Step) \cup Seq(Key)
  /\ clean \in BOOLEAN
  /\ faults \in 0 .. MaxFaults /\ moves \in 0 .. MaxMoves

(* A run that reports success leaves a machine of its own with everything  *)
(* the manifest asked for: no adapter lost its slot to another, the disk   *)
(* and the installation medium were made by this run and not left by an    *)
(* earlier one, and the management adapter is on the management network.   *)
SuccessMeansEquipped ==
  pc = "done" /\ Exists(job.name) =>
    /\ vm[job.name].run = run
    /\ Equipped(vm[job.name], job)
    /\ disk[job.name] = run
    /\ MakesMedium(job) => medium[job.name] = run
    /\ job.management =>
         \E i \in Being("management") : vm[job.name].adapter = i

(* A run fails only for a reason of its own: a call that failed, an        *)
(* intervention, or a name, file or network that was taken when it began.  *)
(* What earlier runs left half done, interfaces without an address for     *)
(* instance, is none.                                                      *)
UndisturbedRunSucceeds == pc = "failed" => ~clean \/ netFault

-----------------------------------------------------------------------------
(* Machine creation implements the life of a machine.                      *)
Life(n) ==
  IF ~Exists(n) THEN "none"
  ELSE IF Equipped(vm[n], vm[n].asked) THEN "whole" ELSE "partial"

Stage ==
  CASE pc \in {"configure", "attach", "start"} -> "making"
    [] pc \in {"keys", "fetch", "done"} -> "ready"
    [] OTHER -> "idle"

Lifecycle ==
  INSTANCE MachineLifecycle
    WITH life <- [n \in Name |-> Life(n)], stage <- Stage,
         making <- IF Stage = "idle" THEN NoName ELSE job.name

ImplementsLifecycle == Lifecycle!Spec

=============================================================================
