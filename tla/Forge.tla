------------------------------- MODULE Forge -------------------------------
(***************************************************************************)
(* Successive runs of the Forge (crucible.py, main) over the state they    *)
(* share: the VirtualBox registry and base folder, the address leases, the *)
(* machine manifests and the SSH identities.                               *)
(*                                                                         *)
(* One run is active at a time.  It may fail or be killed between any two  *)
(* of its steps and cleans nothing up.  The operator uses VirtualBox all   *)
(* the while: adds machines, removes, detaches, re-adds, renames, and      *)
(* switches them on and off.  How a guest installs itself, and how         *)
(* readiness and playbooks are driven in detail, is in LinuxReadiness,     *)
(* WindowsReadiness and ConfigurationExecutor; how leases are stored is in *)
(* ManagementIPAM.                                                         *)
(***************************************************************************)
EXTENDS Naturals, FiniteSets

CONSTANTS
  Name,        \* machine names
  Serial,      \* instance serials, each generated at most once
  Address,     \* the guest addresses of the management network
  Foreign,     \* stands for the serial of a machine made by the operator
  Password,    \* a Windows password, which two forges may have in common
  NoMachine,   \* a name under which VirtualBox has no machine
  NoManifest,  \* a manifest that does not exist
  Torn,        \* a manifest that was not written to its end
  NoAddress    \* no lease, or no address yet

ASSUME SentinelAssumption ==
  /\ Foreign \notin Serial
  /\ NoAddress \notin Address
  /\ Password \notin [name : Name, serial : Serial]

(***************************************************************************)
(* identity_directory: the directory is named for machine and serial, and  *)
(* stands for the key pair in it.                                          *)
(***************************************************************************)
IdentityDirectory(n, s) == [name |-> n, serial |-> s]

Identity == [name : Name, serial : Serial]

Credential == Identity \cup {Password}

Machine ==
  [serial     : Serial \cup {Foreign},
   address    : Address \cup {NoAddress},
   credential : Credential,
   stage      : {"registered", "equipped", "installed"},
   running    : BOOLEAN,
   configured : SUBSET Serial]

Manifest == [serial : Serial, address : Address, credential : Credential]

ASSUME AbsenceAssumption ==
  /\ NoMachine \notin Machine
  /\ NoManifest \notin Manifest
  /\ Torn \notin Manifest

VARIABLES
  machine,     \* the machine whose settings file has each name
  registered,  \* names of the machines in the VirtualBox registry
  leftover,    \* directories of the base folder without a settings file
  lease,       \* management-ipam.yml
  manifest,    \* the machine manifests, by name
  identity,    \* SSH identities: "complete", "partial" or "none"
  used,        \* serials generated so far
  renamed,     \* history: serials of the machines the operator renamed
  pc,          \* where the run is, "idle" between two runs
  job          \* name, serial and guest family of the current or last run

registry == <<machine, registered, leftover>>

records == <<lease, manifest, identity>>

vars == <<registry, records, used, renamed, pc, job>>

-----------------------------------------------------------------------------
Forged(n) == machine[n] # NoMachine /\ machine[n].serial # Foreign

(* Definitions whose names end in Mutant are faulty variants of the one    *)
(* that follows.  Here leftover directories are not looked at.             *)
ReservedNamesMutant == registered

(***************************************************************************)
(* get_reserved_vm_names: the registered machines and every directory of   *)
(* the base folder, with or without a settings file in it.                 *)
(***************************************************************************)
ReservedNames == registered \cup leftover \cup {n \in Name : Forged(n)}

(* Every identity of a machine of that name is tried.                      *)
CredentialsMutant(n) ==
  IF manifest[n].credential = Password
    THEN {Password}
    ELSE {d \in Identity : d.name = n}

(***************************************************************************)
(* What the controller authenticates with: the password in the manifest,   *)
(* or the identity of the serial in the manifest.                          *)
(***************************************************************************)
Credentials(n) ==
  IF manifest[n].credential = Password
    THEN {Password}
    ELSE {IdentityDirectory(n, manifest[n].serial)}

(***************************************************************************)
(* Machine n accepts a connection made from the manifest of the run.  Two  *)
(* machines that share an address compete: either may answer.              *)
(***************************************************************************)
Answers(n) ==
  /\ n \in registered
  /\ machine[n].running
  /\ machine[n].stage = "installed"
  /\ machine[n].address = manifest[job.name].address
  /\ machine[n].credential \in Credentials(job.name)

(***************************************************************************)
(* The machine the run is building; between createvm and startvm the       *)
(* operator leaves it alone.                                               *)
(***************************************************************************)
UnderConstruction(n) ==
  pc \in {"modifyvm", "equip", "startvm"} /\ n = job.name

-----------------------------------------------------------------------------
Init ==
  /\ machine = [n \in Name |-> NoMachine]
  /\ registered = {}
  /\ leftover = {}
  /\ lease = [n \in Name |-> NoAddress]
  /\ manifest = [n \in Name |-> NoManifest]
  /\ identity = [d \in Identity |-> "none"]
  /\ used = {}
  /\ renamed = {}
  /\ pc = "idle"
  /\ job \in [name : Name, serial : Serial, family : {"linux"}]

(***************************************************************************)
(* ask_vm_name against the names reserved now, then a fresh serial.        *)
(***************************************************************************)
ChooseName ==
  /\ pc = "idle"
  /\ \E n \in Name \ ReservedNames, s \in Serial \ used,
        f \in {"linux", "windows"} :
       /\ job' = [name |-> n, serial |-> s, family |-> f]
       /\ used' = used \cup {s}
       /\ pc' = IF f = "linux" THEN "identity" ELSE "questions"
  /\ UNCHANGED <<registry, records, renamed>>

(***************************************************************************)
(* create_machine_ssh_identity.  Its failure leaves a partial directory    *)
(* behind, or none when ssh-keygen is missing.                             *)
(***************************************************************************)
CreateIdentity ==
  LET d == IdentityDirectory(job.name, job.serial)
  IN  /\ pc = "identity"
      /\ identity[d] = "none"
      /\ \/ /\ identity' = [identity EXCEPT ![d] = "complete"]
            /\ pc' = "questions"
         \/ /\ identity' = [identity EXCEPT ![d] = "partial"]
            /\ pc' = "idle"
      /\ UNCHANGED <<registry, lease, manifest, used, renamed, job>>

(* An address counts as free when no registered machine uses it.           *)
FreeAddressesMutant ==
  Address \ {machine[n].address : n \in registered}

FreeAddresses == Address \ {lease[n] : n \in Name}

(***************************************************************************)
(* allocate_management_address: the lease the name already has, whatever   *)
(* became of the machine it was made for, or a free address.               *)
(***************************************************************************)
LeaseAddress ==
  /\ pc = "questions"
  /\ \/ lease[job.name] # NoAddress /\ lease' = lease
     \/ /\ lease[job.name] = NoAddress
        /\ \E a \in FreeAddresses : lease' = [lease EXCEPT ![job.name] = a]
  /\ pc' = "manifest"
  /\ UNCHANGED <<registry, manifest, identity, used, renamed, job>>

(***************************************************************************)
(* write_yaml opens the manifest for writing and dumps into it: what was   *)
(* there is gone even when the dump does not end.                          *)
(***************************************************************************)
WriteManifest ==
  /\ pc = "manifest"
  /\ \/ /\ manifest' = [manifest EXCEPT ![job.name] =
             [serial     |-> job.serial,
              address    |-> lease[job.name],
              credential |-> IF job.family = "linux"
                               THEN IdentityDirectory(job.name, job.serial)
                               ELSE Password]]
        /\ pc' = "prepare"
     \/ /\ manifest' = [manifest EXCEPT ![job.name] = Torn]
        /\ pc' = "idle"
  /\ UNCHANGED <<registry, lease, identity, used, renamed, job>>

(***************************************************************************)
(* create_machine up to the vm_exists test of create_vm: a name that was   *)
(* taken meanwhile ends the run.                                           *)
(***************************************************************************)
PrepareMachine ==
  /\ pc = "prepare"
  /\ job.name \notin registered
  /\ pc' = "createvm"
  /\ UNCHANGED <<registry, records, used, renamed, job>>

NewMachine ==
  [serial     |-> job.serial,
   address    |-> NoAddress,
   credential |-> manifest[job.name].credential,
   stage      |-> "registered",
   running    |-> FALSE,
   configured |-> {}]

(* createvm is inside the try block whose handler deletes the machine.     *)
RegisterMachineMutant ==
  /\ pc = "createvm"
  /\ IF machine[job.name] = NoMachine
       THEN /\ machine' = [machine EXCEPT ![job.name] = NewMachine]
            /\ registered' = registered \cup {job.name}
            /\ pc' \in {"modifyvm", "idle"}
       ELSE /\ machine' = [machine EXCEPT ![job.name] = NoMachine]
            /\ registered' = registered \ {job.name}
            /\ pc' = "idle"
  /\ UNCHANGED <<leftover, records, used, renamed, job>>

(***************************************************************************)
(* VBoxManage createvm --register.  VirtualBox refuses a name that has a   *)
(* machine, which ends the run.  A call that outlasts command_timeout      *)
(* ends the run too, but may have registered the machine.                  *)
(***************************************************************************)
RegisterMachine ==
  /\ pc = "createvm"
  /\ machine[job.name] = NoMachine
  /\ machine' = [machine EXCEPT ![job.name] = NewMachine]
  /\ registered' = registered \cup {job.name}
  /\ pc' \in {"modifyvm", "idle"}
  /\ UNCHANGED <<leftover, records, used, renamed, job>>

ConfigureHardware ==
  /\ pc = "modifyvm"
  /\ pc' = "equip"
  /\ UNCHANGED <<registry, records, used, renamed, job>>

(***************************************************************************)
(* modifyvm failed and the machine just registered is deleted again.  Its  *)
(* directory stays when it holds more than VirtualBox put there.  That the *)
(* deletion fails as well is a StopRun.                                    *)
(***************************************************************************)
RollBack ==
  /\ pc = "modifyvm"
  /\ machine' = [machine EXCEPT ![job.name] = NoMachine]
  /\ registered' = registered \ {job.name}
  /\ leftover' \in {leftover, leftover \cup {job.name}}
  /\ pc' = "idle"
  /\ UNCHANGED <<records, used, renamed, job>>

(***************************************************************************)
(* Controller, disk, installation media and adapters.  The seed media      *)
(* carries the manifest's address and credential into the guest.           *)
(***************************************************************************)
Equip ==
  /\ pc = "equip"
  /\ machine' = [machine EXCEPT
       ![job.name].address = manifest[job.name].address,
       ![job.name].stage   = "equipped"]
  /\ pc' = "startvm"
  /\ UNCHANGED <<registered, leftover, records, used, renamed, job>>

(* A startvm that timed out may have started the machine.                  *)
StartMachine ==
  /\ pc = "startvm"
  /\ machine' = [machine EXCEPT ![job.name].running = TRUE]
  /\ pc' \in {"verify", "idle"}
  /\ UNCHANGED <<registered, leftover, records, used, renamed, job>>

(***************************************************************************)
(* verify_machine_ready: the identity must be loadable, and a machine      *)
(* answers before the waits run out.                                       *)
(***************************************************************************)
VerifyMachine ==
  /\ pc = "verify"
  /\ job.family = "linux" =>
       identity[IdentityDirectory(job.name, manifest[job.name].serial)]
         = "complete"
  /\ \E n \in Name : Answers(n)
  /\ pc' = "configure"
  /\ UNCHANGED <<registry, records, used, renamed, job>>

(***************************************************************************)
(* execute_machine_configurations: the playbooks change the machine that   *)
(* answers, also when one of them fails.                                   *)
(***************************************************************************)
Configure ==
  /\ pc = "configure"
  /\ \E n \in Name :
       /\ Answers(n)
       /\ machine' = [machine EXCEPT ![n].configured = @ \cup {job.serial}]
  /\ pc' \in {"recheck", "idle"}
  /\ UNCHANGED <<registered, leftover, records, used, renamed, job>>

(* verify_post_configuration_connectivity, then FORGE COMPLETE.            *)
Recheck ==
  /\ pc = "recheck"
  /\ \E n \in Name : Answers(n)
  /\ pc' = "idle"
  /\ UNCHANGED <<registry, records, used, renamed, job>>

(***************************************************************************)
(* An error that main reports, an exception it does not catch, a run       *)
(* without configurations that is complete, or the death of the process:   *)
(* all leave the shared state as it is.                                    *)
(***************************************************************************)
StopRun ==
  /\ pc # "idle"
  /\ pc' = "idle"
  /\ UNCHANGED <<registry, records, used, renamed, job>>

-----------------------------------------------------------------------------
(* The guest and the operator.                                             *)
GuestInstalls(n) ==
  /\ n \in registered
  /\ machine[n].running
  /\ machine[n].stage = "equipped"
  /\ machine' = [machine EXCEPT ![n].stage = "installed"]
  /\ UNCHANGED <<registered, leftover, records, used, renamed, pc, job>>

ForeignMachine ==
  [serial     |-> Foreign,
   address    |-> NoAddress,
   credential |-> Password,
   stage      |-> "installed",
   running    |-> FALSE,
   configured |-> {}]

AddForeignMachine(n) ==
  /\ machine[n] = NoMachine
  /\ machine' = [machine EXCEPT ![n] = ForeignMachine]
  /\ registered' = registered \cup {n}
  /\ UNCHANGED <<leftover, records, used, renamed, pc, job>>

(* Removed with its files; a disk that was never attached stays behind.    *)
RemoveMachine(n) ==
  /\ ~UnderConstruction(n)
  /\ machine[n] # NoMachine
  /\ ~machine[n].running
  /\ machine' = [machine EXCEPT ![n] = NoMachine]
  /\ registered' = registered \ {n}
  /\ leftover' = IF machine[n].stage = "registered"
                   THEN leftover \cup {n} ELSE leftover
  /\ UNCHANGED <<records, used, renamed, pc, job>>

(* Removed from the registry, the files are kept; added again later.       *)
DetachMachine(n) ==
  /\ ~UnderConstruction(n)
  /\ n \in registered
  /\ Forged(n)
  /\ ~machine[n].running
  /\ registered' = registered \ {n}
  /\ UNCHANGED <<machine, leftover, records, used, renamed, pc, job>>

ReattachMachine(n) ==
  /\ machine[n] # NoMachine
  /\ n \notin registered
  /\ registered' = registered \cup {n}
  /\ UNCHANGED <<machine, leftover, records, used, renamed, pc, job>>

DeleteLeftover(n) ==
  /\ n \in leftover
  /\ leftover' = leftover \ {n}
  /\ UNCHANGED <<machine, registered, records, used, renamed, pc, job>>

(* VirtualBox moves the settings and the directory to the new name.        *)
RenameMachine(n, m) ==
  /\ ~UnderConstruction(n)
  /\ n \in registered
  /\ ~machine[n].running
  /\ machine[m] = NoMachine
  /\ m \notin leftover
  /\ machine' = [machine EXCEPT ![n] = NoMachine, ![m] = machine[n]]
  /\ registered' = (registered \ {n}) \cup {m}
  /\ renamed' = renamed \cup ({machine[n].serial} \ {Foreign})
  /\ UNCHANGED <<leftover, records, used, pc, job>>

SwitchMachine(n) ==
  /\ ~UnderConstruction(n)
  /\ n \in registered
  /\ \E on \in BOOLEAN \ {machine[n].running} :
       machine' = [machine EXCEPT ![n].running = on]
  /\ UNCHANGED <<registered, leftover, records, used, renamed, pc, job>>

-----------------------------------------------------------------------------
ForgeStep ==
  \/ ChooseName \/ CreateIdentity \/ LeaseAddress \/ WriteManifest
  \/ PrepareMachine \/ RegisterMachine \/ ConfigureHardware \/ RollBack
  \/ Equip \/ StartMachine \/ VerifyMachine \/ Configure \/ Recheck
  \/ StopRun

OperatorStep ==
  \/ \E n \in Name :
       \/ GuestInstalls(n) \/ AddForeignMachine(n) \/ RemoveMachine(n)
       \/ DetachMachine(n) \/ ReattachMachine(n) \/ DeleteLeftover(n)
       \/ SwitchMachine(n)
  \/ \E n, m \in Name : RenameMachine(n, m)

Next == ForgeStep \/ OperatorStep

Spec == Init /\ [][Next]_vars

-----------------------------------------------------------------------------
TypeOK ==
  /\ machine \in [Name -> Machine \cup {NoMachine}]
  /\ registered \subseteq {n \in Name : machine[n] # NoMachine}
  /\ leftover \subseteq Name
  /\ lease \in [Name -> Address \cup {NoAddress}]
  /\ manifest \in [Name -> Manifest \cup {NoManifest, Torn}]
  /\ identity \in [Identity -> {"none", "partial", "complete"}]
  /\ used \subseteq Serial
  /\ renamed \subseteq Serial
  /\ pc \in {"idle", "identity", "questions", "manifest", "prepare",
             "createvm", "modifyvm", "equip", "startvm", "verify",
             "configure", "recheck"}
  /\ job \in [name : Name, serial : Serial, family : {"linux", "windows"}]

(***************************************************************************)
(* A run never removes, replaces, starts or stops a machine it did not     *)
(* create, also when the operator takes the name the run has chosen at any *)
(* time before createvm, or takes over the name once the machine runs.     *)
(* (create_vm deletes by name when modifyvm fails; that the operator       *)
(* exchanges the machine between createvm and startvm is not explored.)    *)
(***************************************************************************)
ForeignMachinesSurvive ==
  [][\A n \in Name :
       /\ pc' # pc
       /\ machine[n] # NoMachine
       /\ machine[n].serial # job.serial
       => /\ n \in registered' <=> n \in registered
          /\ machine'[n] # NoMachine
          /\ machine'[n].serial = machine[n].serial
          /\ machine'[n].running = machine[n].running]_vars

(***************************************************************************)
(* What the controller keeps on file describes every machine there is: the *)
(* manifest of its name carries its serial and, once the seed media is     *)
(* attached, its address; a Linux machine has a whole SSH identity.  Also  *)
(* after failed runs, removals, and machines set aside and added again.    *)
(* Renaming in VirtualBox leaves the files under the old name.             *)
(***************************************************************************)
RecordsDescribeMachines ==
  \A n \in Name : Forged(n) /\ machine[n].serial \notin renamed =>
    /\ manifest[n] \in Manifest
    /\ manifest[n].serial = machine[n].serial
    /\ machine[n].stage # "registered" =>
         machine[n].address = manifest[n].address
    /\ machine[n].credential # Password =>
         identity[IdentityDirectory(n, machine[n].serial)] = "complete"

(***************************************************************************)
(* No two machines the Forge built have the same management address, also  *)
(* when one of them is set aside for a while.                              *)
(***************************************************************************)
AddressesAreDistinct ==
  \A n, m \in Name :
    /\ n # m
    /\ Forged(n) /\ machine[n].serial \notin renamed
    /\ Forged(m) /\ machine[m].serial \notin renamed
    /\ machine[n].address # NoAddress
    => machine[n].address # machine[m].address

(***************************************************************************)
(* The playbooks of a run only ever change the Linux machine it built,     *)
(* also when an older machine, renamed, has the same address.              *)
(***************************************************************************)
ConfiguresItsOwnMachine ==
  \A n \in Name :
    machine[n] # NoMachine /\ machine[n].credential # Password =>
      machine[n].configured \subseteq {machine[n].serial}
=============================================================================
