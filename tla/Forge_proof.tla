---------------------------- MODULE Forge_proof ----------------------------
(***************************************************************************)
(* The properties of Forge hold for every set of names, serials and        *)
(* addresses, those of its question for configurations for every catalogue.*)
(***************************************************************************)
EXTENDS Forge, ConfigurationSelection, FiniteSetTheorems, TLAPS

Early == {"identity", "questions", "manifest", "prepare", "createvm"}

Written == {"prepare", "createvm", "modifyvm", "equip", "startvm", "verify",
            "configure", "recheck"}

(* No two names hold the same lease.                                       *)
LeasesAreDistinct ==
  \A n, m \in Name : n # m /\ lease[n] # NoAddress => lease[n] # lease[m]

(* The manifest of the run, from when it is written to the end.            *)
ManifestOfRun ==
  pc \in Written =>
    manifest[job.name] =
      [serial     |-> job.serial,
       address    |-> lease[job.name],
       credential |-> IF job.family = "linux"
                        THEN IdentityDirectory(job.name, job.serial)
                        ELSE Password]

(* What the run has on file before the manifest.                           *)
FilesOfRun ==
  /\ pc = "manifest" \/ pc \in Written => lease[job.name] \in Address
  /\ pc \in {"questions", "manifest"} \cup Written /\ job.family = "linux" =>
       identity[IdentityDirectory(job.name, job.serial)] = "complete"

(* Until it registers its machine the run finds at most a renamed one      *)
(* under its name.                                                         *)
NameIsFree ==
  pc \in Early /\ Forged(job.name) => machine[job.name].serial \in renamed

(* The machine being built is the run's own, and switched off.             *)
MachineOfRun ==
  UnderConstruction(job.name) =>
    /\ machine[job.name] # NoMachine
    /\ job.name \in registered
    /\ machine[job.name].serial = job.serial
    /\ machine[job.name].running = FALSE
    /\ machine[job.name].stage =
         IF pc = "startvm" THEN "equipped" ELSE "registered"

(* One machine the Forge built, under name n.                              *)
DescribedMachine(n) ==
  /\ manifest[n] \in Manifest
  /\ manifest[n].serial = machine[n].serial
  /\ manifest[n].address = lease[n]
  /\ machine[n].address =
       IF machine[n].stage = "registered" THEN NoAddress ELSE lease[n]
  /\ machine[n].credential # Password =>
       identity[IdentityDirectory(n, machine[n].serial)] = "complete"

MachinesDescribed ==
  \A n \in Name : Forged(n) /\ machine[n].serial \notin renamed =>
    DescribedMachine(n)

(* A machine holds the key of its own serial, and only that serial's run   *)
(* has configured it.                                                      *)
KeysAreOwn ==
  \A n \in Name : machine[n] # NoMachine /\ machine[n].credential # Password =>
    /\ machine[n].credential.serial = machine[n].serial
    /\ machine[n].configured \subseteq {machine[n].serial}

IInv ==
  /\ TypeOK
  /\ LeasesAreDistinct
  /\ ManifestOfRun
  /\ FilesOfRun
  /\ NameIsFree
  /\ MachineOfRun
  /\ MachinesDescribed
  /\ KeysAreOwn

-----------------------------------------------------------------------------
(* No machine record is NoMachine, no manifest is a sentinel.              *)
USE SentinelAssumption, AbsenceAssumption

(* At first there are no machines and no files.                            *)
LEMMA InitIInv == Init => IInv
  BY DEF Init, IInv, TypeOK, LeasesAreDistinct, ManifestOfRun, FilesOfRun,
     NameIsFree, MachineOfRun, MachinesDescribed, KeysAreOwn, Early, Written,
     Forged, UnderConstruction

(* Switching a machine on or off leaves it a machine.                      *)
LEMMA SwitchedMachine ==
  ASSUME NEW r \in Machine, NEW b \in BOOLEAN
  PROVE  [r EXCEPT !.running = b] \in Machine
  BY SMT DEF Machine, Credential, Identity

(* The new identity is the run's own.                                      *)
LEMMA CreateIdentityPreserves == IInv /\ CreateIdentity => IInv'
<1> SUFFICES ASSUME IInv, CreateIdentity PROVE IInv'
  OBVIOUS
<1>1. TypeOK'
  <2>1. IdentityDirectory(job.name, job.serial) \in Identity
    BY SMT DEF IInv, TypeOK, Identity, IdentityDirectory
  <2>2. identity' \in [Identity -> {"none", "partial", "complete"}]
    BY <2>1, SMT DEF IInv, TypeOK, CreateIdentity
  <2> QED
    BY <2>2, SMT DEF IInv, TypeOK, CreateIdentity, registry
<1>2. LeasesAreDistinct'
  BY SMT DEF IInv, CreateIdentity, IdentityDirectory, Identity, registry,
     records, LeasesAreDistinct, TypeOK
<1>3. ManifestOfRun'
  BY SMT DEF IInv, CreateIdentity, IdentityDirectory, Identity, registry,
     records, ManifestOfRun, TypeOK, Written
<1>4. FilesOfRun'
  <2>1. IdentityDirectory(job.name, job.serial) \in Identity
    BY SMT DEF IInv, TypeOK, Identity, IdentityDirectory
  <2>2. CASE identity' = [identity EXCEPT
               ![IdentityDirectory(job.name, job.serial)] = "complete"]
             /\ pc' = "questions"
    BY <2>1, <2>2, SMT DEF IInv, TypeOK, CreateIdentity, FilesOfRun, Written
  <2>3. CASE pc' = "idle"
    BY <2>3, SMT DEF FilesOfRun, Written
  <2> QED
    BY <2>2, <2>3 DEF CreateIdentity
<1>5. NameIsFree'
  BY SMT DEF IInv, CreateIdentity, IdentityDirectory, Identity, registry,
     records, NameIsFree, TypeOK, Early, Forged
<1>6. MachineOfRun'
  BY SMT DEF IInv, CreateIdentity, IdentityDirectory, Identity, registry,
     records, MachineOfRun, TypeOK, UnderConstruction
<1>7. MachinesDescribed'
  BY SMT DEF IInv, CreateIdentity, IdentityDirectory, Identity, registry,
     records, MachinesDescribed, TypeOK, DescribedMachine, Forged, Machine
<1>8. KeysAreOwn'
  BY SMT DEF IInv, CreateIdentity, IdentityDirectory, Identity, registry,
     records, KeysAreOwn, TypeOK
<1> QED
  BY <1>1, <1>2, <1>3, <1>4, <1>5, <1>6, <1>7, <1>8 DEF IInv

(* A name keeps its lease, and a new lease is of a free address.           *)
LEMMA LeaseAddressPreserves == IInv /\ LeaseAddress => IInv'
<1> SUFFICES ASSUME IInv, LeaseAddress PROVE IInv'
  OBVIOUS
<1>1. TypeOK'
  BY SMT DEF IInv, LeaseAddress, FreeAddresses, registry, records, TypeOK
<1>2. LeasesAreDistinct'
  BY SMT DEF IInv, LeaseAddress, FreeAddresses, registry, records,
     LeasesAreDistinct, TypeOK
<1>3. ManifestOfRun'
  BY SMT DEF IInv, LeaseAddress, FreeAddresses, registry, records,
     ManifestOfRun, TypeOK, Written
<1>4. FilesOfRun'
  BY SMT DEF IInv, LeaseAddress, FreeAddresses, registry, records,
     FilesOfRun, TypeOK, Written
<1>5. NameIsFree'
  BY SMT DEF IInv, LeaseAddress, FreeAddresses, registry, records,
     NameIsFree, TypeOK, Early, Forged
<1>6. MachineOfRun'
  BY SMT DEF IInv, LeaseAddress, FreeAddresses, registry, records,
     MachineOfRun, TypeOK, UnderConstruction
<1>7. MachinesDescribed'
  BY SMT DEF IInv, LeaseAddress, FreeAddresses, registry, records,
     MachinesDescribed, TypeOK, DescribedMachine, Forged, Machine,
     Identity, IdentityDirectory, ManifestOfRun, FilesOfRun, NameIsFree,
     MachineOfRun, UnderConstruction, Early, Written
<1>8. KeysAreOwn'
  BY SMT DEF IInv, LeaseAddress, FreeAddresses, registry, records,
     KeysAreOwn, TypeOK
<1> QED
  BY <1>1, <1>2, <1>3, <1>4, <1>5, <1>6, <1>7, <1>8 DEF IInv

(* Only a renamed machine can have the name whose manifest is written.     *)
LEMMA WriteManifestPreserves == IInv /\ WriteManifest => IInv'
<1> SUFFICES ASSUME IInv, WriteManifest PROVE IInv'
  OBVIOUS
<1>1. TypeOK'
  BY SMT DEF IInv, WriteManifest, IdentityDirectory, registry, records,
     TypeOK, Machine, Manifest, Credential, Identity, MachineOfRun,
     ManifestOfRun, FilesOfRun, Written, UnderConstruction
<1>2. LeasesAreDistinct'
  BY SMT DEF IInv, WriteManifest, IdentityDirectory, registry, records,
     LeasesAreDistinct, TypeOK
<1>3. ManifestOfRun'
  BY SMT DEF IInv, WriteManifest, IdentityDirectory, registry, records,
     ManifestOfRun, TypeOK, Written
<1>4. FilesOfRun'
  BY SMT DEF IInv, WriteManifest, IdentityDirectory, registry, records,
     FilesOfRun, TypeOK, Written
<1>5. NameIsFree'
  BY SMT DEF IInv, WriteManifest, IdentityDirectory, registry, records,
     NameIsFree, TypeOK, Early, Forged
<1>6. MachineOfRun'
  BY SMT DEF IInv, WriteManifest, IdentityDirectory, registry, records,
     MachineOfRun, TypeOK, UnderConstruction
<1>7. MachinesDescribed'
  BY SMT DEF IInv, WriteManifest, IdentityDirectory, registry, records,
     MachinesDescribed, TypeOK, DescribedMachine, Forged, Machine,
     Identity, ManifestOfRun, FilesOfRun, NameIsFree, MachineOfRun,
     UnderConstruction, Early, Written
<1>8. KeysAreOwn'
  BY SMT DEF IInv, WriteManifest, IdentityDirectory, registry, records,
     KeysAreOwn, TypeOK
<1> QED
  BY <1>1, <1>2, <1>3, <1>4, <1>5, <1>6, <1>7, <1>8 DEF IInv

(* The new machine is described by the files the run just wrote.           *)
LEMMA RegisterMachinePreserves == IInv /\ RegisterMachine => IInv'
<1> SUFFICES ASSUME IInv, RegisterMachine PROVE IInv'
  OBVIOUS
<1>1. TypeOK'
  <2>1. job.name \in Name
    BY SMT DEF IInv, TypeOK
  <2>2. NewMachine \in Machine
    <3>1. manifest[job.name].credential \in Credential
      BY SMT DEF IInv, TypeOK, ManifestOfRun, RegisterMachine, Written,
         Credential, Identity, IdentityDirectory
    <3> QED
      BY <3>1, SMT DEF IInv, TypeOK, NewMachine, Machine
  <2> QED
    BY <2>1, <2>2, SMT DEF IInv, TypeOK, RegisterMachine, records
<1>2. LeasesAreDistinct'
  BY SMT DEF IInv, RegisterMachine, NewMachine, registry, records,
     LeasesAreDistinct, TypeOK
<1>3. ManifestOfRun'
  BY SMT DEF IInv, RegisterMachine, NewMachine, registry, records,
     ManifestOfRun, TypeOK, Written
<1>4. FilesOfRun'
  BY SMT DEF IInv, RegisterMachine, NewMachine, registry, records,
     FilesOfRun, TypeOK, Written
<1>5. NameIsFree'
  BY SMT DEF IInv, RegisterMachine, NewMachine, registry, records,
     NameIsFree, TypeOK, Early, Forged
<1>6. MachineOfRun'
  <2>1. job.name \in Name
    BY SMT DEF IInv, TypeOK
  <2>2. NewMachine \in Machine
    <3>1. manifest[job.name].credential \in Credential
      BY SMT DEF IInv, TypeOK, ManifestOfRun, RegisterMachine, Written,
         Credential, Identity, IdentityDirectory
    <3> QED
      BY <3>1, SMT DEF IInv, TypeOK, NewMachine, Machine
  <2>3. machine'[job.name] = NewMachine /\ job.name \in registered'
    BY <2>1, SMT DEF IInv, TypeOK, RegisterMachine
  <2>4. NewMachine # NoMachine
    BY <2>2
  <2> QED
    BY <2>3, <2>4, SMT
       DEF MachineOfRun, UnderConstruction, RegisterMachine, NewMachine
<1>7. MachinesDescribed'
  <2>1. job.name \in Name
    BY SMT DEF IInv, TypeOK
  <2>2. NewMachine \in Machine
    <3>1. manifest[job.name].credential \in Credential
      BY SMT DEF IInv, TypeOK, ManifestOfRun, RegisterMachine, Written,
         Credential, Identity, IdentityDirectory
    <3> QED
      BY <3>1, SMT DEF IInv, TypeOK, NewMachine, Machine
  <2>3. SUFFICES ASSUME NEW n \in Name, Forged(n)',
                        (machine[n].serial \notin renamed)'
                 PROVE  DescribedMachine(n)'
    BY DEF MachinesDescribed
  <2>4. CASE n = job.name
    BY <2>1, <2>4, SMT DEF IInv, TypeOK, RegisterMachine, records, NewMachine,
       DescribedMachine, ManifestOfRun, FilesOfRun, Written, Manifest,
       Credential, Identity, IdentityDirectory
  <2>5. CASE n # job.name
    BY <2>1, <2>3, <2>5, SMT DEF IInv, TypeOK, RegisterMachine, records,
       DescribedMachine, MachinesDescribed, Forged
  <2> QED
    BY <2>4, <2>5
<1>8. KeysAreOwn'
  BY SMT DEF IInv, RegisterMachine, NewMachine, registry, records,
     KeysAreOwn, TypeOK, Machine, Identity, IdentityDirectory, Credential,
     ManifestOfRun, Written, MachineOfRun, UnderConstruction
<1> QED
  BY <1>1, <1>2, <1>3, <1>4, <1>5, <1>6, <1>7, <1>8 DEF IInv

(* The rollback removes the run's own machine.                             *)
LEMMA RollBackPreserves == IInv /\ RollBack => IInv'
<1> SUFFICES ASSUME IInv, RollBack PROVE IInv'
  OBVIOUS
<1>1. TypeOK'
  BY SMT DEF IInv, RollBack, registry, records, TypeOK
<1>2. LeasesAreDistinct'
  BY SMT DEF IInv, RollBack, registry, records, LeasesAreDistinct, TypeOK
<1>3. ManifestOfRun'
  BY SMT DEF IInv, RollBack, registry, records, ManifestOfRun, TypeOK,
     Written
<1>4. FilesOfRun'
  BY SMT DEF IInv, RollBack, registry, records, FilesOfRun, TypeOK,
     Written
<1>5. NameIsFree'
  BY SMT DEF IInv, RollBack, registry, records, NameIsFree, TypeOK, Early,
     Forged
<1>6. MachineOfRun'
  BY SMT DEF IInv, RollBack, registry, records, MachineOfRun, TypeOK,
     UnderConstruction
<1>7. MachinesDescribed'
  BY SMT DEF IInv, RollBack, registry, records, MachinesDescribed, TypeOK,
     DescribedMachine, Forged
<1>8. KeysAreOwn'
  BY SMT DEF IInv, RollBack, registry, records, KeysAreOwn, TypeOK
<1> QED
  BY <1>1, <1>2, <1>3, <1>4, <1>5, <1>6, <1>7, <1>8 DEF IInv

(* The address of the machine is the one of the manifest.                  *)
LEMMA EquipPreserves == IInv /\ Equip => IInv'
<1> SUFFICES ASSUME IInv, Equip PROVE IInv'
  OBVIOUS
<1>1. TypeOK'
  BY SMT DEF IInv, Equip, registry, records, TypeOK, Machine, Manifest,
     Credential, Identity, MachineOfRun, ManifestOfRun, FilesOfRun,
     Written, UnderConstruction, IdentityDirectory
<1>2. LeasesAreDistinct'
  BY SMT DEF IInv, Equip, registry, records, LeasesAreDistinct, TypeOK
<1>3. ManifestOfRun'
  BY SMT DEF IInv, Equip, registry, records, ManifestOfRun, TypeOK,
     Written
<1>4. FilesOfRun'
  BY SMT DEF IInv, Equip, registry, records, FilesOfRun, TypeOK, Written
<1>5. NameIsFree'
  BY SMT DEF IInv, Equip, registry, records, NameIsFree, TypeOK, Early,
     Forged
<1>6. MachineOfRun'
  <2>1. job.name \in Name /\ machine[job.name] \in Machine
    BY SMT DEF IInv, TypeOK, MachineOfRun, UnderConstruction, Equip
  <2>2. machine'[job.name] = [machine[job.name] EXCEPT
          !.address = manifest[job.name].address, !.stage = "equipped"]
    BY <2>1, SMT DEF IInv, TypeOK, Equip
  <2>3. machine'[job.name].stage = "equipped"
        /\ machine'[job.name].serial = machine[job.name].serial
        /\ machine'[job.name].running = machine[job.name].running
    BY <2>1, <2>2, SMT DEF Machine
  <2>4. job.name \in registered'
    BY SMT DEF IInv, MachineOfRun, UnderConstruction, Equip
  <2>5. machine'[job.name] # NoMachine
    BY <1>1, <2>4 DEF TypeOK
  <2> QED
    BY <2>3, <2>4, <2>5, SMT DEF IInv, MachineOfRun, UnderConstruction, Equip
<1>7. MachinesDescribed'
  BY SMT DEF IInv, Equip, registry, records, MachinesDescribed, TypeOK,
     DescribedMachine, Forged, Machine, Identity, IdentityDirectory,
     ManifestOfRun, FilesOfRun, NameIsFree, MachineOfRun,
     UnderConstruction, Early, Written
<1>8. KeysAreOwn'
  BY SMT DEF IInv, Equip, registry, records, KeysAreOwn, TypeOK, Machine,
     Identity, IdentityDirectory, Credential, ManifestOfRun, Written,
     MachineOfRun, UnderConstruction
<1> QED
  BY <1>1, <1>2, <1>3, <1>4, <1>5, <1>6, <1>7, <1>8 DEF IInv

(* Starting changes nothing but the switch.                                *)
LEMMA StartMachinePreserves == IInv /\ StartMachine => IInv'
<1> SUFFICES ASSUME IInv, StartMachine PROVE IInv'
  OBVIOUS
<1>1. TypeOK'
  <2>1. job.name \in Name /\ machine[job.name] \in Machine
    BY SMT DEF IInv, TypeOK, MachineOfRun, UnderConstruction, StartMachine
  <2>2. [machine[job.name] EXCEPT !.running = TRUE] \in Machine
    BY <2>1, SwitchedMachine
  <2>3. machine' \in [Name -> Machine \cup {NoMachine}]
    BY <2>1, <2>2, SMT DEF IInv, TypeOK, StartMachine
  <2>4. \A k \in Name : machine[k] # NoMachine => machine'[k] # NoMachine
    <3>1. machine' = [machine EXCEPT ![job.name] =
                        [machine[job.name] EXCEPT !.running = TRUE]]
      BY DEF StartMachine
    <3>2. machine'[job.name] \in Machine
      BY <2>1, <2>2, <3>1, SMT DEF IInv, TypeOK
    <3>3. ASSUME NEW k \in Name, k # job.name
          PROVE  machine'[k] = machine[k]
      BY <2>1, <3>1, <3>3, SMT DEF IInv, TypeOK
    <3> QED
      BY <3>2, <3>3
  <2>5. pc' \in {"verify", "idle"} /\ registered' = registered
    BY DEF StartMachine
  <2>6. registered' \subseteq {k \in Name : machine'[k] # NoMachine}
    BY <2>4, <2>5, SMT DEF IInv, TypeOK
  <2> QED
    BY <2>3, <2>5, <2>6, SMT DEF IInv, TypeOK, StartMachine, records
<1>2. LeasesAreDistinct'
  BY SMT DEF IInv, StartMachine, registry, records, LeasesAreDistinct,
     TypeOK
<1>3. ManifestOfRun'
  BY SMT DEF IInv, StartMachine, registry, records, ManifestOfRun, TypeOK,
     Written
<1>4. FilesOfRun'
  BY SMT DEF IInv, StartMachine, registry, records, FilesOfRun, TypeOK,
     Written
<1>5. NameIsFree'
  BY SMT DEF IInv, StartMachine, registry, records, NameIsFree, TypeOK,
     Early, Forged
<1>6. MachineOfRun'
  BY SMT DEF IInv, StartMachine, registry, records, MachineOfRun, TypeOK,
     UnderConstruction
<1>7. MachinesDescribed'
  BY SMT DEF IInv, StartMachine, registry, records, MachinesDescribed,
     TypeOK, DescribedMachine, Forged, Machine, Identity,
     IdentityDirectory, ManifestOfRun, FilesOfRun, NameIsFree,
     MachineOfRun, UnderConstruction, Early, Written
<1>8. KeysAreOwn'
  BY SMT DEF IInv, StartMachine, registry, records, KeysAreOwn, TypeOK,
     Machine, Identity, IdentityDirectory, Credential, ManifestOfRun,
     Written, MachineOfRun, UnderConstruction
<1> QED
  BY <1>1, <1>2, <1>3, <1>4, <1>5, <1>6, <1>7, <1>8 DEF IInv

(* The machine that answers with the run's key is the run's own.           *)
LEMMA ConfigurePreserves == IInv /\ Configure => IInv'
<1> SUFFICES ASSUME IInv, Configure PROVE IInv'
  OBVIOUS
<1>1. TypeOK'
  BY SMT DEF IInv, Configure, Answers, Credentials, registry, records,
     TypeOK, Machine, Manifest, Credential, Identity
<1>2. LeasesAreDistinct'
  BY SMT DEF IInv, Configure, Answers, Credentials, registry, records,
     LeasesAreDistinct, TypeOK
<1>3. ManifestOfRun'
  BY SMT DEF IInv, Configure, Answers, Credentials, registry, records,
     ManifestOfRun, TypeOK, Written
<1>4. FilesOfRun'
  BY SMT DEF IInv, Configure, Answers, Credentials, registry, records,
     FilesOfRun, TypeOK, Written
<1>5. NameIsFree'
  BY SMT DEF IInv, Configure, Answers, Credentials, registry, records,
     NameIsFree, TypeOK, Early, Forged
<1>6. MachineOfRun'
  BY SMT DEF IInv, Configure, Answers, Credentials, registry, records,
     MachineOfRun, TypeOK, UnderConstruction
<1>7. MachinesDescribed'
  BY SMT DEF IInv, Configure, Answers, Credentials, registry, records,
     MachinesDescribed, TypeOK, DescribedMachine, Forged
<1>8. KeysAreOwn'
  BY SMT DEF IInv, Configure, Answers, Credentials, registry, records,
     KeysAreOwn, TypeOK, Machine, Identity, IdentityDirectory, Credential,
     ManifestOfRun, Written, MachineOfRun, UnderConstruction
<1> QED
  BY <1>1, <1>2, <1>3, <1>4, <1>5, <1>6, <1>7, <1>8 DEF IInv

(* A machine under construction is switched off and installs nothing.      *)
LEMMA GuestInstallsPreserves ==
  ASSUME NEW n \in Name, IInv, GuestInstalls(n) PROVE IInv'
<1>1. TypeOK'
  BY SMT DEF IInv, GuestInstalls, registry, records, TypeOK, Machine,
     Manifest, Credential, Identity
<1>2. LeasesAreDistinct'
  BY SMT DEF IInv, GuestInstalls, registry, records, LeasesAreDistinct,
     TypeOK
<1>3. ManifestOfRun'
  BY SMT DEF IInv, GuestInstalls, registry, records, ManifestOfRun,
     TypeOK, Written
<1>4. FilesOfRun'
  BY SMT DEF IInv, GuestInstalls, registry, records, FilesOfRun, TypeOK,
     Written
<1>5. NameIsFree'
  BY SMT DEF IInv, GuestInstalls, registry, records, NameIsFree, TypeOK,
     Early, Forged
<1>6. MachineOfRun'
  BY SMT DEF IInv, GuestInstalls, registry, records, MachineOfRun, TypeOK,
     UnderConstruction
<1>7. MachinesDescribed'
  BY SMT DEF IInv, GuestInstalls, registry, records, MachinesDescribed,
     TypeOK, DescribedMachine, Forged
<1>8. KeysAreOwn'
  BY SMT DEF IInv, GuestInstalls, registry, records, KeysAreOwn, TypeOK
<1> QED
  BY <1>1, <1>2, <1>3, <1>4, <1>5, <1>6, <1>7, <1>8 DEF IInv

(* The operator's machines are not described by files.                     *)
LEMMA AddForeignMachinePreserves ==
  ASSUME NEW n \in Name, IInv, AddForeignMachine(n) PROVE IInv'
<1>1. TypeOK'
  <2>1. ForeignMachine \in Machine
    BY DEF ForeignMachine, Machine, Credential
  <2> QED
    BY <2>1, SMT DEF IInv, TypeOK, AddForeignMachine, records
<1>2. LeasesAreDistinct'
  BY SMT DEF IInv, AddForeignMachine, ForeignMachine, registry, records,
     LeasesAreDistinct, TypeOK
<1>3. ManifestOfRun'
  BY SMT DEF IInv, AddForeignMachine, ForeignMachine, registry, records,
     ManifestOfRun, TypeOK, Written
<1>4. FilesOfRun'
  BY SMT DEF IInv, AddForeignMachine, ForeignMachine, registry, records,
     FilesOfRun, TypeOK, Written
<1>5. NameIsFree'
  BY SMT DEF IInv, AddForeignMachine, ForeignMachine, registry, records,
     NameIsFree, TypeOK, Early, Forged
<1>6. MachineOfRun'
  BY SMT DEF IInv, AddForeignMachine, ForeignMachine, registry, records,
     MachineOfRun, TypeOK, UnderConstruction
<1>7. MachinesDescribed'
  BY SMT DEF IInv, AddForeignMachine, ForeignMachine, registry, records,
     MachinesDescribed, TypeOK, DescribedMachine, Forged
<1>8. KeysAreOwn'
  BY SMT DEF IInv, AddForeignMachine, ForeignMachine, registry, records,
     KeysAreOwn, TypeOK
<1> QED
  BY <1>1, <1>2, <1>3, <1>4, <1>5, <1>6, <1>7, <1>8 DEF IInv

(* Fewer machines are described by the same files.                         *)
LEMMA RemoveMachinePreserves ==
  ASSUME NEW n \in Name, IInv, RemoveMachine(n) PROVE IInv'
<1>1. TypeOK'
  BY SMT DEF IInv, RemoveMachine, registry, records, TypeOK
<1>2. LeasesAreDistinct'
  BY SMT DEF IInv, RemoveMachine, registry, records, LeasesAreDistinct,
     TypeOK
<1>3. ManifestOfRun'
  BY SMT DEF IInv, RemoveMachine, registry, records, ManifestOfRun,
     TypeOK, Written
<1>4. FilesOfRun'
  BY SMT DEF IInv, RemoveMachine, registry, records, FilesOfRun, TypeOK,
     Written
<1>5. NameIsFree'
  BY SMT DEF IInv, RemoveMachine, registry, records, NameIsFree, TypeOK,
     Early, Forged
<1>6. MachineOfRun'
  BY SMT DEF IInv, RemoveMachine, registry, records, MachineOfRun, TypeOK,
     UnderConstruction
<1>7. MachinesDescribed'
  BY SMT DEF IInv, RemoveMachine, registry, records, MachinesDescribed,
     TypeOK, DescribedMachine, Forged
<1>8. KeysAreOwn'
  BY SMT DEF IInv, RemoveMachine, registry, records, KeysAreOwn, TypeOK
<1> QED
  BY <1>1, <1>2, <1>3, <1>4, <1>5, <1>6, <1>7, <1>8 DEF IInv

(* The operator does not switch the machine under construction.            *)
LEMMA SwitchMachinePreserves ==
  ASSUME NEW n \in Name, IInv, SwitchMachine(n) PROVE IInv'
<1>1. TypeOK'
  <2>1. PICK on \in BOOLEAN : machine' = [machine EXCEPT ![n].running = on]
    BY DEF SwitchMachine
  <2>2. machine[n] \in Machine
    BY SMT DEF IInv, TypeOK, SwitchMachine
  <2>3. [machine[n] EXCEPT !.running = on] \in Machine
    BY <2>2, SwitchedMachine
  <2>4. machine' \in [Name -> Machine \cup {NoMachine}]
    BY <2>1, <2>3, SMT DEF IInv, TypeOK
  <2>5. \A k \in Name : machine[k] # NoMachine => machine'[k] # NoMachine
    BY <2>1, <2>3, SMT DEF IInv, TypeOK
  <2>6. registered' = registered /\ UNCHANGED <<leftover, records, used,
          renamed, pc, job>>
    BY DEF SwitchMachine
  <2>7. registered' \subseteq {k \in Name : machine'[k] # NoMachine}
    BY <2>5, <2>6, SMT DEF IInv, TypeOK
  <2> QED
    BY <2>4, <2>6, <2>7, SMT DEF IInv, TypeOK, records
<1>2. LeasesAreDistinct'
  BY SMT DEF IInv, SwitchMachine, registry, records, LeasesAreDistinct,
     TypeOK
<1>3. ManifestOfRun'
  BY SMT DEF IInv, SwitchMachine, registry, records, ManifestOfRun,
     TypeOK, Written
<1>4. FilesOfRun'
  BY SMT DEF IInv, SwitchMachine, registry, records, FilesOfRun, TypeOK,
     Written
<1>5. NameIsFree'
  BY SMT DEF IInv, SwitchMachine, registry, records, NameIsFree, TypeOK,
     Early, Forged
<1>6. MachineOfRun'
  BY SMT DEF IInv, SwitchMachine, registry, records, MachineOfRun, TypeOK,
     UnderConstruction
<1>7. MachinesDescribed'
  BY SMT DEF IInv, SwitchMachine, registry, records, MachinesDescribed,
     TypeOK, DescribedMachine, Forged
<1>8. KeysAreOwn'
  BY SMT DEF IInv, SwitchMachine, registry, records, KeysAreOwn, TypeOK
<1> QED
  BY <1>1, <1>2, <1>3, <1>4, <1>5, <1>6, <1>7, <1>8 DEF IInv

(* A renamed machine is no longer claimed to be described.                 *)
LEMMA RenameMachinePreserves ==
  ASSUME NEW n \in Name, NEW m \in Name, IInv, RenameMachine(n, m) PROVE IInv'
<1>1. TypeOK'
  BY SMT DEF IInv, RenameMachine, registry, records, TypeOK, Machine,
     Manifest, Credential, Identity
<1>2. LeasesAreDistinct'
  BY SMT DEF IInv, RenameMachine, registry, records, LeasesAreDistinct,
     TypeOK
<1>3. ManifestOfRun'
  BY SMT DEF IInv, RenameMachine, registry, records, ManifestOfRun,
     TypeOK, Written
<1>4. FilesOfRun'
  BY SMT DEF IInv, RenameMachine, registry, records, FilesOfRun, TypeOK,
     Written
<1>5. NameIsFree'
  BY SMT DEF IInv, RenameMachine, registry, records, NameIsFree, TypeOK,
     Early, Forged
<1>6. MachineOfRun'
  BY SMT DEF IInv, RenameMachine, registry, records, MachineOfRun, TypeOK,
     UnderConstruction
<1>7. MachinesDescribed'
  BY SMT DEF IInv, RenameMachine, registry, records, MachinesDescribed,
     TypeOK, DescribedMachine, Forged
<1>8. KeysAreOwn'
  BY SMT DEF IInv, RenameMachine, registry, records, KeysAreOwn, TypeOK
<1> QED
  BY <1>1, <1>2, <1>3, <1>4, <1>5, <1>6, <1>7, <1>8 DEF IInv

(* Steps that change nothing but where the run is.                         *)
LEMMA WaitPreserves ==
  IInv /\ (StopRun \/ PrepareMachine \/ ConfigureHardware \/ VerifyMachine
            \/ Recheck)
    => IInv'
  BY DEF IInv, StopRun, PrepareMachine, ConfigureHardware, VerifyMachine,
     Recheck, TypeOK, LeasesAreDistinct, ManifestOfRun, FilesOfRun, NameIsFree,
     MachineOfRun, MachinesDescribed, DescribedMachine, KeysAreOwn, Early,
     Written, Forged, UnderConstruction, registry, records

(* The name is chosen where no machine and no directory is.                *)
LEMMA ChooseNamePreserves == IInv /\ ChooseName => IInv'
  BY DEF IInv, ChooseName, ReservedNames, TypeOK, LeasesAreDistinct, ManifestOfRun, FilesOfRun, NameIsFree,
     MachineOfRun, MachinesDescribed, DescribedMachine, KeysAreOwn, Early,
     Written, Forged, UnderConstruction, registry, records

(* Setting machines aside and back changes no machine.                     *)
LEMMA ShelvePreserves ==
  ASSUME NEW n \in Name, IInv,
         DetachMachine(n) \/ ReattachMachine(n) \/ DeleteLeftover(n)
  PROVE  IInv'
  BY DEF IInv, DetachMachine, ReattachMachine, DeleteLeftover, TypeOK, LeasesAreDistinct, ManifestOfRun, FilesOfRun, NameIsFree,
     MachineOfRun, MachinesDescribed, DescribedMachine, KeysAreOwn, Early,
     Written, Forged, UnderConstruction, registry, records

(* Nor does a step of nothing at all.                                      *)
LEMMA StutterPreserves == IInv /\ UNCHANGED vars => IInv'
  BY DEF IInv, vars, TypeOK, LeasesAreDistinct, ManifestOfRun, FilesOfRun, NameIsFree,
     MachineOfRun, MachinesDescribed, DescribedMachine, KeysAreOwn, Early,
     Written, Forged, UnderConstruction, registry, records

(* Every step keeps the inductive invariant.                               *)
LEMMA NextIInv == IInv /\ [Next]_vars => IInv'
<1> SUFFICES ASSUME IInv, [Next]_vars PROVE IInv'
  OBVIOUS
<1>1. CASE ForgeStep
  BY <1>1, WaitPreserves, ChooseNamePreserves, CreateIdentityPreserves,
     LeaseAddressPreserves, WriteManifestPreserves, RegisterMachinePreserves,
     RollBackPreserves, EquipPreserves, StartMachinePreserves,
     ConfigurePreserves DEF ForgeStep
<1>2. CASE OperatorStep
  BY <1>2, GuestInstallsPreserves, AddForeignMachinePreserves,
     RemoveMachinePreserves, ShelvePreserves, SwitchMachinePreserves,
     RenameMachinePreserves DEF OperatorStep
<1> QED
  BY <1>1, <1>2, StutterPreserves DEF Next

(* The inductive invariant holds throughout.                               *)
LEMMA Inductive == Spec => []IInv
  BY InitIInv, NextIInv, PTL DEF Spec

-----------------------------------------------------------------------------
(* Every variable keeps its type.                                          *)
THEOREM TypeCorrect == Spec => []TypeOK
<1>1. IInv => TypeOK
  BY DEF IInv
<1> QED
  BY <1>1, Inductive, PTL

(* The files of the controller describe every machine that was not renamed.*)
THEOREM RecordsAreKept == Spec => []RecordsDescribeMachines
<1>1. IInv => RecordsDescribeMachines
  BY DEF IInv, MachinesDescribed, DescribedMachine, RecordsDescribeMachines
<1> QED
  BY <1>1, Inductive, PTL

(* Leases are distinct and outlive machines, and so addresses are distinct.*)
THEOREM AddressesStayDistinct == Spec => []AddressesAreDistinct
<1>1. IInv => AddressesAreDistinct
  BY SMT DEF IInv, TypeOK, LeasesAreDistinct, MachinesDescribed,
     DescribedMachine, AddressesAreDistinct
<1> QED
  BY <1>1, Inductive, PTL

(* No playbook reaches a Linux machine of another run.                     *)
THEOREM ConfigurationStaysHome == Spec => []ConfiguresItsOwnMachine
<1>1. IInv => ConfiguresItsOwnMachine
  BY DEF IInv, KeysAreOwn, ConfiguresItsOwnMachine
<1> QED
  BY <1>1, Inductive, PTL

(* A run leaves alone what it did not create, given that the operator      *)
(* leaves alone the machine a run has under construction.                  *)
THEOREM OthersSurvive == Spec => ForeignMachinesSurvive
<1>1. ASSUME IInv, [Next]_vars, pc' # pc,
             NEW n \in Name, machine[n] # NoMachine,
             machine[n].serial # job.serial
      PROVE  /\ n \in registered' <=> n \in registered
             /\ machine'[n] # NoMachine
             /\ machine'[n].serial = machine[n].serial
             /\ machine'[n].running = machine[n].running
  <2>1. ForgeStep
    BY <1>1 DEF Next, OperatorStep, vars, GuestInstalls, AddForeignMachine,
       RemoveMachine, DetachMachine, ReattachMachine, DeleteLeftover,
       SwitchMachine, RenameMachine
  <2>2. machine \in [Name -> Machine \cup {NoMachine}] /\ job.name \in Name
    BY <1>1, SMT DEF IInv, TypeOK
  <2>3. CASE Configure
    <3>1. PICK k \in Name : machine' = [machine EXCEPT
                  ![k].configured = @ \cup {job.serial}]
      BY <2>3 DEF Configure
    <3>2. CASE k # n
      BY <1>1, <2>2, <2>3, <3>1, <3>2, SMT DEF Configure
    <3>3. CASE k = n
      <4>1. machine[n] \in Machine
        BY <1>1, <2>2
      <4>2. machine'[n] = [machine[n] EXCEPT
                  !.configured = @ \cup {job.serial}]
        BY <2>2, <3>1, <3>3, SMT
      <4>3. machine'[n] \in Machine
        <5>1. job.serial \in Serial
          BY <1>1, SMT DEF IInv, TypeOK
        <5> QED
          BY <4>1, <4>2, <5>1, SMT DEF Machine, Credential, Identity
      <4> QED
        BY <2>3, <4>1, <4>2, <4>3, SMT DEF Configure, Machine
    <3> QED
      BY <3>2, <3>3
  <2>4. CASE RollBack \/ Equip \/ StartMachine
    <3>1. machine[job.name].serial = job.serial
      BY <1>1, <2>4, SMT DEF IInv, MachineOfRun, UnderConstruction, RollBack,
         Equip, StartMachine
    <3> QED
      BY <1>1, <2>2, <2>4, <3>1, SMT DEF RollBack, Equip, StartMachine
  <2>5. CASE RegisterMachine
    BY <1>1, <2>2, <2>5, SMT DEF RegisterMachine
  <2>6. CASE ~(Configure \/ RollBack \/ Equip \/ StartMachine
               \/ RegisterMachine)
    BY <1>1, <2>1, <2>6 DEF ForgeStep, registry, StopRun, PrepareMachine,
       ConfigureHardware, VerifyMachine, Recheck, ChooseName, CreateIdentity,
       LeaseAddress, WriteManifest
  <2> QED
    BY <2>3, <2>4, <2>5, <2>6
<1>2. IInv /\ [Next]_vars =>
        [\A n \in Name :
           /\ pc' # pc
           /\ machine[n] # NoMachine
           /\ machine[n].serial # job.serial
           => /\ n \in registered' <=> n \in registered
              /\ machine'[n] # NoMachine
              /\ machine'[n].serial = machine[n].serial
              /\ machine'[n].running = machine[n].running]_vars
  BY <1>1
<1> QED
  BY <1>2, Inductive, PTL DEF Spec, ForeignMachinesSurvive

(***************************************************************************)
(* The selection of configurations, for every catalogue, profile and       *)
(* number of answers.                                                      *)
(***************************************************************************)
LEMMA LeastOfNaturals ==
  ASSUME NEW T \in SUBSET Nat, T # {}
  PROVE  \E a \in T : \A b \in T : a <= b
<1>1. PICK a \in T : \A b \in T : ~ (<<b, a>> \in OpToRel(<, Nat))
  BY NatLessThanWellFounded, WFMin
<1>2. \A b \in T : ~ (b < a)
  BY <1>1 DEF OpToRel
<1>3. \A b \in T : a <= b
  BY <1>2
<1> QED
  BY <1>3

(* A finite set of numbers has a largest one: otherwise the step from each *)
(* to the next one would map the set into itself and miss the least.       *)
LEMMA MaxIsGreatest ==
  ASSUME NEW S \in SUBSET Nat, IsFiniteSet(S), S # {}
  PROVE  MaxOf(S) \in S /\ \A y \in S : y <= MaxOf(S)
<1>1. \E x \in S : \A y \in S : y <= x
  <2>1. SUFFICES ASSUME \A x \in S : \E y \in S : y > x  PROVE FALSE
    BY <2>1
  <2> DEFINE next(x, t) == t > x /\ \A u \in S : u > x => t <= u
             f == [x \in S |-> CHOOSE t \in S : next(x, t)]
  <2>2. ASSUME NEW x \in S  PROVE \E t \in S : next(x, t)
    <3> DEFINE T == {y \in S : y > x}
    <3>1. T \in SUBSET Nat /\ T # {}
      BY <2>1
    <3>2. \E a \in T : \A b \in T : a <= b
      BY <3>1, LeastOfNaturals
    <3> QED
      BY <3>2
  <2>3. \A x \in S : f[x] \in S /\ next(x, f[x])
    <3>1. \A x \in S : LET t == CHOOSE t \in S : next(x, t)
                       IN  t \in S /\ next(x, t)
      BY <2>2, Zenon
    <3> QED
      BY <3>1, Zenon
  <2> HIDE DEF f
  <2>4. f \in [S -> S]
    <3>1. f = [x \in S |-> f[x]]
      BY DEF f
    <3> QED
      BY <2>3, <3>1
  <2>5. ASSUME NEW x \in S, NEW y \in S, x < y
        PROVE  f[x] < f[y]
    <3>1. x \in Nat /\ y \in Nat /\ f[x] \in Nat /\ f[y] \in Nat
      BY <2>3
    <3>2. next(x, f[x]) /\ next(y, f[y])
      BY <2>3
    <3>3. f[x] <= y
      BY <2>5, <3>1, <3>2
    <3>4. f[y] > y
      BY <3>2
    <3> QED
      BY <3>1, <3>3, <3>4
  <2>6. ASSUME NEW x \in S, NEW y \in S, f[x] = f[y]
        PROVE  x = y
    <3>1. x \in Nat /\ y \in Nat /\ f[x] \in Nat /\ f[y] \in Nat
      BY <2>3
    <3>2. ~ (f[x] < f[y]) /\ ~ (f[y] < f[x])
      BY <2>6, <3>1
    <3>3. ~ (x < y) /\ ~ (y < x)
      BY <2>5, <3>2
    <3> QED
      BY <3>1, <3>3
  <2>7. f \in Injection(S, S)
    BY <2>4, <2>6 DEF Injection, IsInjective
  <2>8. f \in Surjection(S, S)
    BY <2>7, FS_Injection
  <2>9. PICK a \in S : \A b \in S : a <= b
    BY LeastOfNaturals
  <2>10. PICK x \in S : f[x] = a
    BY <2>8 DEF Surjection
  <2> QED
    BY <2>3, <2>9, <2>10
<1> QED
  BY <1>1 DEF MaxOf

(* The values of a function on a finite set are finitely many.             *)
LEMMA ImageIsFinite ==
  ASSUME NEW S, IsFiniteSet(S), NEW f, DOMAIN f = S, f = [x \in S |-> f[x]]
  PROVE  IsFiniteSet({f[x] : x \in S})
<1> DEFINE T == {f[x] : x \in S}
<1>1. f \in Surjection(S, T)
  BY DEF Surjection
<1> QED
  BY <1>1, FS_Surjection

LEMMA AnswersAreFinite ==
  ASSUME NEW S, NEW n \in Nat, NEW s \in SequencesUpTo(S, n)
  PROVE  /\ IsFiniteSet(DOMAIN s) /\ IsFiniteSet(Chosen(s))
         /\ Chosen(s) \subseteq S
         /\ Len(s) \in Nat /\ DOMAIN s = 1 .. Len(s)
<1>1. PICK k \in 0 .. n : s \in [1 .. k -> S]
  BY DEF SequencesUpTo
<1>2. k \in Nat
  OBVIOUS
<1>3. DOMAIN s = 1 .. k /\ Len(s) = k
  BY <1>1, <1>2
<1>4. IsFiniteSet(DOMAIN s)
  BY <1>2, <1>3, FS_Interval
<1>5. s = [x \in DOMAIN s |-> s[x]]
  BY <1>1
<1>6. IsFiniteSet(Chosen(s))
  BY <1>4, <1>5, ImageIsFinite DEF Chosen
<1> QED
  BY <1>1, <1>2, <1>3, <1>4, <1>6 DEF Chosen

-----------------------------------------------------------------------------
(* The combined need of some configurations is at least that of each.      *)
Kind == {"total", "static", "internal", "staticInternal"}

LEMMA NeedIsCombined ==
  ASSUME NEW cs \in SUBSET Config, IsFiniteSet(cs), NEW c \in cs
  PROVE  \A f \in Kind :
           /\ Needs[c][f] \in Nat /\ CombineNeeds(cs)[f] \in Nat
           /\ Needs[c][f] <= CombineNeeds(cs)[f]
<1> SUFFICES ASSUME NEW f \in Kind
             PROVE  /\ Needs[c][f] \in Nat /\ CombineNeeds(cs)[f] \in Nat
                    /\ Needs[c][f] <= CombineNeeds(cs)[f]
  OBVIOUS
<1> DEFINE g == [d \in cs |-> Needs[d][f]]
           T == {Needs[d][f] : d \in cs}
<1>1. \A d \in cs : Needs[d][f] \in Nat
  BY CatalogAssumption DEF Requirement, Kind
<1>2. T = {g[d] : d \in cs}
  OBVIOUS
<1>3. IsFiniteSet({g[d] : d \in cs})
  <2>1. DOMAIN g = cs /\ g = [x \in cs |-> g[x]]
    OBVIOUS
  <2> HIDE DEF g
  <2> QED
    BY <2>1, ImageIsFinite
<1>4. IsFiniteSet(T) /\ T \in SUBSET Nat /\ T # {} /\ Needs[c][f] \in T
  BY <1>1, <1>2, <1>3
<1>5. CombineNeeds(cs)[f] = MaxOf(T)
  BY DEF CombineNeeds, NoNeeds, Kind
<1> HIDE DEF T
<1>6. MaxOf(T) \in T /\ \A y \in T : y <= MaxOf(T)
  BY <1>4, MaxIsGreatest
<1> QED
  BY <1>1, <1>4, <1>5, <1>6

LEMMA TotalIsGreatest ==
  ASSUME NEW need, \A f \in Kind : need[f] \in Nat
  PROVE  /\ EffectiveTotal(need) \in Nat
         /\ \A f \in Kind : need[f] <= EffectiveTotal(need)
         /\ \E f \in Kind : EffectiveTotal(need) = need[f]
<1> DEFINE T == {need[f] : f \in Kind}
<1>1. EffectiveTotal(need) = MaxOf(T)
  <2>1. T = {need.total, need.static, need.internal, need.staticInternal}
    BY DEF Kind
  <2> QED
    BY <2>1 DEF EffectiveTotal
<1>2. IsFiniteSet(Kind)
  <2>1. IsFiniteSet({}) /\ IsFiniteSet({} \cup {"total"})
    BY FS_EmptySet, FS_AddElement
  <2>2. IsFiniteSet(({} \cup {"total"}) \cup {"static"})
    BY <2>1, FS_AddElement
  <2>3. IsFiniteSet((({} \cup {"total"}) \cup {"static"}) \cup {"internal"})
    BY <2>2, FS_AddElement
  <2>4. IsFiniteSet(((({} \cup {"total"}) \cup {"static"}) \cup {"internal"})
                      \cup {"staticInternal"})
    BY <2>3, FS_AddElement
  <2>5. Kind = ((({} \cup {"total"}) \cup {"static"}) \cup {"internal"})
                 \cup {"staticInternal"}
    BY DEF Kind
  <2> QED
    BY <2>4, <2>5
<1>3. IsFiniteSet(T)
  <2> DEFINE g == [f \in Kind |-> need[f]]
  <2>1. DOMAIN g = Kind /\ g = [x \in Kind |-> g[x]] /\ T = {g[f] : f \in Kind}
    OBVIOUS
  <2> HIDE DEF g, T
  <2> QED
    BY <1>2, <2>1, ImageIsFinite
<1>4. T \in SUBSET Nat /\ T # {}
  BY DEF Kind
<1>5. MaxOf(T) \in T /\ \A y \in T : y <= MaxOf(T)
  BY <1>3, <1>4, MaxIsGreatest
<1> QED
  BY <1>1, <1>4, <1>5

LEMMA CountsAreNumbers ==
  ASSUME NEW t \in SequencesUpTo(Interface, MaxTopology), NEW k
  PROVE  CountInterfaces(t, k) \in Nat
<1> DEFINE D == {i \in DOMAIN t : t[i] \in k}
<1>1. D \in SUBSET DOMAIN t
  OBVIOUS
<1>2. IsFiniteSet(DOMAIN t)
  BY AnswersAreFinite, BoundAssumption
<1>3. IsFiniteSet(D)
  BY <1>1, <1>2, FS_Subset
<1>4. Cardinality(D) \in Nat
  BY <1>3, FS_CardinalityType
<1> QED
  BY <1>4 DEF CountInterfaces

(* So a topology that satisfies the combined need satisfies each.          *)
LEMMA CombinationMeetsEach ==
  ASSUME NEW cs \in SUBSET Config, IsFiniteSet(cs), NEW c \in cs,
         NEW t \in SequencesUpTo(Interface, MaxTopology),
         TopologyAccepts(t, CombineNeeds(cs))
  PROVE  /\ TopologyAccepts(t, Needs[c])
         /\ CountInterfaces(t, IsStaticInternal) >= Needs[c].staticInternal
<1> DEFINE need == CombineNeeds(cs)
           one == Needs[c]
<1>1. \A f \in Kind : one[f] \in Nat /\ need[f] \in Nat /\ one[f] <= need[f]
  BY NeedIsCombined
<1>2. Len(t) \in Nat /\ IsFiniteSet(DOMAIN t)
  BY AnswersAreFinite, BoundAssumption
<1>3. \A k : CountInterfaces(t, k) \in Nat
  BY CountsAreNumbers
<1> HIDE DEF need, one
<1>4. EffectiveTotal(one) <= EffectiveTotal(need)
  <2>1. /\ EffectiveTotal(need) \in Nat
        /\ \A f \in Kind : need[f] <= EffectiveTotal(need)
    BY <1>1, TotalIsGreatest
  <2>2. /\ EffectiveTotal(one) \in Nat
        /\ \E f \in Kind : EffectiveTotal(one) = one[f]
    BY <1>1, TotalIsGreatest
  <2> QED
    BY <1>1, <2>1, <2>2
<1>5. EffectiveTotal(one) \in Nat /\ EffectiveTotal(need) \in Nat
  BY <1>1, TotalIsGreatest
<1>6. TopologyAccepts(t, need)
  BY DEF need
<1>7. /\ one.static <= need.static /\ one.static \in Nat /\ need.static \in Nat
      /\ one.internal <= need.internal
      /\ one.internal \in Nat /\ need.internal \in Nat
      /\ one.staticInternal <= need.staticInternal
      /\ one.staticInternal \in Nat /\ need.staticInternal \in Nat
  BY <1>1 DEF Kind
<1>8. TopologyAccepts(t, one)
  <2>1. Len(t) >= EffectiveTotal(one)
    BY <1>2, <1>4, <1>5, <1>6 DEF TopologyAccepts
  <2>2. /\ CountInterfaces(t, IsStatic) >= one.static
        /\ CountInterfaces(t, IsInternal) >= one.internal
        /\ CountInterfaces(t, IsStaticInternal) >= one.staticInternal
    BY <1>3, <1>6, <1>7 DEF TopologyAccepts
  <2> QED
    BY <2>1, <2>2 DEF TopologyAccepts
<1> QED
  BY <1>8 DEF TopologyAccepts, one

-----------------------------------------------------------------------------
(* The plan sorts: the i-th configuration is the one with i - 1 others     *)
(* before it.                                                              *)
Before(cs, c) == {d \in cs : Precedes(d, c)}

Place(cs, c) == Cardinality(Before(cs, c))

LEMMA OneIsFirst ==
  ASSUME NEW c \in Config, NEW d \in Config, c # d
  PROVE  Precedes(c, d) \/ Precedes(d, c)
BY CatalogAssumption DEF Precedes

LEMMA NoneIsBeforeItself ==
  ASSUME NEW c \in Config
  PROVE  ~ Precedes(c, c)
BY CatalogAssumption DEF Precedes

LEMMA PrecedesTransitive ==
  ASSUME NEW b \in Config, NEW c \in Config, NEW d \in Config,
         Precedes(b, c), Precedes(c, d)
  PROVE  Precedes(b, d)
<1>1. \A x \in {b, c, d} : Order[x] \in Nat /\ Rank[x] \in Nat
  BY CatalogAssumption
<1> QED
  BY <1>1 DEF Precedes

LEMMA PlacesAreNumbers ==
  ASSUME NEW cs \in SUBSET Config, IsFiniteSet(cs), NEW c \in cs
  PROVE  /\ IsFiniteSet(Before(cs, c))
         /\ Place(cs, c) \in 0 .. Cardinality(cs) - 1
<1>1. Before(cs, c) \in SUBSET cs /\ c \notin Before(cs, c)
  BY NoneIsBeforeItself DEF Before
<1>2. /\ IsFiniteSet(Before(cs, c))
      /\ Cardinality(Before(cs, c)) <= Cardinality(cs)
      /\ Cardinality(cs) = Cardinality(Before(cs, c)) => cs = Before(cs, c)
  BY <1>1, FS_Subset
<1>3. Cardinality(cs) \in Nat /\ Cardinality(Before(cs, c)) \in Nat
  BY <1>2, FS_CardinalityType
<1>4. Cardinality(cs) # Cardinality(Before(cs, c))
  BY <1>1, <1>2
<1> QED
  BY <1>2, <1>3, <1>4 DEF Place

LEMMA FirstHasLowerPlace ==
  ASSUME NEW cs \in SUBSET Config, IsFiniteSet(cs), NEW c \in cs, NEW d \in cs,
         Precedes(c, d)
  PROVE  Place(cs, c) < Place(cs, d)
<1>1. IsFiniteSet(Before(cs, c)) /\ IsFiniteSet(Before(cs, d))
  BY PlacesAreNumbers
<1>2. Before(cs, c) \in SUBSET Before(cs, d)
  BY PrecedesTransitive DEF Before
<1>3. c \in Before(cs, d) /\ c \notin Before(cs, c)
  BY NoneIsBeforeItself DEF Before
<1>4. /\ Cardinality(Before(cs, c)) <= Cardinality(Before(cs, d))
      /\ Cardinality(Before(cs, d)) = Cardinality(Before(cs, c))
           => Before(cs, d) = Before(cs, c)
  BY <1>1, <1>2, FS_Subset
<1>5. Cardinality(Before(cs, c)) \in Nat /\ Cardinality(Before(cs, d)) \in Nat
  BY <1>1, FS_CardinalityType
<1>6. Cardinality(Before(cs, d)) # Cardinality(Before(cs, c))
  BY <1>3, <1>4
<1> QED
  BY <1>4, <1>5, <1>6 DEF Place

LEMMA PlacesDiffer ==
  ASSUME NEW cs \in SUBSET Config, IsFiniteSet(cs), NEW c \in cs, NEW d \in cs,
         Place(cs, c) = Place(cs, d)
  PROVE  c = d
<1>1. Place(cs, c) \in Nat /\ Place(cs, d) \in Nat
  <2>1. Cardinality(cs) \in Nat
    BY FS_CardinalityType
  <2>2. /\ Place(cs, c) \in 0 .. Cardinality(cs) - 1
        /\ Place(cs, d) \in 0 .. Cardinality(cs) - 1
    BY PlacesAreNumbers
  <2> QED
    BY <2>1, <2>2
<1>2. ~ Precedes(c, d) /\ ~ Precedes(d, c)
  BY <1>1, FirstHasLowerPlace
<1> QED
  BY <1>2, OneIsFirst

(* Each place is taken: n configurations have n different places below n.  *)
LEMMA EveryPlaceIsTaken ==
  ASSUME NEW cs \in SUBSET Config, IsFiniteSet(cs),
         NEW i \in 1 .. Cardinality(cs)
  PROVE  /\ BuildPlan(cs)[i] \in cs
         /\ Place(cs, BuildPlan(cs)[i]) = i - 1
<1> DEFINE n == Cardinality(cs)
           T == 0 .. n - 1
           f == [c \in cs |-> Place(cs, c)]
<1>1. n \in Nat
  BY FS_CardinalityType
<1> HIDE DEF n
<1>2. IsFiniteSet(T) /\ Cardinality(T) = n
  BY <1>1, FS_Interval
<1>3. \A c \in cs : f[c] \in T
  BY PlacesAreNumbers DEF n
<1>4. f \in [cs -> T]
  BY <1>3
<1>5. \A c, d \in cs : f[c] = f[d] => c = d
  BY PlacesDiffer
<1> HIDE DEF T
<1>6. f \in Injection(cs, T)
  <2> HIDE DEF f
  <2> QED
    BY <1>4, <1>5 DEF Injection, IsInjective
<1>7. f \in Surjection(cs, T)
  <2> HIDE DEF f
  <2> QED
    BY <1>2, <1>6, FS_Injection DEF n
<1>8. i - 1 \in T
  BY <1>1 DEF T, n
<1>9. PICK c \in cs : f[c] = i - 1
  <2> HIDE DEF f
  <2> QED
    BY <1>7, <1>8 DEF Surjection
<1>10. \E x \in cs : Place(cs, x) = i - 1
  BY <1>9
<1>11. LET x == CHOOSE x \in cs : Place(cs, x) = i - 1
       IN  x \in cs /\ Place(cs, x) = i - 1
  BY <1>10, Zenon
<1>12. BuildPlan(cs)[i] = CHOOSE x \in cs : Place(cs, x) = i - 1
  BY DEF BuildPlan, Place, Before
<1> QED
  BY <1>11, <1>12

LEMMA RequiredIsEarlier ==
  ASSUME OrdersAgree, NEW cs \in SUBSET Config, IsFiniteSet(cs),
         \A c \in cs : Requires[c] \subseteq cs,
         NEW i \in DOMAIN BuildPlan(cs), NEW r \in Requires[BuildPlan(cs)[i]]
  PROVE  \E j \in 1 .. i - 1 : BuildPlan(cs)[j] = r
<1> DEFINE c == BuildPlan(cs)[i]
           j == Place(cs, r) + 1
<1>1. Cardinality(cs) \in Nat /\ i \in 1 .. Cardinality(cs)
  BY FS_CardinalityType DEF BuildPlan
<1>2. c \in cs /\ Place(cs, c) = i - 1
  BY <1>1, EveryPlaceIsTaken
<1>3. r \in cs
  BY <1>2
<1>4. Precedes(r, c)
  BY <1>2, <1>3 DEF OrdersAgree
<1> HIDE DEF c
<1>5. Place(cs, r) < Place(cs, c) /\ Place(cs, r) \in 0 .. Cardinality(cs) - 1
  BY <1>2, <1>3, <1>4, FirstHasLowerPlace, PlacesAreNumbers
<1>6. j \in 1 .. i - 1 /\ j \in 1 .. Cardinality(cs) /\ j - 1 = Place(cs, r)
  BY <1>1, <1>2, <1>5
<1> HIDE DEF j
<1>7. BuildPlan(cs)[j] \in cs /\ Place(cs, BuildPlan(cs)[j]) = Place(cs, r)
  BY <1>6, EveryPlaceIsTaken
<1>8. BuildPlan(cs)[j] = r
  BY <1>3, <1>7, PlacesDiffer
<1> QED
  BY <1>6, <1>8

-----------------------------------------------------------------------------
(* What the questions leave behind when they end.                          *)
SelectionTypes ==
  /\ phase \in {"selection", "risk", "topology", "service", "manifest",
               "created", "planned", "refused", "rejected"}
  /\ profile \in Profile
  /\ selection \in SequencesUpTo(Config, MaxSelection)
  /\ topology \in SequencesUpTo(Interface, MaxTopology)
  /\ parameters = [c \in Config |-> parameters[c]]

SelectionResolves ==
  phase # "selection" => ResolveAccepts(selection, profile)

TopologyFits ==
  phase \in {"service", "manifest", "created", "planned"} =>
    TopologyAccepts(topology, CombineNeeds(Chosen(selection)))

PlanIsSorted == phase = "planned" => plan = BuildPlan(Chosen(selection))

SelectionInv ==
  SelectionTypes /\ SelectionResolves /\ TopologyFits /\ PlanIsSorted

LEMMA EmptyIsAnswer ==
  ASSUME NEW S, NEW n \in Nat
  PROVE  <<>> \in SequencesUpTo(S, n)
<1>1. <<>> \in [1 .. 0 -> S] /\ 0 \in 0 .. n
  BY SMT
<1> QED
  BY <1>1 DEF SequencesUpTo

LEMMA SelectionStarts == SelectionInit => SelectionInv
BY EmptyIsAnswer, BoundAssumption
   DEF SelectionInit, SelectionInv, SelectionTypes, SelectionResolves,
       TopologyFits, PlanIsSorted, NoParameters

LEMMA SelectionStays ==
  SelectionInv /\ [SelectionNext]_selectionVars => SelectionInv'
<1> SUFFICES ASSUME SelectionInv, [SelectionNext]_selectionVars
             PROVE  SelectionInv'
  OBVIOUS
<1> USE DEF SelectionInv, SelectionTypes, SelectionResolves, TopologyFits,
            PlanIsSorted
<1>1. CASE AskConfigurationSelection
  <2>1. PICK s \in SequencesUpTo(CompatibleConfigurations(profile), MaxSelection) :
          ResolveAccepts(s, profile) /\ selection' = s
    BY <1>1 DEF AskConfigurationSelection
  <2>2. CompatibleConfigurations(profile) \subseteq Config
    BY CatalogAssumption DEF CompatibleConfigurations
  <2>3. s \in SequencesUpTo(Config, MaxSelection)
    BY <2>2 DEF SequencesUpTo
  <2> QED
    BY <1>1, <2>1, <2>3 DEF AskConfigurationSelection
<1>2. CASE AskTopology
  BY <1>2 DEF AskTopology
<1>3. CASE RequirementsExceedMachine
  BY <1>3 DEF RequirementsExceedMachine
<1>4. CASE ValidateManifest
  BY <1>4 DEF ValidateManifest
<1>5. CASE Done \/ UNCHANGED selectionVars
  BY <1>5 DEF Done, selectionVars
<1>6. CASE AskHardeningRiskParameters
  BY <1>6 DEF AskHardeningRiskParameters
<1>7. CASE AskActiveDirectoryParameters
  <2>1. parameters' = [c \in Config |-> parameters'[c]]
    BY <1>7 DEF AskActiveDirectoryParameters
  <2> QED
    BY <1>7, <2>1 DEF AskActiveDirectoryParameters
<1>8. CASE PlanExecution
  BY <1>8 DEF PlanExecution
<1> QED
  BY <1>1, <1>2, <1>3, <1>4, <1>5, <1>6, <1>7, <1>8 DEF SelectionNext

LEMMA SelectionInductive == SelectionSpec => []SelectionInv
BY SelectionStarts, SelectionStays, PTL DEF SelectionSpec

(* The parameters the Forge fills in are of the declared types: the tier   *)
(* by the parser's rule for risk parameters, those of Active Directory by  *)
(* its entry in the catalogue.                                             *)
LEMMA RiskFits ==
  ASSUME NEW c \in Config
  PROVE  ParametersAccept(c, RiskAnswer(c))
<1>1. RiskParameter[c] # NoParameter =>
        /\ RiskParameter[c] \in DOMAIN Declared[c]
        /\ Declared[c][RiskParameter[c]] = "str"
  BY CatalogAssumption DEF CatalogParses
<1> QED
  BY <1>1 DEF ParametersAccept, RiskAnswer

LEMMA UpdateFits ==
  ASSUME NEW c, NEW old, NEW new,
         ParametersAccept(c, old), ParametersAccept(c, new)
  PROVE  ParametersAccept(c, Updated(old, new))
BY DEF ParametersAccept, Updated

ParametersFit ==
  phase \in {"topology", "service", "manifest", "created", "planned"} =>
    \A c \in Chosen(selection) : ParametersAccept(c, parameters[c])

AnswersInv == ParametersFit /\ phase # "rejected"

LEMMA ChosenAreSelectable ==
  ASSUME SelectionInv, phase # "selection"
  PROVE  \A c \in Chosen(selection) :
           c \in Config /\ c \in Implemented /\ <<c, profile>> \in Supported
BY CatalogAssumption
   DEF SelectionInv, SelectionResolves, ResolveAccepts,
       CompatibleConfigurations, CatalogParses

(* Active Directory needs a static internal interface of its own, so the   *)
(* combined needs that the topology satisfies ask for one.                 *)
LEMMA DirectoryIsBound ==
  ASSUME SelectionInv, DirectoryFits, phase = "service",
         ActiveDirectory \in Chosen(selection)
  PROVE  CountInterfaces(topology, IsStaticInternal) > 0
<1>1. Chosen(selection) \in SUBSET Config /\ IsFiniteSet(Chosen(selection))
  BY AnswersAreFinite, BoundAssumption DEF SelectionInv, SelectionTypes
<1>2. /\ TopologyAccepts(topology, CombineNeeds(Chosen(selection)))
      /\ topology \in SequencesUpTo(Interface, MaxTopology)
  BY DEF SelectionInv, SelectionTypes, TopologyFits
<1>3. CountInterfaces(topology, IsStaticInternal)
        >= Needs[ActiveDirectory].staticInternal
  BY <1>1, <1>2, CombinationMeetsEach
<1>4. /\ Needs[ActiveDirectory].staticInternal > 0
      /\ Needs[ActiveDirectory].staticInternal \in Nat
  BY <1>1, CatalogAssumption DEF DirectoryFits, Requirement
<1>5. CountInterfaces(topology, IsStaticInternal) \in Nat
  BY <1>2, CountsAreNumbers, BoundAssumption
<1> QED
  BY <1>3, <1>4, <1>5

(* What the machine creation and the executor look at before they refuse.  *)
LEMMA AnswersAreAccepted ==
  ASSUME SelectionInv, AnswersInv, BenchmarksFit,
         phase \in {"manifest", "created"}
  PROVE  ManifestAccepted /\ PlanAccepts(Chosen(selection))
<1>1. ResolveAccepts(selection, profile)
  BY DEF SelectionInv, SelectionResolves
<1>2. \A c \in Chosen(selection) : ParametersAccept(c, parameters[c])
  BY DEF AnswersInv, ParametersFit
<1>3. TopologyAccepts(topology, CombineNeeds(Chosen(selection)))
  BY DEF SelectionInv, TopologyFits
<1>4. \A c \in Chosen(selection) : HardeningAccepts(c, profile)
  BY ChosenAreSelectable DEF BenchmarksFit, SelectionInv, SelectionTypes
<1>5. PlanAccepts(Chosen(selection))
  BY ChosenAreSelectable DEF PlanAccepts
<1> QED
  BY <1>1, <1>2, <1>3, <1>4, <1>5 DEF ManifestAccepted

LEMMA AnswersStay ==
  ASSUME BenchmarksFit, DirectoryFits
  PROVE  SelectionInv /\ AnswersInv /\ [SelectionNext]_selectionVars
           => AnswersInv'
<1> SUFFICES ASSUME SelectionInv, AnswersInv, [SelectionNext]_selectionVars
             PROVE  AnswersInv'
  OBVIOUS
<1>1. CASE AskConfigurationSelection
  BY <1>1 DEF AskConfigurationSelection, AnswersInv, ParametersFit
<1>2. CASE AskHardeningRiskParameters
  <2>1. \A c \in Chosen(selection) : c \in Config
    BY <1>2, ChosenAreSelectable DEF AskHardeningRiskParameters
  <2>2. \A c \in Chosen(selection) : parameters'[c] = RiskAnswer(c)
    BY <1>2, <2>1 DEF AskHardeningRiskParameters
  <2>3. \A c \in Chosen(selection) : ParametersAccept(c, parameters'[c])
    BY <2>1, <2>2, RiskFits
  <2> QED
    BY <1>2, <2>3
       DEF AskHardeningRiskParameters, AnswersInv, ParametersFit
<1>3. CASE AskTopology \/ RequirementsExceedMachine
  BY <1>3 DEF AskTopology, RequirementsExceedMachine, AnswersInv, ParametersFit
<1>4. CASE AskActiveDirectoryParameters
  <2>1. phase = "service" /\ phase' = "manifest" /\ selection' = selection
    BY <1>4, DirectoryIsBound DEF AskActiveDirectoryParameters
  <2>2. \A c \in Chosen(selection) : ParametersAccept(c, parameters[c])
    BY <2>1 DEF AnswersInv, ParametersFit
  <2>3. ASSUME NEW c \in Chosen(selection)
        PROVE  ParametersAccept(c, parameters'[c])
    <3>1. CASE parameters' = parameters
      BY <3>1, <2>2
    <3>2. CASE parameters' # parameters
      <4>1. /\ ActiveDirectory \in Chosen(selection)
            /\ parameters' = [parameters EXCEPT
                 ![ActiveDirectory] = Updated(@, DirectoryAnswers)]
        BY <1>4, <3>2 DEF AskActiveDirectoryParameters
      <4>2. ActiveDirectory \in Config /\ c \in Config
        BY <2>1, <4>1, ChosenAreSelectable
      <4>3. parameters'[c] = IF c = ActiveDirectory
                             THEN Updated(parameters[c], DirectoryAnswers)
                             ELSE parameters[c]
        BY <4>1, <4>2 DEF SelectionInv, SelectionTypes
      <4>4. ParametersAccept(ActiveDirectory, DirectoryAnswers)
        BY <4>2 DEF DirectoryFits
      <4> QED
        BY <2>2, <4>3, <4>4, UpdateFits
    <3> QED
      BY <3>1, <3>2
  <2> QED
    BY <2>1, <2>3 DEF AnswersInv, ParametersFit
<1>5. CASE ValidateManifest
  BY <1>5, AnswersAreAccepted DEF ValidateManifest, AnswersInv, ParametersFit
<1>6. CASE PlanExecution
  BY <1>6, AnswersAreAccepted DEF PlanExecution, AnswersInv, ParametersFit
<1>7. CASE Done \/ UNCHANGED selectionVars
  BY <1>7 DEF Done, selectionVars, AnswersInv, ParametersFit
<1> QED
  BY <1>1, <1>2, <1>3, <1>4, <1>5, <1>6, <1>7 DEF SelectionNext

(* The question for Active Directory, the machine creation and the         *)
(* executor never refuse what the questions accepted, for every catalogue  *)
(* the parser accepts, if its benchmarks have a plan for the machines they *)
(* may be selected for, and if Active Directory declares and needs what    *)
(* the Forge takes for granted: conditions no code checks beforehand.      *)
THEOREM AnswersStand ==
  BenchmarksFit /\ DirectoryFits =>
    (SelectionSpec => []AnswersSurviveValidation)
<1> SUFFICES ASSUME BenchmarksFit, DirectoryFits
             PROVE  SelectionSpec => []AnswersSurviveValidation
  OBVIOUS
<1>1. SelectionInit => AnswersInv
  BY DEF SelectionInit, AnswersInv, ParametersFit
<1>2. SelectionInv /\ AnswersInv /\ [SelectionNext]_selectionVars
        => AnswersInv'
  BY AnswersStay
<1>3. AnswersInv => AnswersSurviveValidation
  BY DEF AnswersInv, AnswersSurviveValidation
<1> QED
  BY <1>1, <1>2, <1>3, SelectionInductive, PTL DEF SelectionSpec

(* The topology of every manifest satisfies each selected configuration on *)
(* its own, however the needs of all of them were combined.                *)
THEOREM NeedsAreMet == SelectionSpec => []EveryNeedIsMet
<1>1. SelectionInv => EveryNeedIsMet
  <2> SUFFICES ASSUME SelectionInv,
                      phase \in {"manifest", "created", "planned"},
                      NEW c \in Chosen(selection)
               PROVE  /\ CountInterfaces(topology, IsStaticInternal)
                           >= Needs[c].staticInternal
                      /\ TopologyAccepts(topology, Needs[c])
    BY DEF EveryNeedIsMet
  <2>1. Chosen(selection) \in SUBSET Config /\ IsFiniteSet(Chosen(selection))
    BY AnswersAreFinite, BoundAssumption DEF SelectionInv, SelectionTypes
  <2>2. /\ TopologyAccepts(topology, CombineNeeds(Chosen(selection)))
        /\ topology \in SequencesUpTo(Interface, MaxTopology)
    BY DEF SelectionInv, SelectionTypes, TopologyFits
  <2> QED
    BY <2>1, <2>2, CombinationMeetsEach
<1> QED
  BY <1>1, SelectionInductive, PTL

(* In every plan each configuration stands behind those it requires, if    *)
(* the order numbers of the catalogue agree with its requirements, as those *)
(* of the shipped one do.                                                  *)
THEOREM PlanKeepsRequirements ==
  OrdersAgree => (SelectionSpec => []RequirementsComeFirst)
<1> SUFFICES ASSUME OrdersAgree
             PROVE  SelectionSpec => []RequirementsComeFirst
  OBVIOUS
<1>1. SelectionInv => RequirementsComeFirst
  <2> SUFFICES ASSUME SelectionInv, phase = "planned",
                      NEW i \in DOMAIN plan, NEW r \in Requires[plan[i]]
               PROVE  \E j \in 1 .. i - 1 : plan[j] = r
    BY DEF RequirementsComeFirst
  <2> DEFINE cs == Chosen(selection)
  <2>1. cs \in SUBSET Config /\ IsFiniteSet(cs)
    BY AnswersAreFinite, BoundAssumption DEF SelectionInv, SelectionTypes
  <2>2. plan = BuildPlan(cs) /\ \A c \in cs : Requires[c] \subseteq cs
    BY DEF SelectionInv, SelectionResolves, PlanIsSorted, ResolveAccepts
  <2> HIDE DEF cs
  <2> QED
    BY <2>1, <2>2, RequiredIsEarlier
<1> QED
  BY <1>1, SelectionInductive, PTL

=============================================================================
