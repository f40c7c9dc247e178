# Operation Crucible: TLA+ models and proofs

Operation Crucible builds one VirtualBox virtual machine per run of its
interactive program `crucible.py` (the Forge): it asks what to build, writes
manifests, installs a guest operating system without attendance, waits for the
guest to bootstrap itself, pins its identity and applies configurations with
Ansible. This directory holds TLA+ modules for the parts of it where order,
failure, restarts and shared state decide whether the result is right, the TLC
configurations that check them, and TLAPS proofs. Paths below are relative to
the root of the source tree.

## 1. The system: inventory

| part | code | state it keeps | operations | what is hard |
|---|---|---|---|---|
| Forge | `crucible.py` `main` | manifests, inventory, and everything below | one run: ask, create identity, lease, write, create, wait, configure, recheck | a run fails or dies half way, nothing is cleaned up, the next run finds the rest |
| Management IPAM | `crucible/networking/management.py` | `.crucible/state/management-ipam.yml` | allocate, release | crashes between file operations, wrap-around of the cursor, files of other versions |
| SSH identities | `crucible/ssh/identity.py` | a directory per machine and serial, a `known_hosts` | create, load, reset known hosts | partial creation; the installer answers with another host key |
| VirtualBox provider | `crucible/hypervisors/virtualbox.py` | VirtualBox's registry, disks, host-only interfaces | create, attach, start, stop, delete, snapshot | roll-back on failure, names taken meanwhile, calls cut off by a timeout |
| Host-only interfaces | the same file, `ensure_management_interface` | the host's interfaces and their addresses | reuse, adopt, create and address one | an interface left without an address, one made by somebody else meanwhile |
| Machine creation | `crucible/cli/create_machine.py` | seed and answer media | the steps from manifest to running machine | failure between steps, files of an earlier run, keys typed at a screen nobody looks at |
| Manifests | dialogue of `crucible.py`, `crucible/validation/hardware.py`, `load_machine_definition` | one file per name | ask, build, validate twice | what was accepted once refused later; adapters in one slot |
| Preseed server | `crucible/provisioning/preseed_server.py` | a socket, an event, threads | start, serve, wait, stop | a fetch racing the timeout and the stop, silent clients |
| Linux bootstrap | `installers/linux`, first-boot unit of `kali_preseed.py` | marker files in the guest | stages, success or failure marker | polled while it runs; power loss |
| Windows bootstrap | `installers/windows/bootstrap.ps1` | markers, resume task, reboot count | one pass per boot | restarts and power loss between marker, task and restart; a bounded loop of updates |
| Readiness | `crucible.py` `verify_*_machine_ready` | pinned host key, deadlines | port, authentication, markers, Ansible ping | two reads of one probe, the guest changing in between |
| Configuration catalogue | `crucible/configurations/catalog.py`, dialogue of `crucible.py` | none | select, combine requirements, validate, plan | order numbers against `requires`; two validations that must agree |
| Configuration executor | `crucible/configurations/executor.py`, `hardening/reporting.py` | execution state, hardening reports | one playbook per configuration | crash between two files and inside one; records of an earlier machine of the name |
| Hardening planner | `crucible/hardening` | none | catalogue entry, profile, exceptions, plan | rules split between parser and planner; capabilities against tags |
| Network layout | `crucible/networking/layout.py`, `topology.py`, MACs in `management.py` | none | slots, addresses, MACs | the limit of eight slots |
| Image detector | `crucible/provisioning/image_detector.py` | a cache file of hashes | scan, hash, classify, choose | files that change under the scan, two scans at once, evidence that contradicts the name |
| Installer generators | `ubuntu_autoinstall.py`, `kali_preseed.py`, `windows_unattend.py` | rendered files, ISOs | render | none in their control |
| Ansible roles, benchmark data | `ansible`, `hardening` | the guest | tasks | outside this program |

**How they interact.** The Forge calls everything in one process and one
thread, apart from the threads of the preseed server. It shares four things
with its own past and future runs, always by machine name: the VirtualBox
registry and base folder, the leases, the manifests (one file per name) and the
identities (one directory per name and serial). It shares the registry with the
operator, who uses VirtualBox at the same time. With the guest it communicates
by polling: marker files seen through SSH or PSRP. With Ansible it communicates
by a process that ends well, ends badly or is killed. Catalogue, planner and
executor are pure functions of configuration files in front of a loop of
playbooks.

**What makes them correct.** Leases: a granted address is on disk, stable and
nobody else's. Forge: files describe machines, a run touches only the machine
it made. Bootstraps: a completion marker is true, final and reached; a stop is
visible. Readiness: "ready" is said of a bootstrapped guest, and the key pinned
is its own. Executor: no record claims more than happened to this guest, and no
change goes unrecorded. Catalogue: every requirement met and earlier in the
plan; what was accepted once is not refused later. Planner: the profile fits,
services survive. Preseed server: the wait ends, and "fetched" is earned.
Machine creation: success means a machine with everything its manifest asked
for, made by this run; all machines meet on one management network, and it is
the program's own; a failed run leaves nothing that stops the next one for a
reason that is none. Manifests: what the questions accept is accepted, and no
two adapters share a slot. Image detector: a checksum from the cache is that of
the medium, and the name of a file decides.

## 2. Modules

| module | models | composed with |
|---|---|---|
| `LeaseTable` | abstract: a partial injective table of leases | implemented by `ManagementIPAM` |
| `ManagementIPAM` | the state file, its temporary file, allocate and release step by step, crashes | `LeaseTable` through the refinement `ImplementsLeaseTable` |
| `Forge` | successive runs, VirtualBox, the operator, the files by name | states what it needs of `ManagementIPAM`, the readiness modules and the executor as single steps |
| `LinuxBootstrap`, `LinuxReadiness` | the guest's script; the controller beside it | `LinuxReadiness` extends `LinuxBootstrap` |
| `WindowsBootstrap`, `WindowsReadiness` | the same for Windows | `WindowsReadiness` extends `WindowsBootstrap` |
| `ConfigurationCatalog` | the rules of the catalogue and of the benchmark file as operators | extended by `ConfigurationSelection`, used for the plans of `MCConfigurationExecutor` |
| `ConfigurationSelection` | the questions and the parameters they yield, the validations by machine creation and by the executor, the plan | |
| `ConfigurationExecutor` | the loop over the plan, the two kinds of file, the playbooks | |
| `HardeningPlanner` | catalogue entry and manifest to plan | |
| `PreseedServer` | accept loop, handlers, event, with block, clients | the wait `Fetch` of `MachineCreation` in detail |
| `NetworkLayout` | slots of the adapters and what follows from a slot, as operators | extended by `MachineManifest` and `MachineCreation` |
| `MachineManifest` | the hardware and interface questions, the manifest built or written by hand, its validations | its accepted manifests are the jobs of `MachineCreation` |
| `HostOnlyNetwork` | the search for the management interface, call by call, beside the operator | extended by `MachineCreation` |
| `Keystrokes` | the keys each start function sends, as operators | extended by `MachineCreation` |
| `MachineCreation` | successive runs of `create_machine` over the VirtualBox provider | `MachineLifecycle` through the refinement `ImplementsLifecycle` |
| `MachineLifecycle` | abstract: a machine is nothing, partial or whole, and is worked on by the run that registered it | implemented by `MachineCreation` |
| `ImageDetector` | scans over files that change, the hash cache, the choice of a medium | the search that precedes `Begin` of `MachineCreation` |

`MC*` modules give constants for TLC, `*_proof` modules hold the proofs:
`Forge_proof` those about `Forge` and its question for configurations
(`ConfigurationSelection`), `MachineInputs_proof` those about what machine
creation is given (`ImageDetector`, `PreseedServer`, `MachineManifest`), each
other one those of the module it is named after. For this reason specification
and variables of the modules proved about together have names of their own
(`SelectionSpec`, `ServerSpec`, `ManifestSpec`).
Definitions whose names end in `Mutant` stand just before the definition they
spoil: a run in which the spoilt form takes its place must fail, which shows
that the property depends on the code.

### How state and actions correspond to the code

* **ManagementIPAM.** `stateFile` and `temporary` are the two paths of
  `_write_state`; `pc` is the position in the call; `granted` is what callers
  were told. `OpenTemporary`, `DumpTemporary`, `ReplaceStateFile` and `Return`
  are the file operations in their order, `Crash` may come between any two.
  `ValidState` is `_validate_state` on everything a lease file may hold,
  `Scan` the circular loop and `Candidate` its closed form. Addresses are numbers, wrap-around included.
* **Forge.** `pc` names the next call of `main`; `job` is the manifest's name,
  serial and family. `machine` holds every machine there is, `registered` those
  VirtualBox knows, `leftover` the directories without a settings file: a
  machine can be set aside (`unregistervm` without `--delete`) and registered
  again. `RegisterMachine` and `ConfigureHardware`/`RollBack` are `create_vm`
  before and inside its `try`; `createvm` may take effect although the call
  timed out. `StopRun` is any exception and any kill: `main` cleans nothing up.
* **LinuxBootstrap.** The stages of `bootstrap.sh` in order, `set -e` and the
  EXIT trap; the Ubuntu installer runs it once in the target, the Kali unit at
  each boot while `bootstrap-complete` is missing and only under its two
  conditions. `silent` says that the last run failed without a marker: before
  the trap was set (`EndsEarly`), or because the trap could not write it
  (`RecordFails`). The shell creates the completion marker before `date` runs, so a
  failing `date` leaves both markers: modelled, and why the two markers do not
  exclude each other on Linux.
* **WindowsBootstrap.** Volatile position, and on disk the script's copy, the
  resume task, the reboot count and the markers. Updates may be published at
  any time; the two limits of the script bound passes and restarts.
* **LinuxReadiness / WindowsReadiness.** One controller action per remote call.
  The two reads of a marker probe are separate, the guest moves in between. A
  deadline may pass at any poll.
* **ConfigurationExecutor.** A file is opened (truncated) and dumped in two
  steps; a controller that dies in between leaves `Torn`. Files persist when
  the next machine of the name is forged with a fresh serial.
* **ConfigurationSelection.** Each question accepts exactly the answers the
  code accepts; refused answers are asked again, so they are no steps.
  `ManifestAccepted` is what both later programs ask: the selection resolves,
  every parameter is declared and of the type of its default, the topology
  suffices, and each hardening's benchmark is implemented, supports the profile
  and yields one benchmark profile with controls. The executor's plan also
  refuses a configuration without an implementation. The Active Directory
  question binds the service to a static internal interface and ends the Forge
  when there is none. Any refusal of accepted answers is the phase `rejected`.
* **HardeningPlanner.** `Load`, `Resolve`, `Check` and the loop `Place` in the
  order of the code; every refusal is the one phase `error`, since the program
  treats them alike.
* **PreseedServer.** Bound socket and loop thread, one handler position per
  client, `handed` as history of completed writes. Between the write and
  `event.set()` there is a state, and a socket may take the payload of a client
  that just left.
* **MachineManifest.** `AskHardware`, `AskCount`, `AskInterface` are the
  questions, `BuildManifest` the dictionary the Forge writes or one an operator
  typed into a file. `LoadManifest` is the whole of `load_machine_definition`:
  amounts against limits, the layout, addresses of static interfaces, the
  requirements of the profile, and what the Kali installer needs. Amounts,
  limits and the width of an address are constants; a field left out is 0.
* **HostOnlyNetwork.** `netPc` is the position in
  `ensure_management_interface`. An interface is absent, without an address,
  elsewhere, inside the management network, at the old address or at the
  address. `foreign` is history: who made it. The name of a new interface is
  found by comparing two listings, so one the operator makes in between counts.
* **MachineCreation.** `Plan` is the sequence of modifications between
  registration and start, in the order of the code, and `todo` what is left of
  it: parts (controller, disk, Secure Boot steps, media) and roles of adapters.
  `Configure` performs the next one, or fails before or after its effect;
  `RollBack` undoes a registration only if the first modification failed, as
  the code does. Disk files and media carry the number of the run that made
  them. `create_disk` refuses an existing file; the installation medium of a
  name is rebuilt before `createvm` can find the name taken
  (`create_machine.py:519`), which is modelled.
* **Keystrokes.** The keys of each family in the order of the start functions.
  `MachineCreation` sends them one call at a time, any of which may fail. What
  a screen makes of them is not modelled, see section 6.
* **ImageDetector.** A scan reads the cache, then looks at each file with one
  action per `stat`, tool, read of the contents and record, and truncates and
  rewrites the cache. A hash stands for the version read; reading across a
  change gives `Mixed`.

## 3. What is checked

`tlc -config <cfg> <module>.tla` runs each.

| run | instance | shows |
|---|---|---|
| `IpamRuns` | 4 machines, 3 addresses, no file or every content of one | grants are on disk and distinct, the scan finds a free address exactly when there is one, a fresh pool is used once before anything is reused, refinement of `LeaseTable` |
| `ForgeRuns` | 2 names, 3 serials, 2 addresses, symmetry on all three | files describe machines, addresses differ, foreign machines survive, playbooks stay on their machine |
| `LinuxFaults` | 2 power losses, both distributions, any stage may fail, fair | ready means bootstrapped, the installer's key is never pinned, the bootstrap comes to rest and the controller gets its verdict without a deadline, unless the last run could not leave a marker |
| `LinuxRepositories` | no fault | **violated**, see findings |
| `WindowsFaults` | 2 passes, 2 reboots, 1 update, 2 faults, fair | completion means updated and is final, restarts are bounded, stops are visible, ready means complete; without a fault the bootstrap ends and the verdict is reached |
| `SelectionShipped` | the shipped catalogue with its benchmarks for 4 profiles, and three demanding additions; 4 numbers, 3 interfaces | requirements earlier in the plan, each need met; what the questions accepted, with the parameters the Forge filled in, is refused neither by machine creation nor by the executor |
| `ExecutorSafety` | two machines under one name, plans of a small catalogue | records and reports never claim more than happened; changes are recorded; the first failure stops |
| `HardeningPlans` | 2 machines, 2 profiles, 4 controls, every catalogue entry, 2 exceptions | the profile fits the machine; no service and no management channel is switched off |
| `PreseedFetch` | installer and browser, fair | "fetched" means served; the block ends |
| `ManifestQuestions` | 4 slots, 2 profiles, all answers, thousands of written manifests | what the questions accept is accepted later; no accepted manifest has two adapters in one slot, one beyond the last, or points the Kali installer at the wrong one |
| `MachineRuns` | 2 names, 5 manifests, 2 interfaces, 2 runs, 1 failed call, 1 intervention; symmetry on interfaces | success means equipped, one management interface and the program's own, an undisturbed run succeeds, refinement of `MachineLifecycle` |
| `ImageScans` | 2 scanners, 2 files, 3 images, 2 contents, 3 changes, 2 scans | cached hashes are current, the name decides |

**Bounds and why they are enough.** Two machines, names or clients are what it
takes for one to disturb the other; four machines exhaust the three addresses of
the IPAM run and one is left to wait for a release. Three serials let a name be used, failed and
used again while another machine lives. Two addresses over two names let a
renamed machine and its successor compete for one. A pool of three has a
first, a last and a middle address, so the cursor wraps in every way. Two
faults let a power loss hit the recovery from the first. Two passes and two
reboots let each limit be met, and be met one short of. Two exceptions give the
duplicate, the unknown and the inapplicable one. In `MachineRuns` one failure
and one intervention hit the first run or the second, and the second meets what
the first left; the five manifests take each branch of `Plan` both ways, and with
three slots a machine with a topology interface uses all of them. Two scans that
overlap or follow one another, and three changes, let a file change under the
hash, between scan and scan and once more. Four slots leave two interfaces to
collide with the two of the program. Every bound is a constant of
its module, and the theorems of section 4 hold for all its values.

The symmetry of `MachineRuns` is over interfaces, which neither the properties
nor the abstract specification name; all its properties are safety properties.

**Fairness.** Only three specifications have it. In the readiness modules the
guest's processor runs on (`Step`, weakly), its remoting service comes up after
boot, and the controller's loop goes on; faults are bounded, no deadline has to
pass, and neither update nor repository has to answer in a particular way. In
`PreseedServer` the threads of the program are scheduled and its clock runs;
nothing is assumed of clients, which is the point of `BlockEnds`. No strong
fairness is used. `VerdictIsReached` on Linux is about installed guests: a
bootstrap that fails inside the Ubuntu installer leaves its marker in a target
nobody boots, and the controller then ends by its deadline only.

Deadlock is checked in all runs. Where the program is finished, the module has
an action that says so (`ServerRests`, `Done`).

## 4. What is proved

TLAPS checks, for every value of the constants:

| theorem | says |
|---|---|
| `ManagementIPAM_proof!GrantDurability`, `GrantDistinctness`, `FreshFirst`, `ScanFindsCandidate`, `IpamImplementsLeaseTable` | everything `IpamRuns` checks, for pools of any size |
| `ManagementIPAM_proof!FileValidity`, `LeaseStability` | a valid file is replaced only by a valid one and an invalid one never; a lease on disk never becomes another address |
| `Forge_proof!RecordsAreKept`, `AddressesStayDistinct`, `ConfigurationStaysHome`, `OthersSurvive` | the four properties of `ForgeRuns` |
| `Forge_proof!AnswersStand`, `NeedsAreMet`, `PlanKeepsRequirements` | the three properties of `SelectionShipped` for every catalogue and selection: the first if benchmarks and the entry of Active Directory fit, the last one if order numbers agree with requirements |
| `LinuxReadiness_proof!ReadyIsTrue`, `OnlyInstalledIsPinned`, `CompletionIsEarned`, `StopsAreSignalled`, `CompletionIsFinal` | markers, key and verdict for any number of power losses; `CompletionIsEarned`, `StopsAreSignalled` and `CompletionIsFinal` state properties of no run |
| `WindowsReadiness_proof!ReadyIsTrue`, `CompletionIsUpdated`, `CompletionHasAdditions`, `MarkersDisagreeNever`, `ResumeFindsItsFiles`, `RestartsHaveALimit`, `StopsAreSignalled`, `CompletionIsFinal` | the same for Windows, for any limits and any number of faults and updates; additions, markers and resume files are properties of no run |
| `ConfigurationExecutor_proof!RecordsAreTrue`, `ChangesAreRecorded`, `ReportsAreTrue`, `PlanIsFollowed` | the state file and the reports against the guest, for any plans and number of forges |
| `HardeningPlanner_proof!ProfilesFit`, `HardeningSparesServices`, `PlanIsPartition` | both properties of the run, and that the plan's lists partition the controls |
| `MachineInputs_proof!CacheIsTrue`, `NamesDecide` | the two properties of `ImageScans`, for any number of scanners, files, versions and crashes |
| `MachineInputs_proof!ServedBeforeGoingOn` | the verdict, for any number of clients |
| `MachineInputs_proof!AnswersMakeMachines`, `SlotsAreOwn` | the two properties of `ManifestQuestions`, for any profiles, limits, answers, manifests and number of slots; the first one for profiles whose defaults meet their own requirements |
| `MachineCreation_proof!OneNetwork`, `OwnNetwork` | one management interface, never one the operator made, for any number of interfaces, runs, failures and interventions |
| `MachineCreation_proof!SuccessIsEquipped` | a run that reports success leaves a machine of its own with all the manifest asked for, its own disk and medium and the management network, for any manifests |
| `MachineCreation_proof!UndisturbedSucceeds` | a run no failed call and no intervention disturbs, and that found name, disk file and network free, does not fail, whatever earlier runs left behind |
| `MachineCreation_proof!LifeIsKept` | `create_machine` implements the abstract life of a machine, `ImplementsLifecycle` |
| `TypeCorrect` in all but the executor and planner proofs, `ServerTypeCorrect` | type invariants, which for that reason are no invariants of the runs |

With these every safety property of the runs is a theorem, and both refinements.

The assumptions are the named `ASSUME`s of the modules: shapes of constants and
that sentinels (`Torn`, `NoFile`, ...) are none of the values they stand beside;
TLC evaluates them in every run. `FreshFirst` also assumes that no earlier state
file exists: an old file may have a cursor anywhere. Three theorems have
hypotheses of their own, because no code enforces what they rest on:
`PlanKeepsRequirements` has `OrdersAgree` (the order numbers put each
configuration behind those it requires); `AnswersStand` has `BenchmarksFit`
(whatever profile a configuration may be selected for, its entry in
`config/hardening.yml` has one plan for) and `DirectoryFits` (Active Directory
declares the parameters the Forge writes and needs the static internal interface
the Forge binds it to); and `AnswersMakeMachines` has `ProfilesFit` (the defaults
of a profile lie within the limits and meet its requirements). All hold of the
files shipped (`config/configurations.yml`, `config/hardening.yml`,
`profiles/os`), and the `MC` modules of the two runs assume them of their
constants, so that TLC evaluates them too.

**The inductive invariants, and why they are needed.**

* `ManagementIPAM`: what a call is about to write is valid and differs from the
  file in one lease; otherwise a crash after `ReplaceStateFile` would not be
  known to leave a valid table. The refinement maps the table to the leases on
  disk, so the step that implements an allocation is the `os.replace`.
* `Forge`: leases are distinct; the manifest, identity and lease of the run's
  name are its own from the step that writes them on; the name was free, so the
  files it overwrites describe no machine that still exists; the machine under
  construction is the run's; every machine not renamed is described by the
  files of its name; a key belongs to one name and serial. The properties
  concern finished machines and are not inductive without what is known half
  way through a run.
* Bootstraps: a stage counter or position implies the stages behind it, a
  marker implies the position that wrote it, and the resume task implies the
  files it needs; the controller's half says what each of its positions has
  already seen, and that what it saw stays true.
* `ConfigurationExecutor`: what is pending for the file is true of the guest,
  the file is that of this serial or older, and the position in the plan
  separates applied from untouched. For the reports: a report of success is of a
  configuration the executor has left behind, whose entry was written before
  the report and is never touched again.
* `HardeningPlanner`: defaults that got past the parser apply; each list holds
  only controls that are done with and belong there; each applicable control is
  placed or still to do.
* `PreseedServer`: a handler behind its write has handed the file over, and the
  event is set only by such a handler.
* `ImageDetector`: whatever a scan holds, in the cache it read and in the one it
  is about to write, is true or about a time of modification the file no longer
  has: an entry with the file's present time has its present hash, and none has
  a time to come. A hash read across a change is recorded under the time noted
  before the read, which is then past.
* `ConfigurationSelection`: selection and topology satisfy the validation from
  the question on, the parameters filled in so far are accepted, and the plan is
  the sorted selection. That an interface for Active Directory is there follows
  from the combined needs; that the tier is accepted from the parser's rule for
  risk parameters; that a plan exists from `BenchmarksFit` and from offering only
  what is implemented. The proofs rest on three
  facts about finite sets: a set of numbers has a largest one (the step to the
  next larger would otherwise map it into itself without its least), the
  combined need is at least each need, and the places of a sorted set are taken
  once each (n configurations have n different places below n).
* `MachineManifest`: the hardware is the profile's or one the questions offer,
  the interfaces asked so far repeat nothing and are no more than were counted,
  and the manifest is the one built of them, or was written. Field by field, what
  the questions accept the validation accepts; and on an accepted manifest the
  layout puts the i-th interface into slot i and the two others behind them,
  whether the manifest names the slots or not.
* The scan of `ManagementIPAM` needs no invariant but an induction over its
  tries, on the least number of tries for which loop and closed form would
  differ: `FoundIsStep` shows that the closed form satisfies the equation of the
  loop, `ScanIsFound` that nothing else does.
* `MachineCreation`: for the network, interfaces of the operator keep their
  address; no interface is managed while one is being made; what was listed
  before is still there when one is made, and then one that is the program's
  own is missing from the list; the interface about to be addressed exists and
  is not the operator's. For the run, `todo` is the end of the plan, and what
  lies in front of it is in effect on the machine: no slot is given two roles, except
  that the Kali adapter turns from NAT into NAT open to the host, which is why
  adapters configured later disturb none configured before. Disk, medium and
  machine are the run's once their step is behind it, and a chosen interface
  that is ready is the managed one. While nothing disturbs the run, name, disk
  file and network stay free until they are needed, the machine is off until it
  is started, and creating an interface adds exactly one to the list; the disk
  is the third step of the plan and the management adapter its last.
  For the life of a machine, the last step of each plan (the management adapter
  or, without network, the last part) does what no other step does: a machine
  that is worked on lacks it until the end, so it is partial until `Configure`
  performs that step, and whole afterwards. Every other step of the program and
  of the operator maps to one of the abstract life or to a stutter.

**Model-checked only.** Liveness: `BootstrapEnds`, `BootstrapSettles`,
`VerdictIsReached` and `BlockEnds` need fairness and ENABLED, which TLAPS does
not reason about here.

## 5. Findings

* `LinuxRepositories`: `README.md:489-491` says the bootstrap does not require a
  package upgrade and is independent of repositories. `bootstrap.sh:222` updates
  and upgrades under `set -e`; a repository that does not answer ends the
  bootstrap with a failure marker.

Not a finding, but to know: `wait_for_fetch` is documented to wait for the
installer, while the event is set for any client that can reach the loopback
port. `FetchedMeansServed` therefore speaks of somebody who was served.

Further behaviour a reader of the models should know, all of it modelled:

* The validation lets a manifest leave slots out, but a Kali manifest written by
  hand without `internet.slot` is refused, because the installer's interface is
  computed from the field and not from the layout.
* An interface left half-made by a failed call stays for ever: no later run
  recognises it as the program's, and each makes a new one.
* On Enter the questions take the defaults of the profile without the range check
  typed answers get; it does no harm as long as the defaults lie in the range
  (`ProfilesFit`, the hypothesis of `AnswersMakeMachines`).
* A run whose name is taken has by then rebuilt the installation medium of the
  machine that has the name.
* `release_management_address` is modelled and checked as an operation of the
  library; nothing in the repository calls it, so in a Forge the pool only
  shrinks.

And two places where comment and keys of the Ubuntu start function disagree, seen
while reading and decided by no run, because the screen is not in this code:
the comment at `virtualbox.py:280-287` has the kernel's line two below the first,
the code goes three down (287-303); and the three characters `---` are removed
with four erases (303, 318-327), the fourth of which no comment explains.

## 6. What is not modelled, and why

`PROJECT.json` lists every component with the reason. In short: text rendering
(answer files, inventories, reports' wording), the parsing of
`configurations.yml`, the semantics of Ansible modules in the guest, benchmark
data, the formats of single fields, and the questions that loop until an answer
fits and touch nothing else. Operations of the VirtualBox provider without a
caller (graceful shutdown, snapshots, detaching media, disabling adapters,
the internal adapter, diagnostics) are left out with them.
Concurrent Forge processes are excluded because `README.md:902` excludes them;
scans of the image detector may run at once, since the detector is a command of
its own.

What the screens make of the keys is left out: when a menu appears, which line
an editor shows where and how long it waits are facts of the media, and the
program never looks. Nothing is claimed about them.

Left out inside modelled parts: parameters and hardening exceptions typed into a
manifest by hand (the run has the manifests the Forge writes; `HardeningPlans`
has exceptions); the operator exchanging or removing a machine between
`createvm` and `startvm` of the run that builds it, so `ForeignMachinesSurvive`
says nothing of that span; the operator removing host-only interfaces during a
run; interfaces reported with the mask 0.0.0.0, which would overlap every
network (`virtualbox.py:1870-1886`; an unaddressed one is taken to be reported
without address); the state of the DHCP server of the host-only
network, file sizes of images, and replacements of an image that keep the
modification time (the cache cannot see those, nor could any test of it). A call
that times out has had its effect, or none, before the program's next call.
Power losses of the host are not modelled, only deaths of the process: the state
files are not synced to disk (`management.py:239`), nor are the execution state
(`executor.py:168`) and the manifests (`crucible.py:4092`) written through a
temporary file.

What the properties excuse: `NoChangeUnrecorded` accepts a torn state file, which
tells a reader that something happened but not what; `NoSilentStop`,
`BootstrapSettles` and `VerdictIsReached` on Linux accept a run that could not
write its failure marker; and no property claims that a Linux guest whose last
`date` failed is not called ready, for its stages have all succeeded.

Two simplifications to know about: in `Forge` a lease is taken in one step
(`ManagementIPAM` shows that its file operations look like one), and guest
installation is one step (`LinuxReadiness` and `WindowsReadiness` show what
the controller may see of it). And `ConfiguresItsOwnMachine` is about Linux
machines: Windows machines authenticate by password, and nothing stops an
operator from giving two machines the same one.

## 7. Plan

Done, in this order: IPAM with its refinement, the configuration catalogue and
executor, Windows and Linux bootstraps with readiness, the Forge over
successive runs, the preseed server, the hardening planner; then the network
layout and manifests, host-only interfaces and machine creation
with its abstract life of a machine, the image detector, and the proofs: of
every safety property of the runs and both refinements.

Next:

1. `ConfigurationCatalog` parsing: relationship checks at load, so that the
   assumptions of `ConfigurationSelection` become results.
2. Manifests written by hand in front of the validations of
   `ConfigurationSelection`, with parameters and exceptions; the question for
   Windows images.
3. An abstract life of a forged machine (asked, built, ready, configured,
   failed) that `Forge` is shown to implement, with `MachineLifecycle` as its
   middle part.
4. Snapshots and graceful shutdown, once something calls them.
