--------------------------- MODULE MachineManifest --------------------------
(***************************************************************************)
(* How a manifest comes to be and what machine creation accepts. The Forge *)
(* asks for hardware and interfaces and builds a manifest from the         *)
(* answers; an operator may also write one by hand. Machine creation       *)
(* validates either against the limits, the adapter layout and the         *)
(* requirements of the profile before it touches VirtualBox.               *)
(* A refused answer is asked for again and changes nothing. Quantities are *)
(* numbers, addresses numbers of Width bits; a field that a manifest leaves *)
(* out is 0.                                                               *)
(***************************************************************************)
EXTENDS NetworkLayout, Sequences

CONSTANTS
  Profile,
  Shape,        \* per profile: its defaults and its requirements
  Limit,        \* per resource: least and largest amount
  Label,        \* names of interfaces
  Network,      \* names of internal networks
  Adapter,      \* adapters the host may offer for bridging
  Ipv4Answer,   \* what may be typed for an interface
  Written,      \* manifests an operator may write
  Width         \* bits of an address

Resource == {"cpus", "memory", "disk", "vram"}

ASSUME ShapeAssumption ==
  /\ Width \in Nat
  /\ \A r \in Resource : Limit[r].least \in Nat /\ Limit[r].largest \in Nat
  /\ \A p \in Profile, r \in Resource :
       Shape[p].hardware.amount[r] \in Nat /\ Shape[p].least[r] \in Nat

(* What is typed for an interface is DHCP or a static address.             *)
ASSUME AnswerAssumption ==
  \A ip \in Ipv4Answer : ip.method \in {"dhcp", "static"}

(* A written manifest lists its interfaces in order; what it says of slots *)
(* is any.                                                                 *)
ASSUME WrittenAssumption ==
  \A m \in Written :
    /\ Len(m.topology) \in Nat /\ DOMAIN m.topology = 1 .. Len(m.topology)
    /\ {m.internet.enabled, m.management.enabled} \subseteq BOOLEAN

VARIABLES phase, profile, hardware, count, topology, manifest, origin

manifestVars == <<phase, profile, hardware, count, topology, manifest, origin>>

Firmware == {"efi", "bios"}

Controller == {"vmsvga", "vboxsvga", "vboxvga"}

NoManifest == <<>>

-----------------------------------------------------------------------------
(* The address of a static interface.                                      *)
SameNetwork(a, b, prefix) ==
  LET size == 2 ^ (Width - prefix) IN a \div size = b \div size

(* subnet_mask_to_prefix: a mask is its prefix length.                     *)
IsPrefix(prefix) == prefix \in 0 .. Width

Usable(address) == address # 0

NoGateway == 2 ^ Width   \* no address

BuildAccepts(ip) ==
  \/ ip.method = "dhcp"
  \/ /\ Usable(ip.address)
     /\ IsPrefix(ip.prefix)
     /\ \/ ip.gateway = NoGateway
        \/ /\ SameNetwork(ip.address, ip.gateway, ip.prefix)
           /\ ip.gateway # ip.address

ValidIpv4(ip) ==
  \/ ip.method = "dhcp"
  \/ /\ ip.method = "static"
     /\ IsPrefix(ip.prefix)
     /\ \/ ip.gateway = NoGateway
        \/ SameNetwork(ip.address, ip.gateway, ip.prefix)

-----------------------------------------------------------------------------
(* What the questions accept.                                              *)
Larger(a, b) == IF a >= b THEN a ELSE b

(* An empty answer is the default, whatever the limits say.                *)
AskInt(default, least, largest) == {default} \cup least .. largest

AskAmount(p, r) ==
  AskInt(Shape[p].hardware.amount[r],
         Larger(Limit[r].least, Shape[p].least[r]), Limit[r].largest)

AskFirmware(p) ==
  IF Shape[p].firmware = "any" THEN Firmware ELSE {Shape[p].firmware}

Graphics ==
  {g \in [controller : Controller, accelerate : BOOLEAN] :
     g.controller = "vboxvga" => ~g.accelerate}

CustomHardware(p) ==
  {[amount |-> a, firmware |-> f, graphics |-> g] :
     a \in {x \in [Resource -> UNION {AskAmount(p, r) : r \in Resource}] :
              \A r \in Resource : x[r] \in AskAmount(p, r)},
     f \in AskFirmware(p), g \in Graphics}

ManifestInit ==
  /\ profile \in Profile
  /\ hardware = Shape[profile].hardware
  /\ count = 0
  /\ topology = <<>>
  /\ \/ phase = "hardware" /\ origin = "asked" /\ manifest = NoManifest
     \/ phase = "manifest" /\ origin = "written" /\ manifest \in Written

AskHardware ==
  /\ phase = "hardware"
  /\ hardware' \in {Shape[profile].hardware} \cup CustomHardware(profile)
  /\ phase' = "count"
  /\ UNCHANGED <<profile, count, topology, manifest, origin>>

(* The selected configurations need some number of interfaces; a need that *)
(* exceeds what can be asked for ends the Forge before this.               *)
AskCount ==
  /\ phase = "count"
  /\ \E least \in 0 .. MaxTopology :
       count' \in AskInt(least, least, MaxTopology)
  /\ phase' = "interfaces"
  /\ UNCHANGED <<profile, hardware, topology, manifest, origin>>

Labels(interfaces) == {interfaces[i].label : i \in DOMAIN interfaces}

Networks(interfaces) ==
  {interfaces[i].network : i \in {j \in DOMAIN interfaces :
                                    interfaces[j].type = "intnet"}}

(* ask_topology_ipv4_configuration: DHCP, or a static address that builds. *)
AskIpv4 == {ip \in Ipv4Answer : BuildAccepts(ip)}

(* An internal network is offered again to the machine that is on it.      *)
AskAttachmentMutant(interfaces) ==
  [type : {"intnet"}, network : Network] \cup [type : {"bridged"}, network : Adapter]

(* A machine joins an internal network once; a host adapter may carry      *)
(* several of its interfaces.                                              *)
AskAttachment(interfaces) ==
  [type : {"intnet"}, network : Network \ Networks(interfaces)]
    \cup [type : {"bridged"}, network : Adapter]

(* One round of ask_topology_interfaces.                                   *)
AskInterface ==
  /\ phase = "interfaces"
  /\ Len(topology) < count
  /\ \E label \in Label \ Labels(topology), a \in AskAttachment(topology),
        ip \in AskIpv4 :
       topology' = Append(topology,
                     [label |-> label, type |-> a.type, network |-> a.network,
                      ipv4 |-> ip])
  /\ UNCHANGED <<phase, profile, hardware, count, manifest, origin>>

(* The list of the host's adapters is read for each bridged interface and  *)
(* may be empty: the Forge ends before a manifest exists.                  *)
NoBridgedAdapter ==
  /\ phase = "interfaces"
  /\ Len(topology) < count
  /\ phase' = "stopped"
  /\ UNCHANGED <<profile, hardware, count, topology, manifest, origin>>

(* The interfaces do not satisfy the configurations: all are asked again.  *)
AskInterfacesAgain ==
  /\ phase = "interfaces"
  /\ Len(topology) = count
  /\ topology' = <<>>
  /\ phase' = "count"
  /\ UNCHANGED <<profile, hardware, count, manifest, origin>>

(* topology_mac_for_machine: one digest per slot of a machine.             *)
TopologyMac(slot) == slot

Built ==
  [hardware   |-> hardware,
   unattended |-> TRUE,
   topology   |-> [i \in DOMAIN topology |->
                     [slot |-> i, mac |-> TopologyMac(i),
                      label |-> topology[i].label, type |-> topology[i].type,
                      network |-> topology[i].network,
                      ipv4 |-> topology[i].ipv4]],
   internet   |-> [enabled |-> TRUE, slot |-> InternetSlot(count, TRUE)],
   management |-> [enabled |-> TRUE, slot |-> ManagementSlot(count, TRUE, TRUE)]]

BuildManifest ==
  /\ phase = "interfaces"
  /\ Len(topology) = count
  /\ manifest' = Built
  /\ phase' = "manifest"
  /\ UNCHANGED <<profile, hardware, count, topology, origin>>

-----------------------------------------------------------------------------
(* validate_machine_hardware.                                              *)
ValidHardware(h) ==
  /\ \A r \in Resource :
       h.amount[r] = 0 \/ h.amount[r] \in Limit[r].least .. Limit[r].largest
  /\ h.firmware \in Firmware
  /\ h.graphics \in Graphics

(* A slot may be left out; one that is given must be that of the layout.   *)
IsSlot(slot, expected) == slot = 0 \/ slot = expected

FitsLayout(m) ==
  /\ Len(m.topology) <= MaxTopology
  /\ LayoutFits(Len(m.topology), m.internet.enabled, m.management.enabled)

(* Labels, addresses and internal networks are used once in a machine.     *)
Repeats(a, b) ==
  \/ a.label = b.label
  \/ a.mac = b.mac
  \/ a.type = "intnet" /\ b.type = "intnet" /\ a.network = b.network

(* The validation takes any slot the manifest names.                       *)
ValidTopologyMutant(m) ==
  \A i, j \in DOMAIN m.topology :
    i # j => ~Repeats(m.topology[i], m.topology[j])

ValidTopology(m) ==
  /\ \A i \in DOMAIN m.topology :
       IsSlot(m.topology[i].slot, i) /\ ValidIpv4(m.topology[i].ipv4)
  /\ \A i, j \in DOMAIN m.topology :
       i # j => ~Repeats(m.topology[i], m.topology[j])

ValidInfrastructure(m) ==
  LET t == Len(m.topology) IN
  /\ m.internet.enabled => IsSlot(m.internet.slot, InternetSlot(t, TRUE))
  /\ m.management.enabled =>
       IsSlot(m.management.slot, ManagementSlot(t, m.internet.enabled, TRUE))

(* validate_profile_hardware, on what the machine gets in the end.         *)
MeetsProfile(m, p) ==
  /\ \A r \in Resource :
       LET amount == IF m.hardware.amount[r] = 0
                     THEN Shape[p].hardware.amount[r]
                     ELSE m.hardware.amount[r]
       IN amount >= Shape[p].least[r]
  /\ Shape[p].firmware \in {"any", m.hardware.firmware}

(* The Kali installer is told its interface by number, so the slot of the  *)
(* internet adapter has to be in the manifest.                             *)
InstallerResolves(m, p) ==
  Shape[p].preseed /\ m.unattended =>
    m.internet.enabled /\ m.management.enabled /\ m.internet.slot \in Slot

Accepts(m, p) ==
  /\ ValidHardware(m.hardware)
  /\ FitsLayout(m)
  /\ ValidTopology(m)
  /\ ValidInfrastructure(m)
  /\ MeetsProfile(m, p)
  /\ InstallerResolves(m, p)

(* The defaults of every profile lie within the limits and meet its own    *)
(* requirements. The questions take a default unchecked, so its author has *)
(* to see to it.                                                           *)
ProfilesFit ==
  \A p \in Profile :
    /\ ValidHardware(Shape[p].hardware)
    /\ \A r \in Resource : Shape[p].hardware.amount[r] >= Shape[p].least[r]
    /\ Shape[p].firmware \in {"any", Shape[p].hardware.firmware}

LoadManifest ==
  /\ phase = "manifest"
  /\ phase' = IF Accepts(manifest, profile) THEN "accepted" ELSE "refused"
  /\ UNCHANGED <<profile, hardware, count, topology, manifest, origin>>

Done ==
  /\ phase \in {"accepted", "refused", "stopped"}
  /\ UNCHANGED manifestVars

ManifestNext ==
  \/ AskHardware
  \/ AskCount
  \/ AskInterface
  \/ NoBridgedAdapter
  \/ AskInterfacesAgain
  \/ BuildManifest
  \/ LoadManifest
  \/ Done

ManifestSpec == ManifestInit /\ [][ManifestNext]_manifestVars

-----------------------------------------------------------------------------
(* What the questions of the Forge accepted is never refused afterwards by *)
(* machine creation, which validates the manifest with other code.         *)
AnswersSurviveHardwareValidation == origin = "asked" => phase # "refused"

(* The adapters machine creation configures: the slot of the manifest, or  *)
(* that of the layout where the manifest leaves it out.                    *)
Given(slot, expected) == IF slot = 0 THEN expected ELSE slot

Adapters(m) ==
  LET t == Len(m.topology) IN
  {<<"topology", i, Given(m.topology[i].slot, i)>> : i \in 1 .. t}
    \cup {<<"internet", 0, Given(m.internet.slot, InternetSlot(t, TRUE))>> :
            x \in {y \in {1} : m.internet.enabled}}
    \cup {<<"management", 0,
             Given(m.management.slot,
                   ManagementSlot(t, m.internet.enabled, TRUE))>> :
            x \in {y \in {1} : m.management.enabled}}

(* No adapter of an accepted manifest takes the slot of another, none lies *)
(* beyond what VirtualBox has, and the Kali installer is pointed at the    *)
(* interface of the adapter that leads to the host.                        *)
AdaptersNeverCollide ==
  phase = "accepted" =>
    /\ \A a, b \in Adapters(manifest) : a[3] = b[3] => a = b
    /\ \A a \in Adapters(manifest) : a[3] \in Slot
    /\ Shape[profile].preseed /\ manifest.unattended =>
         \E a \in Adapters(manifest) :
           a[1] = "internet" /\
             InstallerInterface(a[3]) = InstallerInterface(manifest.internet.slot)

=============================================================================
