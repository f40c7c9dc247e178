--------------------------- MODULE NetworkLayout ---------------------------
(***************************************************************************)
(* The order of a machine's network adapters and what is derived from a    *)
(* slot: topology interfaces first, then the internet adapter, then the    *)
(* management adapter. Questions, validation and machine creation each     *)
(* compute it anew.                                                        *)
(***************************************************************************)
EXTENDS Naturals

CONSTANT MaxSlots   \* MAX_NIC_SLOTS: adapters VirtualBox can give a machine

ASSUME SlotAssumption == MaxSlots \in Nat /\ MaxSlots >= 2

Slot == 1 .. MaxSlots

NoSlot == 0

(* MAX_TOPOLOGY_NICS: two slots are kept for the adapters of Crucible.     *)
MaxTopology == MaxSlots - 2

Count(enabled) == IF enabled THEN 1 ELSE 0

-----------------------------------------------------------------------------
LayoutFits(topology, internet, management) ==
  topology + Count(internet) + Count(management) <= MaxSlots

TopologySlots(topology) == 1 .. topology

InternetSlot(topology, internet) ==
  IF internet THEN topology + 1 ELSE NoSlot

ManagementSlot(topology, internet, management) ==
  IF management THEN topology + Count(internet) + 1 ELSE NoSlot

-----------------------------------------------------------------------------
(* With net.ifnames=0 the installer counts its interfaces from zero.       *)
InstallerInterface(slot) == slot - 1

(* The third octet of the address under which the guest of the NAT adapter *)
(* in a slot reaches the host: VirtualBox numbers adapters from zero and   *)
(* begins at 10.0.2.0/24.                                                  *)
NatHost(slot) == slot + 1

=============================================================================
