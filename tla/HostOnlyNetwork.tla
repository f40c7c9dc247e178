-------------------------- MODULE HostOnlyNetwork --------------------------
(***************************************************************************)
(* The host-only interfaces of VirtualBox and ensure_management_interface, *)
(* which finds, migrates or creates the one that carries the management    *)
(* network. An interface that was created and not yet addressed stays when *)
(* the run ends there. Every call may fail, with its effect or without (a  *)
(* call that times out); an effect comes before the program's next call.   *)
(* DHCP servers are left out but for the calls that may raise: nobody      *)
(* looks whether they are off.                                             *)
(***************************************************************************)
CONSTANTS Iface, NoIface

ASSUME IfaceAssumption == NoIface \notin Iface

VARIABLES
  iface,    \* what the address of each interface is
  foreign,  \* history: interfaces the operator made
  netPc,    \* position in ensure_management_interface
  before,   \* names listed before the creation
  chosen,   \* the interface to use
  netFault  \* history: a call of this run failed

netVars == <<iface, foreign, netPc, before, chosen, netFault>>

(* "inside" overlaps the management network without being it, "legacy" is  *)
(* the address of version 0.1, "unset" none at all.                        *)
Kind == {"absent", "unset", "elsewhere", "inside", "legacy", "management"}

Present == {i \in Iface : iface[i] # "absent"}

Being(kind) == {i \in Iface : iface[i] = kind}

NetTypeOK ==
  /\ iface \in [Iface -> Kind]
  /\ foreign \in SUBSET Iface
  /\ netPc \in {"idle", "list", "migrate", "before", "create", "name",
                "address", "dhcp", "ready", "error"}
  /\ before \in SUBSET Iface
  /\ chosen \in Iface \cup {NoIface}
  /\ netFault \in BOOLEAN

(* What an earlier version or the operator may have left.                  *)
NetInit ==
  /\ iface \in [Iface -> {"absent", "unset", "inside", "legacy"}]
  /\ \A i, j \in Being("legacy") : i = j
  /\ foreign = Being("unset") \cup Being("inside")
  /\ netPc = "idle"
  /\ before = {}
  /\ chosen = NoIface
  /\ netFault = FALSE

-----------------------------------------------------------------------------
(* A call fails before it has an effect, and the exception goes up.        *)
NetCallFails ==
  /\ netPc \in {"list", "migrate", "before", "create", "name", "address", "dhcp"}
  /\ netPc' = "error"
  /\ netFault' = TRUE
  /\ UNCHANGED <<iface, foreign, before, chosen>>

(* An interface that has the address already is used as it is.             *)
Reuse ==
  /\ netPc = "list"
  /\ \E i \in Being("management") : chosen' = i
  /\ netPc' = "dhcp"
  /\ UNCHANGED <<iface, foreign, before, netFault>>

(* The interface of version 0.1 is given the new address.                  *)
ChooseLegacy ==
  /\ netPc = "list"
  /\ Being("management") = {}
  /\ \E i \in Being("legacy") : chosen' = i
  /\ netPc' = "migrate"
  /\ UNCHANGED <<iface, foreign, before, netFault>>

(* An interface without an address counts as overlapping.                  *)
OverlapsMutant == Being("inside") \cup Being("unset")

Overlaps == Being("inside")

RefuseOverlap ==
  /\ netPc = "list"
  /\ Being("management") = {} /\ Being("legacy") = {}
  /\ Overlaps # {}
  /\ netPc' = "error"
  /\ UNCHANGED <<iface, foreign, before, chosen, netFault>>

(* A new interface is made although there is one already.                  *)
NeedNewMutant ==
  /\ netPc = "list"
  /\ Being("legacy") = {} /\ Overlaps = {}
  /\ netPc' = "before"
  /\ UNCHANGED <<iface, foreign, before, chosen, netFault>>

NeedNew ==
  /\ netPc = "list"
  /\ Being("management") = {} /\ Being("legacy") = {}
  /\ Overlaps = {}
  /\ netPc' = "before"
  /\ UNCHANGED <<iface, foreign, before, chosen, netFault>>

ListBefore ==
  /\ netPc = "before"
  /\ before' = Present
  /\ netPc' = "create"
  /\ UNCHANGED <<iface, foreign, chosen, netFault>>

(* hostonlyif create: the name is printed, or not understood, or the call  *)
(* times out although the interface appears. VirtualBox may give the new   *)
(* interface an address of its own.                                        *)
CreateInterface ==
  /\ netPc = "create"
  /\ \E i \in Being("absent"), kind \in {"unset", "elsewhere"} :
       /\ iface' = [iface EXCEPT ![i] = kind]
       /\ \/ netPc' = "address" /\ chosen' = i /\ UNCHANGED netFault
          \/ netPc' = "name" /\ UNCHANGED <<chosen, netFault>>
          \/ netPc' = "error" /\ netFault' = TRUE /\ UNCHANGED chosen
  /\ UNCHANGED <<foreign, before>>

(* VirtualBox has no further interface to give.                            *)
NoInterfaceLeft ==
  /\ netPc = "create"
  /\ Being("absent") = {}
  /\ netPc' = "error"
  /\ UNCHANGED <<iface, foreign, before, chosen, netFault>>

(* Any of the interfaces that appeared is taken for the new one.           *)
NameInterfaceMutant ==
  /\ netPc = "name"
  /\ \E i \in Present \ before : chosen' = i
  /\ netPc' = "address"
  /\ UNCHANGED <<iface, foreign, before, netFault>>

(* Without a name in the output, the one interface that was not there      *)
(* before is the new one; if there are more, nobody can tell.              *)
NameInterface ==
  /\ netPc = "name"
  /\ \/ /\ \E i \in Iface : Present \ before = {i} /\ chosen' = i
        /\ netPc' = "address"
     \/ /\ ~\E i \in Iface : Present \ before = {i}
        /\ netPc' = "error"
        /\ UNCHANGED chosen
  /\ UNCHANGED <<iface, foreign, before, netFault>>

(* hostonlyif ipconfig, for a legacy interface and for a new one; it may   *)
(* time out after it took effect.                                          *)
SetAddress ==
  /\ netPc \in {"migrate", "address"}
  /\ iface' = [iface EXCEPT ![chosen] = "management"]
  /\ \/ netPc' = "dhcp" /\ UNCHANGED netFault
     \/ netPc' = "error" /\ netFault' = TRUE
  /\ UNCHANGED <<foreign, before, chosen>>

DisableDhcp ==
  /\ netPc = "dhcp"
  /\ netPc' = "ready"
  /\ UNCHANGED <<iface, foreign, before, chosen, netFault>>

EnsureManagementInterface ==
  \/ NetCallFails
  \/ Reuse \/ ChooseLegacy \/ RefuseOverlap \/ NeedNew
  \/ ListBefore
  \/ CreateInterface \/ NoInterfaceLeft
  \/ NameInterface
  \/ SetAddress
  \/ DisableDhcp

-----------------------------------------------------------------------------
(* The operator makes an interface at any time.                            *)
AddInterface ==
  /\ \E i \in Being("absent"), kind \in {"unset", "inside"} :
       /\ iface' = [iface EXCEPT ![i] = kind]
       /\ foreign' = foreign \cup {i}
  /\ UNCHANGED <<netPc, before, chosen, netFault>>

(* And removes one while the program does not look for one.                *)
RemoveInterface ==
  /\ netPc = "idle"
  /\ \E i \in Present :
       /\ iface' = [iface EXCEPT ![i] = "absent"]
       /\ foreign' = foreign \ {i}
  /\ UNCHANGED <<netPc, before, chosen, netFault>>

-----------------------------------------------------------------------------
(* There is never a second interface with the management address, however  *)
(* many runs ended half way through making one: guests of all machines     *)
(* have to meet on one network.                                            *)
OneManagementInterface ==
  \A i, j \in Being("management") : i = j

(* The program gives its address only to interfaces of its own: what the   *)
(* operator made meanwhile is never mistaken for the new one.              *)
ManagementIsOwn == Being("management") \cap foreign = {}

=============================================================================
