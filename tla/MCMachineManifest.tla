------------------------- MODULE MCMachineManifest -------------------------
(***************************************************************************)
(* Two profiles: one without requirements like the Linux ones, one that    *)
(* asks for the second amount of everything and EFI like Windows 11.       *)
(* Four slots leave two for the topology; addresses have two bits.         *)
(***************************************************************************)
EXTENDS MachineManifest

MCProfile == {"kali", "windows"}

Amount(c, v) == [r \in Resource |-> IF r = "vram" THEN v ELSE c]

MCShape ==
  [p \in MCProfile |->
     IF p = "kali"
     THEN [hardware |-> [amount |-> Amount(1, 2), firmware |-> "efi",
                         graphics |-> [controller |-> "vmsvga",
                                       accelerate |-> FALSE]],
           least |-> Amount(0, 0), firmware |-> "any", preseed |-> TRUE]
     ELSE [hardware |-> [amount |-> Amount(2, 2), firmware |-> "efi",
                         graphics |-> [controller |-> "vboxsvga",
                                       accelerate |-> FALSE]],
           least |-> Amount(2, 0), firmware |-> "efi", preseed |-> FALSE]]

MCLimit == [r \in Resource |-> [least |-> 1, largest |-> 2]]

MCLabel == {"net1", "net2"}

MCNetwork == {"a", "b"}

MCAdapter == {"eth"}

Static(a, g) == [method |-> "static", address |-> a, prefix |-> 1, gateway |-> g]

Dhcp == [method |-> "dhcp", address |-> 0, prefix |-> 0, gateway |-> NoGateway]

MCIpv4Answer ==
  {Dhcp} \cup {Static(a, g) : a \in {0, 2}, g \in {NoGateway, 1, 2, 3}}

(* Manifests written by hand: slots left out, swapped, doubled or beyond   *)
(* the layout, adapters switched off, interfaces that repeat one another,  *)
(* an amount or a firmware that does not do.                               *)
WrittenInterface ==
  [slot : 0 .. 3, mac : {1}, label : {"net1"}, type : {"intnet"},
   network : {"a"}, ipv4 : {Dhcp, Static(2, 1)}]
  \cup [slot : {0, 2}, mac : {1, 2}, label : {"net1", "net2"},
         type : {"intnet", "bridged"}, network : {"a"}, ipv4 : {Dhcp}]

WrittenTopology ==
  {<<>>} \cup {<<i>> : i \in WrittenInterface}
    \cup {<<i, j>> : i, j \in {x \in WrittenInterface : x.ipv4 = Dhcp}}
    \cup {<<i, i, i>> : i \in {x \in WrittenInterface : x.ipv4 = Dhcp}}

WrittenHardware ==
  {[amount |-> Amount(c, 2), firmware |-> f,
    graphics |-> [controller |-> "vboxvga", accelerate |-> a]] :
     c \in {0, 3}, f \in Firmware, a \in BOOLEAN}

MCWritten ==
  {[hardware |-> MCShape["windows"].hardware, unattended |-> u, topology |-> t,
    internet |-> [enabled |-> i, slot |-> s],
    management |-> [enabled |-> g, slot |-> n]] :
     u, i, g \in BOOLEAN, t \in WrittenTopology, s \in {0, 1, 2}, n \in {0, 2, 3}}
  \cup
  {[hardware |-> h, unattended |-> TRUE, topology |-> <<>>,
    internet |-> [enabled |-> TRUE, slot |-> 1],
    management |-> [enabled |-> TRUE, slot |-> 0]] : h \in WrittenHardware}

(* Like those of profiles/os, both profiles meet their own requirements.   *)
ASSUME ShippedProfilesFit == ProfilesFit

=============================================================================
