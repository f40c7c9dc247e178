------------------------ MODULE MCHardeningPlanner --------------------------
(***************************************************************************)
(* A Linux and a Windows machine, two profiles and four controls shaped    *)
(* like those of hardening/benchmarks: "dns" and "winrm" carry tags of     *)
(* cis-ubuntu-linux-26.04.yml and of the Windows benchmarks.               *)
(***************************************************************************)
EXTENDS HardeningPlanner

MCMachine == {"ubuntu", "windows"}

MCProfile == {"level1", "level2"}

MCControl == {"dns", "winrm", "ssh", "manual"}

MCControlProfiles ==
  [c \in MCControl |->
     IF c = "winrm" THEN {"level2"} ELSE {"level1", "level2"}]

MCImplementation ==
  [c \in MCControl |->
     CASE c = "dns" -> "automated"
       [] c = "manual" -> "manual"
       [] OTHER -> "conditional"]

MCPreserves ==
  [c \in MCControl |->
     CASE c = "dns" -> {"dns-server", "active-directory"}
       [] c = "manual" -> {}
       [] OTHER -> {c}]

MCConfiguration == {"firewall", "directory"}

MCProvides ==
  [k \in MCConfiguration |->
     IF k = "firewall" THEN {"nftables"}
     ELSE {"active-directory", "dns-server"}]

MCTransport == [m \in MCMachine |-> IF m = "ubuntu" THEN "ssh" ELSE "psrp"]

MCProtocol == [m \in MCMachine |-> IF m = "ubuntu" THEN "" ELSE "https"]

=============================================================================
