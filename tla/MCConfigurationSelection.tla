---------------------- MODULE MCConfigurationSelection ----------------------
(***************************************************************************)
(* The shipped catalogue (config/configurations.yml) and its benchmarks    *)
(* (config/hardening.yml) for four profiles, and three configurations of a *)
(* possible later catalogue: "router" and "gateway" share interfaces,      *)
(* "gateway" names its benchmark profile and asks for no risk tier,        *)
(* "backbone" needs more interfaces than there can be. Parameters nobody   *)
(* but the playbooks reads are left out.                                   *)
(***************************************************************************)
EXTENDS ConfigurationSelection

MCConfig ==
  {"nftables", "ubuntu-cis", "kali-cis", "windows-server-2022-cis",
   "windows-server-2022-ad-ds", "authoritative-dns", "router", "gateway",
   "backbone"}

Server == "ubuntu-26.04-server"
Desktop == "ubuntu-26.04-desktop"
Kali == "kali-rolling"
Windows == "windows-server-2022"

MCProfile == {Server, Desktop, Kali, Windows}

SupportedBy(c) ==
  CASE c = "nftables" -> {Server, Desktop, Kali}
    [] c = "ubuntu-cis" -> {Server, Desktop}
    [] c \in {"windows-server-2022-cis", "windows-server-2022-ad-ds"} ->
         {Windows}
    [] c = "authoritative-dns" -> {Server, Windows}
    [] c = "router" -> {Server, Desktop}
    [] c = "gateway" -> {Server, Kali}
    [] OTHER -> {Kali}

MCSupported == {cp \in MCConfig \X MCProfile : cp[2] \in SupportedBy(cp[1])}

MCSelectable == MCConfig \ {"authoritative-dns"}

MCRequires ==
  [c \in MCConfig |->
     IF c \in {"ubuntu-cis", "kali-cis"} THEN {"nftables"} ELSE {}]

MCConflicts ==
  [c \in MCConfig |->
     CASE c = "windows-server-2022-cis" -> {"windows-server-2022-ad-ds"}
       [] c = "windows-server-2022-ad-ds" -> {"windows-server-2022-cis"}
       [] c = "router" -> {"ubuntu-cis"}
       [] OTHER -> {}]

MCOrder ==
  [c \in MCConfig |->
     CASE c = "nftables" -> 900
       [] c = "windows-server-2022-ad-ds" -> 700
       [] c \in {"ubuntu-cis", "kali-cis", "windows-server-2022-cis"} -> 950
       [] OTHER -> 500]

MCRank ==
  [c \in MCConfig |->
     CASE c = "authoritative-dns" -> 1
       [] c = "gateway" -> 2
       [] c = "kali-cis" -> 3
       [] c = "nftables" -> 4
       [] c = "router" -> 5
       [] c = "ubuntu-cis" -> 6
       [] c = "windows-server-2022-ad-ds" -> 7
       [] c = "windows-server-2022-cis" -> 8
       [] c = "backbone" -> 9]

MCNeeds ==
  [c \in MCConfig |->
     CASE c \in {"windows-server-2022-ad-ds", "authoritative-dns"} ->
            [total |-> 1, static |-> 1, internal |-> 1, staticInternal |-> 1]
       [] c = "router" ->
            [total |-> 2, static |-> 1, internal |-> 1, staticInternal |-> 0]
       [] c = "gateway" ->
            [total |-> 0, static |-> 2, internal |-> 0, staticInternal |-> 1]
       [] c = "backbone" ->
            [total |-> 2, static |-> 4, internal |-> 0, staticInternal |-> 0]
       [] OTHER -> NoNeeds]

MCImplemented == MCConfig \ {"authoritative-dns"}

Hardened == {"ubuntu-cis", "kali-cis", "windows-server-2022-cis"}

MCRiskParameter ==
  [c \in MCConfig |-> IF c \in Hardened THEN "implementation_wave" ELSE ""]

MCDeclared ==
  [c \in MCConfig |->
     CASE c \in Hardened ->
            [profile |-> "str", exceptions |-> "list",
             implementation_wave |-> "str"]
       [] c = "windows-server-2022-ad-ds" -> DirectoryAnswers
       [] c = "nftables" -> [input_policy |-> "str"]
       [] OTHER -> [n \in {} |-> "str"]]

(* A benchmark whose profiles p apply to For(p) and are defaults there if  *)
(* they are in "automatic".                                                *)
Entry(For, automatic, requested) ==
  [implemented |-> TRUE, supported |-> UNION {For[q] : q \in DOMAIN For},
   profiles |-> DOMAIN For, appliesTo |-> For,
   defaultFor |->
     [q \in DOMAIN For |-> IF q \in automatic THEN For[q] ELSE {}],
   requested |-> requested, controlled |-> DOMAIN For]

Levels == {"level1-server", "level2-server",
           "level1-workstation", "level2-workstation"}

MCBenchmark ==
  [c \in Hardened \cup {"gateway"} |->
     CASE c = "ubuntu-cis" ->
            Entry([q \in Levels |->
                     IF q \in {"level1-server", "level2-server"}
                     THEN {Server} ELSE {Desktop}],
                  {"level1-server", "level1-workstation"}, "auto")
       [] c = "kali-cis" ->
            Entry([q \in Levels |-> {Kali}], {"level1-workstation"}, "auto")
       [] c = "windows-server-2022-cis" ->
            Entry([q \in {"level1", "level2"} |-> {Windows}],
                  {"level1"}, "auto")
       [] c = "gateway" ->
            Entry([q \in {"edge", "core"} |->
                     IF q = "core" THEN {Server, Kali} ELSE {}], {}, "edge")]

(* The numbers of the shipped catalogue put requirements first, its        *)
(* benchmarks have a plan for every machine they may be selected for, and  *)
(* Active Directory declares and needs what the Forge takes for granted.   *)
ASSUME ShippedOrdersAgree == OrdersAgree
ASSUME ShippedBenchmarksFit == BenchmarksFit
ASSUME ShippedDirectoryFits == DirectoryFits

=============================================================================
