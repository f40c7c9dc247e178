----------------------------- MODULE Keystrokes -----------------------------
(***************************************************************************)
(* The keystrokes that are to turn a stock installer into an unattended    *)
(* one. They are typed blindly: the program waits a fixed time after the   *)
(* start and never looks at the screen. What a screen makes of them is the *)
(* medium's business and not in this code; only that each is a call of its *)
(* own, which may fail, is modelled.                                       *)
(***************************************************************************)
EXTENDS Naturals, Sequences

Family == {"ubuntu-server", "ubuntu-desktop", "kali", "windows", "manual"}

Key == {"edit", "down", "end", "home", "erase", "kill", "type", "boot", "any"}

LineDown == <<"down", "down", "down">>

EraseSeparator == <<"erase", "erase", "erase", "erase">>

(* The keys of each start function, in their order.                        *)
Keys(family) ==
  CASE family = "ubuntu-server" ->
         <<"edit">> \o LineDown \o <<"end">> \o EraseSeparator
           \o <<"type", "boot">>
    [] family = "ubuntu-desktop" ->
         <<"edit">> \o LineDown \o <<"end", "type", "boot">>
    [] family = "kali" ->
         <<"edit">> \o LineDown \o <<"home", "kill", "type", "boot">>
    [] family = "windows" -> <<"any">>
    [] family = "manual" -> <<>>

=============================================================================
