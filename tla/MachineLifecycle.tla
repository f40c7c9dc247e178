-------------------------- MODULE MachineLifecycle --------------------------
(***************************************************************************)
(* What machine creation promises of a machine: it is worked on only by    *)
(* the run that registered it, never by a later one that found the name,   *)
(* and handed over only when it has everything its manifest asked for.     *)
(***************************************************************************)
CONSTANTS Name, NoName

VARIABLES
  life,    \* per name: "none", "partial" or "whole"
  stage,   \* of the program: "idle", "making" or "ready"
  making   \* the machine it works on

vars == <<life, stage, making>>

Init ==
  /\ life = [n \in Name |-> "none"]
  /\ stage = "idle"
  /\ making = NoName

Stop == stage' = "idle" /\ making' = NoName

(* The program may lose the machine it just registered: a call that timed  *)
(* out registers it nonetheless.                                           *)
Register(n) ==
  /\ stage = "idle"
  /\ life[n] = "none"
  /\ life' = [life EXCEPT ![n] = "partial"]
  /\ \/ stage' = "making" /\ making' = n
     \/ Stop

Complete(n) ==
  /\ stage = "making" /\ making = n
  /\ life[n] = "partial"
  /\ life' = [life EXCEPT ![n] = "whole"]
  /\ \/ UNCHANGED <<stage, making>>
     \/ Stop

(* A machine that was removed meanwhile is handed over unseen.             *)
HandOver(n) ==
  /\ stage = "making" /\ making = n
  /\ life[n] # "partial"
  /\ stage' = "ready"
  /\ UNCHANGED <<life, making>>

GiveUp ==
  /\ stage # "idle"
  /\ Stop
  /\ UNCHANGED life

(* By the operator, or by the program that undoes what it registered.      *)
Remove(n) ==
  /\ life' = [life EXCEPT ![n] = "none"]
  /\ \/ UNCHANGED <<stage, making>>
     \/ Stop

Next ==
  \/ GiveUp
  \/ \E n \in Name : Register(n) \/ Complete(n) \/ HandOver(n) \/ Remove(n)

Spec == Init /\ [][Next]_vars

=============================================================================
