--------------------------- MODULE ManagementIPAM ---------------------------
(***************************************************************************)
(* The management address allocator (crucible/networking/management.py).   *)
(*                                                                         *)
(* One process at a time calls allocate_management_address or              *)
(* release_management_address (the project runs one Forge at a time).      *)
(* Each call loads and validates the state file, decides, writes the whole *)
(* state to a temporary file, and moves that file over the state file.     *)
(* The process may die between any two file operations; the files stay.    *)
(***************************************************************************)
EXTENDS Integers, FiniteSets

CONSTANTS
  Machine,      \* non-empty machine names, stripped of blanks
  FirstGuest,   \* FIRST_GUEST_IP as an integer
  LastGuest,    \* LAST_GUEST_IP as an integer
  Prior,        \* contents an earlier version or an editor may have left
  NoLease,      \* stands for a name that is not a key of "leases"
  NoFile,       \* stands for a file that does not exist
  Torn          \* stands for a file truncated or partly written

Guest == FirstGuest .. LastGuest

(***************************************************************************)
(* The parsed content of a state file.  "header" stands for the fields     *)
(* schema_version, network and host_address: "current" when all three have *)
(* the values this version writes.                                         *)
(***************************************************************************)
StateFile ==
  [header : {"current", "foreign"},
   next   : Nat,
   leases : [Machine -> Nat \cup {NoLease}]]

ASSUME PoolAssumption ==
  /\ FirstGuest \in Nat /\ LastGuest \in Nat
  /\ FirstGuest <= LastGuest

ASSUME PriorAssumption == Prior \subseteq StateFile

ASSUME SentinelAssumption ==
  /\ NoLease \notin Nat
  /\ NoFile \notin StateFile
  /\ Torn \notin StateFile
  /\ NoFile # Torn

VARIABLES
  stateFile,    \* management-ipam.yml: NoFile or its content
  temporary,    \* management-ipam.yml.tmp
  pc,           \* where the running call is, "idle" when there is none
  caller,       \* the machine of the running or last call
  pending,      \* the state the running call is about to write
  granted,      \* history: the address each machine was last told and keeps
  everLeased,   \* history: every address that may have been a lease before
  outcome       \* how the last call ended

vars == <<stateFile, temporary, pc, caller, pending, granted, everLeased,
          outcome>>

files == <<stateFile, temporary>>

-----------------------------------------------------------------------------

NextGuestIp(a) == IF a = LastGuest THEN FirstGuest ELSE a + 1

NewState ==
  [header |-> "current",
   next   |-> FirstGuest,
   leases |-> [m \in Machine |-> NoLease]]

LeasedIn(s) == {s.leases[m] : m \in Machine} \ {NoLease}

Unleased(s) == Guest \ LeasedIn(s)

NoDuplicateLease(s) ==
  \A m, n \in Machine :
    m # n /\ s.leases[m] # NoLease => s.leases[m] # s.leases[n]

(* Definitions whose names end in Mutant are faulty variants of the code:   *)
(* the runs must find the property such a fault breaks.                    *)
ValidStateMutant(s) ==
  s.header = "current" /\ s.next \in Guest /\ LeasedIn(s) \subseteq Guest

ValidState(s) ==
  /\ s.header = "current"
  /\ s.next \in Guest
  /\ LeasedIn(s) \subseteq Guest
  /\ NoDuplicateLease(s)

Loaded == IF stateFile = NoFile THEN NewState ELSE stateFile

LoadAccepts == ValidState(Loaded)

(* The scan starts behind the cursor instead of at it.                     *)
CandidateMutant(s) ==
  LET ahead == {a \in Unleased(s) : a > s.next}
      scan  == IF ahead # {} THEN ahead ELSE Unleased(s)
  IN  CHOOSE a \in scan : \A b \in scan : a <= b

(***************************************************************************)
(* The address the scan stops at: the first free one from next_address     *)
(* upwards, and after LAST_GUEST_IP from FIRST_GUEST_IP again.             *)
(***************************************************************************)
Candidate(s) ==
  LET ahead == {a \in Unleased(s) : a >= s.next}
      scan  == IF ahead # {} THEN ahead ELSE Unleased(s)
  IN  CHOOSE a \in scan : \A b \in scan : a <= b

(* The loop itself, with a number of tries left and the address to try     *)
(* next; it makes GUEST_CAPACITY tries from next_address on.               *)
Capacity == LastGuest - FirstGuest + 1

Scan(used) ==
  LET try[tries \in 0 .. Capacity] ==
        [a \in Guest |->
           IF tries = 0 THEN NoLease
           ELSE IF a \notin used THEN a
           ELSE try[tries - 1][NextGuestIp(a)]]
  IN  try

(* The cursor is not advanced.                                             *)
WithLeaseMutant(s, m, a) == [s EXCEPT !.leases[m] = a]

(* The copy of the leases is not merged back into the state.               *)
WithLeaseLostMutant(s, m, a) ==
  [NewState EXCEPT !.leases[m] = a, !.next = NextGuestIp(a)]

WithLease(s, m, a) ==
  [header |-> s.header,
   next   |-> NextGuestIp(a),
   leases |-> [s.leases EXCEPT ![m] = a]]

WithoutLease(s, m) == [s EXCEPT !.leases[m] = NoLease]

-----------------------------------------------------------------------------
Init ==
  /\ stateFile \in {NoFile} \cup Prior
  /\ temporary = NoFile
  /\ pc = "idle"
  /\ caller \in Machine
  /\ pending = NewState
  /\ granted = [m \in Machine |-> NoLease]
  /\ everLeased = IF stateFile = NoFile THEN {} ELSE Guest
  /\ outcome = "none"

(***************************************************************************)
(* Calls that end without writing.                                         *)
(***************************************************************************)
RejectState(m) ==
  /\ pc = "idle"
  /\ ~LoadAccepts
  /\ caller' = m
  /\ outcome' = "invalid_state"
  /\ UNCHANGED <<files, pc, pending, granted, everLeased>>

AllocateExisting(m) ==
  /\ pc = "idle"
  /\ LoadAccepts
  /\ Loaded.leases[m] # NoLease
  /\ caller' = m
  /\ granted' = [granted EXCEPT ![m] = Loaded.leases[m]]
  /\ outcome' = "allocated"
  /\ UNCHANGED <<files, pc, pending, everLeased>>

AllocateExhausted(m) ==
  /\ pc = "idle"
  /\ LoadAccepts
  /\ Loaded.leases[m] = NoLease
  /\ Unleased(Loaded) = {}
  /\ caller' = m
  /\ outcome' = "no_free_address"
  /\ UNCHANGED <<files, pc, pending, granted, everLeased>>

ReleaseNothing(m) ==
  /\ pc = "idle"
  /\ LoadAccepts
  /\ Loaded.leases[m] = NoLease
  /\ caller' = m
  /\ outcome' = "not_leased"
  /\ UNCHANGED <<files, pc, pending, granted, everLeased>>

(***************************************************************************)
(* Calls that decide on a new state and go on to write it.                 *)
(***************************************************************************)
(* The address is handed to the caller before it is written.               *)
AllocateNewMutant(m) ==
  /\ pc = "idle"
  /\ LoadAccepts
  /\ Loaded.leases[m] = NoLease
  /\ Unleased(Loaded) # {}
  /\ pc' = "open"
  /\ caller' = m
  /\ pending' = WithLease(Loaded, m, Candidate(Loaded))
  /\ granted' = [granted EXCEPT ![m] = Candidate(Loaded)]
  /\ outcome' = "none"
  /\ UNCHANGED <<files, everLeased>>

AllocateNew(m) ==
  /\ pc = "idle"
  /\ LoadAccepts
  /\ Loaded.leases[m] = NoLease
  /\ Unleased(Loaded) # {}
  /\ pc' = "open"
  /\ caller' = m
  /\ pending' = WithLease(Loaded, m, Candidate(Loaded))
  /\ outcome' = "none"
  /\ UNCHANGED <<files, granted, everLeased>>

Release(m) ==
  /\ pc = "idle"
  /\ stateFile # NoFile
  /\ LoadAccepts
  /\ Loaded.leases[m] # NoLease
  /\ pc' = "open"
  /\ caller' = m
  /\ pending' = WithoutLease(Loaded, m)
  /\ granted' = [granted EXCEPT ![m] = NoLease]
  /\ outcome' = "none"
  /\ UNCHANGED <<files, everLeased>>

(***************************************************************************)
(* _write_state: open the temporary file (truncating what a dead call left *)
(* there), dump the state into it, replace the state file, return.         *)
(***************************************************************************)
OpenTemporary ==
  /\ pc = "open"
  /\ pc' = "dump"
  /\ temporary' = Torn
  /\ UNCHANGED <<stateFile, caller, pending, granted, everLeased, outcome>>

DumpTemporary ==
  /\ pc = "dump"
  /\ pc' = "replace"
  /\ temporary' = pending
  /\ UNCHANGED <<stateFile, caller, pending, granted, everLeased, outcome>>

ReplaceStateFile ==
  /\ pc = "replace"
  /\ pc' = "return"
  /\ stateFile' = temporary
  /\ temporary' = NoFile
  /\ everLeased' = everLeased \cup LeasedIn(pending)
  /\ UNCHANGED <<caller, pending, granted, outcome>>

Return ==
  /\ pc = "return"
  /\ pc' = "idle"
  /\ granted' = [granted EXCEPT ![caller] = pending.leases[caller]]
  /\ outcome' = IF pending.leases[caller] = NoLease
                THEN "released" ELSE "allocated"
  /\ UNCHANGED <<files, caller, pending, everLeased>>

(***************************************************************************)
(* The process dies inside a call; the next Forge run starts from the      *)
(* files it left.                                                          *)
(***************************************************************************)
Crash ==
  /\ pc # "idle"
  /\ pc' = "idle"
  /\ outcome' = "none"
  /\ UNCHANGED <<files, caller, pending, granted, everLeased>>

Call(m) ==
  \/ RejectState(m)
  \/ AllocateExisting(m)
  \/ AllocateExhausted(m)
  \/ ReleaseNothing(m)
  \/ AllocateNew(m)
  \/ Release(m)

Next ==
  \/ \E m \in Machine : Call(m)
  \/ OpenTemporary
  \/ DumpTemporary
  \/ ReplaceStateFile
  \/ Return
  \/ Crash

Spec == Init /\ [][Next]_vars

-----------------------------------------------------------------------------
(* Every variable holds a value of its kind; the names, addresses and      *)
(* program points of one allocator call.                                   *)
TypeOK ==
  /\ stateFile \in StateFile \cup {NoFile}
  /\ temporary \in StateFile \cup {NoFile, Torn}
  /\ pc \in {"idle", "open", "dump", "replace", "return"}
  /\ caller \in Machine
  /\ pending \in StateFile
  /\ granted \in [Machine -> Guest \cup {NoLease}]
  /\ everLeased \in SUBSET Nat
  /\ outcome \in {"none", "invalid_state", "allocated", "no_free_address",
                  "not_leased", "released"}

(* An address a caller was told (and has not released) is that machine's   *)
(* lease on disk, whatever crashes came in between: allocate returns only  *)
(* what has already replaced the state file.                               *)
GrantIsOnDisk ==
  \A m \in Machine :
    granted[m] # NoLease =>
      /\ stateFile # NoFile
      /\ stateFile.leases[m] = granted[m]

(* No two machines are ever told the same management address, and none is  *)
(* told the host's or an address outside the guest pool, even when the     *)
(* state file came from another version or from an editor.                 *)
GrantsAreDistinct ==
  \A m, n \in Machine :
    m # n /\ granted[m] # NoLease =>
      granted[m] \in Guest /\ granted[m] # granted[n]

(* The declarative Candidate is the address the loop of the code finds,    *)
(* and the loop finds none exactly when the pool is full.                  *)
CandidateIsScan ==
  LoadAccepts =>
    Scan(LeasedIn(Loaded))[Capacity][Loaded.next] =
      IF Unleased(Loaded) = {} THEN NoLease ELSE Candidate(Loaded)

(* A state file this version cannot validate is never overwritten, and a   *)
(* valid one is only ever replaced by a valid one.                         *)
KeepsFileValid ==
  [][IF LoadAccepts THEN LoadAccepts' ELSE stateFile' = stateFile]_vars

(* A machine's lease on disk never turns into another address: it is kept  *)
(* by every later forge of that name until it is released.                 *)
LeaseIsStable ==
  [][\A m \in Machine :
       Loaded.leases[m] # NoLease =>
         Loaded'.leases[m] \in {Loaded.leases[m], NoLease}]_vars

(* Starting without a state file, an address that was leased before is     *)
(* leased again only once every address of the pool has been leased: the   *)
(* cursor passes over the whole pool before any address is reused, and     *)
(* releasing an address does not move it back. Of an earlier file nothing  *)
(* is known but its present leases: every address may have been one.       *)
FreshBeforeReuse ==
  [][\A m \in Machine :
       /\ Loaded.leases[m] = NoLease
       /\ Loaded'.leases[m] # NoLease
       /\ Loaded'.leases[m] \in everLeased
       => everLeased = Guest]_vars

(* The allocator implements the lease table: seen through the state file,  *)
(* a call, a crash or a retry is one whole grant, one whole release or     *)
(* nothing.                                                                *)
DiskLeases ==
  IF LoadAccepts THEN Loaded.leases ELSE NewState.leases

Table == INSTANCE LeaseTable WITH leases <- DiskLeases

ImplementsLeaseTable == Table!Spec

=============================================================================
