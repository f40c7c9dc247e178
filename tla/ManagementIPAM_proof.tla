------------------------ MODULE ManagementIPAM_proof ------------------------
(***************************************************************************)
(* Theorems about the management address allocator for every set of        *)
(* machines, every pool and every content of the state file.               *)
(***************************************************************************)
EXTENDS ManagementIPAM, WellFoundedInduction, TLAPS

(***************************************************************************)
(* The inductive invariant.  What a call decided stays valid for the file  *)
(* it read until it is written, because nobody else writes the file in     *)
(* between; only the caller's own lease differs.                           *)
(***************************************************************************)
PendingIsValid ==
  pc # "idle" => LoadAccepts /\ ValidState(pending)

PendingChangesOneLease ==
  pc \in {"open", "dump", "replace"} =>
    /\ granted[caller] = NoLease
    /\ Loaded.leases[caller] = NoLease \/ pending.leases[caller] = NoLease
    /\ \A m \in Machine \ {caller} : pending.leases[m] = Loaded.leases[m]

WriteIsWhole ==
  /\ pc = "replace" => temporary = pending
  /\ pc = "return" => stateFile = pending

GrantNeedsValidFile ==
  (\E m \in Machine : granted[m] # NoLease) => LoadAccepts

IInv ==
  /\ TypeOK
  /\ PendingIsValid
  /\ PendingChangesOneLease
  /\ WriteIsWhole
  /\ GrantNeedsValidFile
  /\ GrantIsOnDisk

-----------------------------------------------------------------------------
(* A non-empty set of natural numbers has a least element.                 *)
LEMMA LeastOfNaturals ==
  ASSUME NEW T \in SUBSET Nat, T # {}
  PROVE  \E a \in T : \A b \in T : a <= b
<1>1. PICK a \in T : \A b \in T : ~ (<<b, a>> \in OpToRel(<, Nat))
  BY NatLessThanWellFounded, WFMin
<1>2. \A b \in T : ~ (b < a)
  BY <1>1 DEF OpToRel
<1>3. \A b \in T : a <= b
  BY <1>2
<1> QED
  BY <1>3

(* The scan of allocate stops at an address of the pool that is free.      *)
LEMMA CandidateIsFree ==
  ASSUME NEW s, Unleased(s) # {}
  PROVE  Candidate(s) \in Unleased(s)
<1> DEFINE ahead == {a \in Unleased(s) : a >= s.next}
           scan  == IF ahead # {} THEN ahead ELSE Unleased(s)
<1>1. scan \in SUBSET Nat /\ scan # {} /\ scan \subseteq Unleased(s)
  BY PoolAssumption DEF Unleased, Guest
<1> HIDE DEF scan
<1>2. \E a \in scan : \A b \in scan : a <= b
  BY <1>1, LeastOfNaturals
<1>3. (CHOOSE a \in scan : \A b \in scan : a <= b) \in scan
  BY <1>2
<1> QED
  BY <1>1, <1>3 DEF Candidate, scan

(* Writing a new lease for a machine without one keeps a valid state valid *)
(* and changes no other machine's lease.                                   *)
LEMMA WithLeaseIsValid ==
  ASSUME NEW s \in StateFile, ValidState(s), NEW m \in Machine,
         s.leases[m] = NoLease, NEW a \in Unleased(s)
  PROVE  /\ WithLease(s, m, a) \in StateFile
         /\ ValidState(WithLease(s, m, a))
         /\ WithLease(s, m, a).leases = [s.leases EXCEPT ![m] = a]
<1> DEFINE t == WithLease(s, m, a)
<1>1. a \in Guest /\ a \in Nat /\ NextGuestIp(a) \in Guest
  BY PoolAssumption DEF Unleased, Guest, NextGuestIp
<1>2. /\ t \in StateFile
      /\ t.leases = [s.leases EXCEPT ![m] = a]
      /\ t.next = NextGuestIp(a)
      /\ t.header = s.header
  BY <1>1, PoolAssumption DEF StateFile, WithLease, Guest
<1>3. s.leases \in [Machine -> Nat \cup {NoLease}]
  BY DEF StateFile
<1>4. LeasedIn(t) \subseteq Guest
  BY <1>1, <1>2, <1>3 DEF LeasedIn, ValidState
<1>5. NoDuplicateLease(t)
  BY <1>1, <1>2, <1>3, SentinelAssumption
     DEF NoDuplicateLease, ValidState, Unleased, LeasedIn
<1> QED
  BY <1>1, <1>2, <1>4, <1>5 DEF ValidState

(* Removing a lease keeps a valid state valid.                             *)
LEMMA WithoutLeaseIsValid ==
  ASSUME NEW s \in StateFile, ValidState(s), NEW m \in Machine
  PROVE  /\ WithoutLease(s, m) \in StateFile
         /\ ValidState(WithoutLease(s, m))
         /\ WithoutLease(s, m).leases = [s.leases EXCEPT ![m] = NoLease]
<1> DEFINE t == WithoutLease(s, m)
<1>1. /\ t \in StateFile
      /\ t.leases = [s.leases EXCEPT ![m] = NoLease]
      /\ t.next = s.next
      /\ t.header = s.header
  BY DEF StateFile, WithoutLease
<1>2. s.leases \in [Machine -> Nat \cup {NoLease}]
  BY DEF StateFile
<1>3. LeasedIn(t) \subseteq Guest
  BY <1>1, <1>2 DEF LeasedIn, ValidState
<1>4. NoDuplicateLease(t)
  BY <1>1, <1>2 DEF NoDuplicateLease, ValidState
<1> QED
  BY <1>1, <1>3, <1>4 DEF ValidState

(* The state used when there is no file is a valid one without leases.     *)
LEMMA NewStateIsValid ==
  NewState \in StateFile /\ ValidState(NewState)
BY PoolAssumption
   DEF NewState, StateFile, ValidState, LeasedIn, NoDuplicateLease, Guest

(* The lease of a valid state is an address of the pool.                   *)
LEMMA ValidLeaseIsGuest ==
  ASSUME NEW s \in StateFile, ValidState(s), NEW m \in Machine
  PROVE  s.leases[m] \in Guest \cup {NoLease}
BY DEF ValidState, LeasedIn

(* What _load_state returns is a state, with or without a file.            *)
LEMMA LoadedIsState ==
  ASSUME TypeOK PROVE Loaded \in StateFile
BY NewStateIsValid DEF TypeOK, Loaded

-----------------------------------------------------------------------------
(* The invariant holds whatever state file an earlier version left.        *)
LEMMA InitIInv == Init => IInv
<1> SUFFICES ASSUME Init PROVE IInv
  OBVIOUS
<1>1. TypeOK
  <2>1. Guest \in SUBSET Nat
    BY PoolAssumption DEF Guest
  <2> QED
    BY <2>1, NewStateIsValid, PriorAssumption, SentinelAssumption
       DEF Init, TypeOK, StateFile
<1> QED
  BY <1>1 DEF Init, IInv, PendingIsValid, PendingChangesOneLease,
              WriteIsWhole, GrantNeedsValidFile, GrantIsOnDisk

(* Every step of a call, and a crash, preserves the inductive invariant.   *)
LEMMA StepIInv == IInv /\ [Next]_vars => IInv'
<1> SUFFICES ASSUME IInv, [Next]_vars PROVE IInv'
  OBVIOUS
<1> USE DEF IInv
<1>0. Loaded \in StateFile
  BY LoadedIsState
<1>1. ASSUME NEW m \in Machine, RejectState(m) PROVE IInv'
  BY <1>1 DEF RejectState, TypeOK, PendingIsValid, PendingChangesOneLease,
     WriteIsWhole, GrantNeedsValidFile, GrantIsOnDisk, LoadAccepts, Loaded,
     files
<1>2. ASSUME NEW m \in Machine, AllocateExisting(m) PROVE IInv'
  <2>1. Loaded.leases[m] \in Guest \cup {NoLease}
    BY <1>0, <1>2, ValidLeaseIsGuest DEF AllocateExisting, LoadAccepts
  <2>2. stateFile # NoFile
    BY <1>2 DEF AllocateExisting, Loaded, NewState
  <2> QED
    BY <1>2, <2>1, <2>2 DEF AllocateExisting, TypeOK, PendingIsValid,
       PendingChangesOneLease, WriteIsWhole, GrantNeedsValidFile,
       GrantIsOnDisk, LoadAccepts, Loaded, files
<1>3. ASSUME NEW m \in Machine, AllocateExhausted(m) PROVE IInv'
  BY <1>3 DEF AllocateExhausted, TypeOK, PendingIsValid,
     PendingChangesOneLease, WriteIsWhole, GrantNeedsValidFile,
     GrantIsOnDisk, LoadAccepts, Loaded, files
<1>4. ASSUME NEW m \in Machine, ReleaseNothing(m) PROVE IInv'
  BY <1>4 DEF ReleaseNothing, TypeOK, PendingIsValid,
     PendingChangesOneLease, WriteIsWhole, GrantNeedsValidFile,
     GrantIsOnDisk, LoadAccepts, Loaded, files
<1>5. ASSUME NEW m \in Machine, AllocateNew(m) PROVE IInv'
  <2>1. Candidate(Loaded) \in Unleased(Loaded)
    BY <1>5, CandidateIsFree DEF AllocateNew
  <2>2. /\ pending' \in StateFile
        /\ ValidState(pending')
        /\ pending'.leases = [Loaded.leases EXCEPT ![m] = Candidate(Loaded)]
    BY <1>0, <1>5, <2>1, WithLeaseIsValid DEF AllocateNew, LoadAccepts
  <2>3. granted[m] = NoLease
    BY <1>5 DEF AllocateNew, GrantIsOnDisk, Loaded
  <2>4. Loaded.leases \in [Machine -> Nat \cup {NoLease}]
    BY <1>0 DEF StateFile
  <2>5. TypeOK'
    BY <1>5, <2>2 DEF AllocateNew, TypeOK, files
  <2>6. PendingIsValid' /\ GrantNeedsValidFile' /\ GrantIsOnDisk'
        /\ WriteIsWhole'
    BY <1>5, <2>2 DEF AllocateNew, PendingIsValid, GrantNeedsValidFile,
       GrantIsOnDisk, WriteIsWhole, LoadAccepts, Loaded, files
  <2>7. PendingChangesOneLease'
    BY <1>5, <2>2, <2>3, <2>4 DEF AllocateNew, PendingChangesOneLease,
       Loaded, files
  <2> QED
    BY <2>5, <2>6, <2>7
<1>6. ASSUME NEW m \in Machine, Release(m) PROVE IInv'
  <2>2. /\ pending' \in StateFile
        /\ ValidState(pending')
        /\ pending'.leases = [Loaded.leases EXCEPT ![m] = NoLease]
    BY <1>0, <1>6, WithoutLeaseIsValid DEF Release, LoadAccepts
  <2>4. Loaded.leases \in [Machine -> Nat \cup {NoLease}]
    BY <1>0 DEF StateFile
  <2>5. TypeOK'
    BY <1>6, <2>2 DEF Release, TypeOK, files
  <2>6. PendingIsValid' /\ GrantNeedsValidFile' /\ GrantIsOnDisk'
        /\ WriteIsWhole'
    BY <1>6, <2>2 DEF Release, PendingIsValid, GrantNeedsValidFile,
       GrantIsOnDisk, WriteIsWhole, LoadAccepts, Loaded, files, TypeOK
  <2>7. PendingChangesOneLease'
    BY <1>6, <2>2, <2>4 DEF Release, PendingChangesOneLease, Loaded, files,
       TypeOK
  <2> QED
    BY <2>5, <2>6, <2>7
<1>7. ASSUME OpenTemporary PROVE IInv'
  BY <1>7 DEF OpenTemporary, TypeOK, PendingIsValid, PendingChangesOneLease,
     WriteIsWhole, GrantNeedsValidFile, GrantIsOnDisk, LoadAccepts, Loaded
<1>8. ASSUME DumpTemporary PROVE IInv'
  BY <1>8 DEF DumpTemporary, TypeOK, PendingIsValid, PendingChangesOneLease,
     WriteIsWhole, GrantNeedsValidFile, GrantIsOnDisk, LoadAccepts, Loaded
<1>9. ASSUME ReplaceStateFile PROVE IInv'
  <2>1. /\ stateFile' = pending /\ pending \in StateFile
        /\ ValidState(pending) /\ stateFile' # NoFile
        /\ Loaded' = pending
    BY <1>9, SentinelAssumption
       DEF ReplaceStateFile, WriteIsWhole, PendingIsValid, TypeOK, Loaded
  <2>2. TypeOK'
    BY <1>9, <2>1 DEF ReplaceStateFile, TypeOK, LeasedIn, StateFile
  <2>3. LoadAccepts'
    BY <2>1 DEF LoadAccepts
  <2>4. GrantIsOnDisk'
    BY <1>9, <2>1 DEF ReplaceStateFile, GrantIsOnDisk,
       PendingChangesOneLease, Loaded
  <2>5. PendingIsValid' /\ PendingChangesOneLease' /\ WriteIsWhole'
        /\ GrantNeedsValidFile'
    BY <1>9, <2>1, <2>3 DEF ReplaceStateFile, PendingIsValid,
       PendingChangesOneLease, WriteIsWhole, GrantNeedsValidFile
  <2> QED
    BY <2>2, <2>4, <2>5
<1>10. ASSUME Return PROVE IInv'
  <2>1. stateFile = pending /\ pending \in StateFile /\ ValidState(pending)
        /\ stateFile # NoFile
    BY <1>10, SentinelAssumption
       DEF Return, WriteIsWhole, PendingIsValid, TypeOK
  <2>2. pending.leases[caller] \in Guest \cup {NoLease}
    BY <2>1, ValidLeaseIsGuest DEF TypeOK
  <2>3. TypeOK'
    BY <1>10, <2>2 DEF Return, TypeOK, files
  <2>4. LoadAccepts'
    BY <1>10, <2>1 DEF Return, LoadAccepts, Loaded, files
  <2>5. GrantIsOnDisk'
    BY <1>10, <2>1 DEF Return, GrantIsOnDisk, files, TypeOK
  <2> QED
    BY <1>10, <2>3, <2>4, <2>5 DEF Return, PendingIsValid,
       PendingChangesOneLease, WriteIsWhole, GrantNeedsValidFile
<1>11. ASSUME Crash PROVE IInv'
  BY <1>11 DEF Crash, TypeOK, PendingIsValid, PendingChangesOneLease,
     WriteIsWhole, GrantNeedsValidFile, GrantIsOnDisk, LoadAccepts, Loaded,
     files
<1>12. ASSUME UNCHANGED vars PROVE IInv'
  BY <1>12 DEF vars, TypeOK, PendingIsValid, PendingChangesOneLease,
     WriteIsWhole, GrantNeedsValidFile, GrantIsOnDisk, LoadAccepts, Loaded
<1> QED
  BY <1>1, <1>2, <1>3, <1>4, <1>5, <1>6, <1>7, <1>8, <1>9, <1>10, <1>11,
     <1>12 DEF Next, Call

-----------------------------------------------------------------------------
(* The inductive invariant holds in every reachable state.                 *)
THEOREM IInvHolds == Spec => []IInv
BY InitIInv, StepIInv, PTL DEF Spec

(* Every variable keeps its type, for every pool and every prior content   *)
(* of the state file.                                                      *)
THEOREM TypeCorrect == Spec => []TypeOK
<1>1. IInv => TypeOK
  BY DEF IInv
<1> QED
  BY <1>1, IInvHolds, PTL

(* What a machine was told is its lease on disk: no crash between two file *)
(* operations of any call, its own or another machine's, loses it.         *)
THEOREM GrantDurability == Spec => []GrantIsOnDisk
<1>1. IInv => GrantIsOnDisk
  BY DEF IInv
<1> QED
  BY <1>1, IInvHolds, PTL

(* No two machines are ever told the same management address, and every    *)
(* address they are told lies in the guest pool.                           *)
THEOREM GrantDistinctness == Spec => []GrantsAreDistinct
<1>1. ASSUME IInv PROVE GrantsAreDistinct
  <2> SUFFICES ASSUME NEW m \in Machine, NEW n \in Machine, m # n,
                      granted[m] # NoLease
               PROVE  granted[m] \in Guest /\ granted[m] # granted[n]
    BY DEF GrantsAreDistinct
  <2>1. /\ stateFile \in StateFile
        /\ ValidState(stateFile)
        /\ stateFile.leases[m] = granted[m]
    BY <1>1 DEF IInv, TypeOK, GrantIsOnDisk, GrantNeedsValidFile,
       LoadAccepts, Loaded
  <2>2. granted[m] \in Guest
    BY <2>1, ValidLeaseIsGuest
  <2>3. granted[n] = NoLease \/ stateFile.leases[n] = granted[n]
    BY <1>1 DEF IInv, GrantIsOnDisk
  <2>4. granted[m] # granted[n]
    BY <2>1, <2>3 DEF ValidState, NoDuplicateLease
  <2> QED
    BY <2>2, <2>4
<1> QED
  BY <1>1, IInvHolds, PTL

-----------------------------------------------------------------------------
(* How one step changes what the state file says: not at all, or from a    *)
(* valid state to a valid state that differs in one machine's lease, which *)
(* appears or disappears.                                                  *)
LEMMA StepOnDisk ==
  ASSUME IInv, [Next]_vars
  PROVE  \/ stateFile' = stateFile
         \/ /\ LoadAccepts /\ LoadAccepts'
            /\ Loaded' = pending
            /\ Loaded.leases[caller] = NoLease
               \/ pending.leases[caller] = NoLease
            /\ \A m \in Machine \ {caller} :
                 pending.leases[m] = Loaded.leases[m]
<1>1. CASE ReplaceStateFile
  <2>1. stateFile' = pending /\ Loaded' = pending
    BY <1>1, SentinelAssumption
       DEF ReplaceStateFile, IInv, WriteIsWhole, TypeOK, Loaded
  <2>2. LoadAccepts /\ LoadAccepts'
    BY <1>1, <2>1 DEF ReplaceStateFile, IInv, PendingIsValid, LoadAccepts
  <2> QED
    BY <1>1, <2>1, <2>2 DEF ReplaceStateFile, IInv, PendingChangesOneLease
<1>2. CASE ~ReplaceStateFile
  BY <1>2 DEF Next, Call, vars, files, RejectState, AllocateExisting,
     AllocateExhausted, ReleaseNothing, AllocateNew, Release, OpenTemporary,
     DumpTemporary, Return, Crash
<1> QED
  BY <1>1, <1>2

(* A state file that does not validate is never overwritten, and a valid   *)
(* one is only replaced by a valid one.                                    *)
THEOREM FileValidity == Spec => KeepsFileValid
<1>1. ASSUME IInv, [Next]_vars
      PROVE  IF LoadAccepts THEN LoadAccepts' ELSE stateFile' = stateFile
  BY <1>1, StepOnDisk DEF LoadAccepts, Loaded
<1> QED
  BY <1>1, IInvHolds, PTL DEF Spec, KeepsFileValid

(* A lease on disk never turns into another address.                       *)
THEOREM LeaseStability == Spec => LeaseIsStable
<1>1. ASSUME IInv, [Next]_vars
      PROVE  \A m \in Machine :
               Loaded.leases[m] # NoLease =>
                 Loaded'.leases[m] \in {Loaded.leases[m], NoLease}
  <2> SUFFICES ASSUME NEW m \in Machine, Loaded.leases[m] # NoLease
               PROVE  Loaded'.leases[m] \in {Loaded.leases[m], NoLease}
    OBVIOUS
  <2>1. CASE stateFile' = stateFile
    BY <2>1 DEF Loaded
  <2>2. CASE stateFile' # stateFile
    BY <1>1, <2>2, StepOnDisk
  <2> QED
    BY <2>1, <2>2
<1> QED
  BY <1>1, IInvHolds, PTL DEF Spec, LeaseIsStable

-----------------------------------------------------------------------------
(* The allocator implements the lease table: the state file, read as a     *)
(* table of leases, starts as a legal table and changes by one whole Grant *)
(* or Revoke at a time.                                                    *)
LEMMA InitImplements == Init => Table!Init
<1> SUFFICES ASSUME Init PROVE Table!Init
  OBVIOUS
<1>1. Loaded \in StateFile
  BY NewStateIsValid, PriorAssumption DEF Init, Loaded
<1>2. \E s \in StateFile : ValidState(s) /\ DiskLeases = s.leases
  BY <1>1, NewStateIsValid DEF DiskLeases, LoadAccepts
<1>3. PICK s \in StateFile : ValidState(s) /\ DiskLeases = s.leases
  BY <1>2
<1>4. \A m \in Machine : s.leases[m] \in Guest \cup {NoLease}
  BY <1>3, ValidLeaseIsGuest
<1>5. DiskLeases \in [Machine -> Guest \cup {NoLease}]
  BY <1>3, <1>4 DEF StateFile
<1> QED
  BY <1>3, <1>5 DEF Table!Init, ValidState, NoDuplicateLease

LEMMA StepImplements ==
  ASSUME IInv, [Next]_vars
  PROVE  [Table!Next]_DiskLeases
<1>1. CASE stateFile' = stateFile
  BY <1>1 DEF DiskLeases, LoadAccepts, Loaded
<1>2. CASE stateFile' # stateFile
  <2> DEFINE old == Loaded.leases
             new == pending.leases
  <2>1. /\ LoadAccepts /\ LoadAccepts' /\ Loaded' = pending
        /\ old[caller] = NoLease \/ new[caller] = NoLease
        /\ \A m \in Machine \ {caller} : new[m] = old[m]
    BY <1>2, StepOnDisk
  <2>2. DiskLeases = old /\ DiskLeases' = new
    BY <2>1 DEF DiskLeases
  <2>3. /\ Loaded \in StateFile /\ pending \in StateFile
        /\ ValidState(pending) /\ caller \in Machine
    BY <2>1, LoadedIsState DEF IInv, TypeOK, LoadAccepts
  <2>4. old \in [Machine -> Nat \cup {NoLease}]
        /\ new \in [Machine -> Nat \cup {NoLease}]
    BY <2>3 DEF StateFile
  <2>5. new = [old EXCEPT ![caller] = new[caller]]
    BY <2>1, <2>3, <2>4
  <2>6. CASE new[caller] = old[caller]
    BY <2>2, <2>4, <2>5, <2>6
  <2>7. CASE new[caller] # old[caller] /\ new[caller] = NoLease
    BY <2>2, <2>3, <2>5, <2>7 DEF Table!Next, Table!Revoke
  <2>8. CASE new[caller] # old[caller] /\ new[caller] # NoLease
    <3>1. old[caller] = NoLease
      BY <2>1, <2>8
    <3>2. new[caller] \in Guest
      BY <2>3, <2>8, ValidLeaseIsGuest
    <3>3. \A m \in Machine : old[m] # new[caller]
      BY <2>1, <2>3, <2>8, <3>1 DEF ValidState, NoDuplicateLease
    <3>4. Table!Grant(caller)
      BY <2>2, <2>5, <3>1, <3>2, <3>3 DEF Table!Grant, Table!Free
    <3> QED
      BY <2>3, <3>4 DEF Table!Next
  <2> QED
    BY <2>6, <2>7, <2>8
<1> QED
  BY <1>1, <1>2

THEOREM IpamImplementsLeaseTable == Spec => ImplementsLeaseTable
<1>1. IInv /\ [Next]_vars => [Table!Next]_DiskLeases
  BY StepImplements
<1> QED
  BY <1>1, InitImplements, IInvHolds, PTL
     DEF Spec, ImplementsLeaseTable, Table!Spec

-----------------------------------------------------------------------------
(* The cursor passes over the whole pool before any address is reused.     *)
(* The argument: until the cursor first wraps, the addresses ever leased   *)
(* are exactly those behind it.                                            *)
FreshInv ==
  /\ LoadAccepts
  /\ LeasedIn(Loaded) \subseteq everLeased
  /\ everLeased \subseteq Guest
  /\ everLeased # Guest => everLeased = FirstGuest .. (Loaded.next - 1)

PendingIsFresh ==
  pc \in {"open", "dump", "replace"} =>
    \/ /\ LeasedIn(pending) \subseteq LeasedIn(Loaded)
       /\ pending.next = Loaded.next
    \/ /\ LeasedIn(pending) \subseteq
             LeasedIn(Loaded) \cup {Candidate(Loaded)}
       /\ Candidate(Loaded) \in LeasedIn(pending)
       /\ Candidate(Loaded) \in Unleased(Loaded)
       /\ pending.next = NextGuestIp(Candidate(Loaded))

(* While an address was never leased, the scan stops at the cursor.        *)
LEMMA CandidateIsCursor ==
  ASSUME FreshInv, everLeased # Guest
  PROVE  Candidate(Loaded) = Loaded.next
<1> DEFINE free  == Unleased(Loaded)
           ahead == {a \in free : a >= Loaded.next}
<1>1. Loaded.next \in Guest /\ Loaded.next \in Nat
  BY PoolAssumption DEF FreshInv, LoadAccepts, ValidState, Guest
<1>2. Loaded.next \in free
  BY <1>1, PoolAssumption DEF FreshInv, Unleased
<1>3. free \subseteq Nat
  BY PoolAssumption DEF Unleased, Guest
<1>4. Loaded.next \in ahead /\ \A b \in ahead : Loaded.next <= b
  BY <1>1, <1>2, <1>3
<1>5. \A a \in ahead : (\A b \in ahead : a <= b) => a = Loaded.next
  BY <1>1, <1>3, <1>4
<1> HIDE DEF ahead
<1>6. (CHOOSE a \in ahead : \A b \in ahead : a <= b) = Loaded.next
  BY <1>4, <1>5
<1> QED
  BY <1>4, <1>6 DEF Candidate, ahead

(* Replacing the state file moves the cursor past what it leased.          *)
LEMMA ReplaceIsFresh ==
  ASSUME IInv, FreshInv, PendingIsFresh, ReplaceStateFile
  PROVE  FreshInv'
<1>1. /\ Loaded' = pending /\ LoadAccepts'
      /\ everLeased' = everLeased \cup LeasedIn(pending)
      /\ ValidState(pending)
  BY SentinelAssumption DEF ReplaceStateFile, IInv, WriteIsWhole, TypeOK,
     Loaded, PendingIsValid, LoadAccepts
<1>2. LeasedIn(Loaded') \subseteq everLeased' /\ everLeased' \subseteq Guest
  BY <1>1 DEF FreshInv, ValidState
<1>3. ASSUME everLeased' # Guest
      PROVE  everLeased' = FirstGuest .. (pending.next - 1)
  <2>1. everLeased # Guest
    BY <1>1, <1>2, <1>3 DEF FreshInv
  <2>2. /\ everLeased = FirstGuest .. (Loaded.next - 1)
        /\ Loaded.next \in Guest
    BY <2>1 DEF FreshInv, LoadAccepts, ValidState
  <2>3. CASE /\ LeasedIn(pending) \subseteq LeasedIn(Loaded)
             /\ pending.next = Loaded.next
    BY <1>1, <2>2, <2>3 DEF FreshInv
  <2>4. CASE /\ LeasedIn(pending) \subseteq
                  LeasedIn(Loaded) \cup {Candidate(Loaded)}
             /\ Candidate(Loaded) \in LeasedIn(pending)
             /\ pending.next = NextGuestIp(Candidate(Loaded))
    <3>1. Candidate(Loaded) = Loaded.next
      BY <2>1, CandidateIsCursor
    <3>2. everLeased' = FirstGuest .. Loaded.next
      <4>1. everLeased' = everLeased \cup {Loaded.next}
        BY <1>1, <2>4, <3>1 DEF FreshInv
      <4> QED
        BY <2>2, <4>1, PoolAssumption DEF Guest
    <3>3. Loaded.next # LastGuest
      BY <1>3, <3>2 DEF Guest
    <3> QED
      BY <2>2, <2>4, <3>1, <3>2, <3>3, PoolAssumption DEF NextGuestIp, Guest
  <2> QED
    BY <2>3, <2>4 DEF PendingIsFresh, ReplaceStateFile
<1> QED
  BY <1>1, <1>2, <1>3 DEF FreshInv

(* Starting without a state file, no address is leased a second time while *)
(* another was never leased.                                               *)
THEOREM FreshFirst == Prior = {} => (Spec => FreshBeforeReuse)
<1> SUFFICES ASSUME Prior = {} PROVE Spec => FreshBeforeReuse
  OBVIOUS
<1> DEFINE FInv == FreshInv /\ PendingIsFresh
<1>1. Init => FInv
  BY NewStateIsValid, PoolAssumption
     DEF Init, FreshInv, PendingIsFresh, LoadAccepts, Loaded, NewState,
         LeasedIn, Guest
<1>2. IInv /\ FInv /\ [Next]_vars => FInv'
  <2> SUFFICES ASSUME IInv, FInv, [Next]_vars PROVE FInv'
    OBVIOUS
  <2>0. Loaded \in StateFile /\ Loaded.leases \in [Machine -> Nat \cup {NoLease}]
    BY LoadedIsState DEF IInv, StateFile
  <2>1. ASSUME NEW m \in Machine, AllocateNew(m) PROVE FInv'
    <3>1. Candidate(Loaded) \in Unleased(Loaded)
      BY <2>1, CandidateIsFree DEF AllocateNew
    <3>2. /\ pending'.next = NextGuestIp(Candidate(Loaded))
          /\ pending'.leases = [Loaded.leases EXCEPT ![m] = Candidate(Loaded)]
      BY <2>1 DEF AllocateNew, WithLease
    <3>3. Candidate(Loaded) # NoLease
      BY <3>1, SentinelAssumption, PoolAssumption DEF Unleased, Guest
    <3>4. /\ LeasedIn(pending') \subseteq
               LeasedIn(Loaded) \cup {Candidate(Loaded)}
          /\ Candidate(Loaded) \in LeasedIn(pending')
      BY <2>0, <3>2, <3>3 DEF LeasedIn
    <3>5. UNCHANGED <<stateFile, everLeased>> /\ Loaded' = Loaded
      BY <2>1 DEF AllocateNew, files, Loaded
    <3>6. PendingIsFresh'
      BY <3>1, <3>2, <3>4, <3>5 DEF PendingIsFresh
    <3>7. FreshInv'
      BY <3>5 DEF FreshInv, LoadAccepts
    <3> QED
      BY <3>6, <3>7
  <2>2. ASSUME NEW m \in Machine, Release(m) PROVE FInv'
    <3>1. /\ pending'.next = Loaded.next
          /\ pending'.leases = [Loaded.leases EXCEPT ![m] = NoLease]
      BY <2>0, <2>2 DEF Release, WithoutLease, StateFile
    <3>2. LeasedIn(pending') \subseteq LeasedIn(Loaded)
      BY <2>0, <3>1 DEF LeasedIn
    <3>3. UNCHANGED <<stateFile, everLeased>> /\ Loaded' = Loaded
      BY <2>2 DEF Release, files, Loaded
    <3> QED
      BY <3>1, <3>2, <3>3 DEF PendingIsFresh, FreshInv, LoadAccepts
  <2>3. ASSUME ReplaceStateFile PROVE FInv'
    <3>1. PendingIsFresh'
      BY <2>3 DEF ReplaceStateFile, PendingIsFresh
    <3> QED
      BY <2>3, <3>1, ReplaceIsFresh
  <2>4. ASSUME UNCHANGED <<stateFile, everLeased>>,
               \/ UNCHANGED <<pc, pending>>
               \/ pc = "open" /\ pc' = "dump" /\ pending' = pending
               \/ pc = "dump" /\ pc' = "replace" /\ pending' = pending
               \/ pc' = "idle"
        PROVE  FInv'
    BY <2>4 DEF FreshInv, PendingIsFresh, LoadAccepts, Loaded
  <2>5. ASSUME NEW m \in Machine,
               \/ RejectState(m) \/ AllocateExisting(m)
               \/ AllocateExhausted(m) \/ ReleaseNothing(m)
        PROVE  FInv'
    BY <2>4, <2>5 DEF RejectState, AllocateExisting, AllocateExhausted,
       ReleaseNothing, files
  <2>6. ASSUME OpenTemporary \/ DumpTemporary \/ Return \/ Crash
               \/ UNCHANGED vars
        PROVE  FInv'
    BY <2>4, <2>6 DEF OpenTemporary, DumpTemporary, Return, Crash, files,
       vars
  <2> QED
    BY <2>1, <2>2, <2>3, <2>5, <2>6 DEF Next, Call
<1>3. ASSUME IInv, FInv, [Next]_vars, NEW m \in Machine,
             Loaded.leases[m] = NoLease, Loaded'.leases[m] # NoLease,
             Loaded'.leases[m] \in everLeased
      PROVE  everLeased = Guest
  <2>1. stateFile' # stateFile
    BY <1>3 DEF Loaded
  <2>2. ReplaceStateFile
    BY <1>3, <2>1 DEF Next, Call, vars, files, RejectState,
       AllocateExisting, AllocateExhausted, ReleaseNothing, AllocateNew,
       Release, OpenTemporary, DumpTemporary, Return, Crash
  <2>3. Loaded' = pending
    BY <1>3, <2>2, SentinelAssumption
       DEF ReplaceStateFile, IInv, WriteIsWhole, TypeOK, Loaded
  <2>4. \A n \in Machine \ {caller} : pending.leases[n] = Loaded.leases[n]
    BY <1>3, <2>2 DEF ReplaceStateFile, IInv, PendingChangesOneLease
  <2>5. m = caller
    BY <1>3, <2>3, <2>4
  <2>6. pending.leases[m] \in LeasedIn(pending)
    BY <1>3, <2>3 DEF LeasedIn
  <2>7. pending.leases[m] \notin LeasedIn(Loaded)
    <3>1. ValidState(pending) /\ Loaded.leases[m] = NoLease
      BY <1>3, <2>2 DEF ReplaceStateFile, IInv, PendingIsValid
    <3>2. \A n \in Machine : Loaded.leases[n] # pending.leases[m]
      BY <1>3, <2>3, <2>4, <2>5, <3>1 DEF ValidState, NoDuplicateLease
    <3> QED
      BY <3>2 DEF LeasedIn
  <2>8. pending.leases[m] = Candidate(Loaded)
    BY <1>3, <2>2, <2>6, <2>7 DEF PendingIsFresh, ReplaceStateFile
  <2>9. SUFFICES ASSUME everLeased # Guest PROVE FALSE
    OBVIOUS
  <2>10. Candidate(Loaded) = Loaded.next
    BY <1>3, <2>9, CandidateIsCursor
  <2>11. Loaded.next \in Guest
    BY <1>3 DEF FreshInv, LoadAccepts, ValidState
  <2> QED
    BY <1>3, <2>3, <2>8, <2>9, <2>10, <2>11, PoolAssumption
       DEF FreshInv, Guest
<1>4. IInv /\ FInv /\ [Next]_vars =>
        [\A m \in Machine :
           /\ Loaded.leases[m] = NoLease
           /\ Loaded'.leases[m] # NoLease
           /\ Loaded'.leases[m] \in everLeased
           => everLeased = Guest]_vars
  BY <1>3
<1> QED
  BY <1>1, <1>2, <1>4, IInvHolds, PTL DEF Spec, FreshBeforeReuse

-----------------------------------------------------------------------------
(***************************************************************************)
(* The loop of the scan and its closed form. Tried is the address of the   *)
(* k-th try, Tries the tries that would succeed, and Found what the loop   *)
(* returns; Found satisfies the equation of the loop, so there is a        *)
(* function that does, and by induction over the tries no other one.       *)
(***************************************************************************)
Tried(a, k) == IF a + k <= LastGuest THEN a + k ELSE a + k - Capacity

Tries(used, t, a) == {k \in 0 .. t - 1 : Tried(a, k) \notin used}

LeastTry(K) == CHOOSE k \in K : \A l \in K : k <= l

Found(used, t, a) ==
  IF Tries(used, t, a) = {} THEN NoLease
  ELSE Tried(a, LeastTry(Tries(used, t, a)))

LEMMA LeastTryIsLeast ==
  ASSUME NEW K \in SUBSET Nat, K # {}
  PROVE  LeastTry(K) \in K /\ \A l \in K : LeastTry(K) <= l
BY LeastOfNaturals DEF LeastTry

LEMMA CapacityIsNumber ==
  /\ Capacity \in Nat /\ Capacity >= 1
  /\ \A a \in Guest : a \in Nat /\ NextGuestIp(a) \in Guest
BY PoolAssumption DEF Capacity, Guest, NextGuestIp

(* The address after the first is where the remaining tries start.         *)
LEMMA TriesShift ==
  ASSUME NEW a \in Guest, NEW k \in 0 .. Capacity - 2
  PROVE  Tried(a, k + 1) = Tried(NextGuestIp(a), k)
<1>1. a \in Nat /\ k \in Nat /\ k + 2 <= Capacity
  BY CapacityIsNumber
<1>2. CASE a = LastGuest
  <2>1. FirstGuest + k <= LastGuest
    BY <1>1, PoolAssumption DEF Capacity
  <2> QED
    BY <1>1, <1>2, <2>1, PoolAssumption DEF Tried, NextGuestIp, Capacity
<1>3. CASE a # LastGuest
  <2>1. NextGuestIp(a) = a + 1
    BY <1>3 DEF NextGuestIp
  <2>2. Tried(a, k + 1) = Tried(a + 1, k)
    BY <1>1, CapacityIsNumber, PoolAssumption DEF Tried
  <2> QED
    BY <2>1, <2>2
<1> QED
  BY <1>2, <1>3

LEMMA FoundIsStep ==
  ASSUME NEW used, NEW t \in 0 .. Capacity, NEW a \in Guest
  PROVE  Found(used, t, a) =
           IF t = 0 THEN NoLease
           ELSE IF a \notin used THEN a
           ELSE Found(used, t - 1, NextGuestIp(a))
<1> DEFINE K == Tries(used, t, a)
           next == NextGuestIp(a)
           L == Tries(used, t - 1, next)
<1>0. t \in Nat /\ t <= Capacity /\ a \in Nat /\ a <= LastGuest
  BY CapacityIsNumber DEF Guest
<1>1. CASE t = 0
  <2>1. K = {}
    BY <1>1 DEF Tries
  <2> QED
    BY <1>1, <2>1 DEF Found
<1>2. CASE t # 0 /\ a \notin used
  <2>1. Tried(a, 0) = a
    BY <1>0 DEF Tried
  <2>2. 0 \in K /\ K \in SUBSET Nat
    BY <1>0, <1>2, <2>1 DEF Tries
  <2>3. LeastTry(K) = 0
    <3>1. LeastTry(K) \in K /\ LeastTry(K) <= 0
      BY <2>2, LeastTryIsLeast
    <3> QED
      BY <2>2, <3>1
  <2> QED
    BY <1>2, <2>1, <2>2, <2>3 DEF Found
<1>3. CASE t # 0 /\ a \in used
  <2>1. next \in Guest
    BY CapacityIsNumber
  <2>2. \A k \in 0 .. t - 2 : Tried(a, k + 1) = Tried(next, k)
    <3>1. \A k \in 0 .. t - 2 : k \in 0 .. Capacity - 2
      BY <1>0, CapacityIsNumber
    <3> QED
      BY <3>1, TriesShift
  <2>3. 0 \notin K
    BY <1>0, <1>3 DEF Tries, Tried
  <2>4. K \in SUBSET Nat /\ L \in SUBSET Nat
    BY <1>0, <1>3 DEF Tries
  <2>5. \A k \in Nat : k \in L <=> k + 1 \in K
    BY <1>0, <1>3, <2>2 DEF Tries
  <2>6. \A k \in K : k - 1 \in L /\ k - 1 \in Nat
    <3> TAKE k \in K
    <3>1. k \in Nat /\ k # 0
      BY <2>3, <2>4
    <3> DEFINE i == k - 1
    <3>2. i \in Nat /\ i + 1 = k
      BY <3>1
    <3> HIDE DEF i
    <3>3. i \in L
      BY <2>5, <3>2
    <3> QED
      BY <3>2, <3>3 DEF i
  <2> HIDE DEF K, L, next
  <2>7. CASE K = {}
    <3>1. L = {}
      BY <2>4, <2>5, <2>7
    <3> QED
      BY <1>3, <2>7, <3>1 DEF Found, K, L, next
  <2>8. CASE K # {}
    <3>1. L # {}
      BY <2>6, <2>8
    <3> DEFINE k == LeastTry(K)
               l == LeastTry(L)
    <3>2. k \in K /\ \A i \in K : k <= i
      BY <2>4, <2>8, LeastTryIsLeast
    <3>3. l \in L /\ \A i \in L : l <= i
      BY <2>4, <3>1, LeastTryIsLeast
    <3> HIDE DEF k, l
    <3>4. k \in Nat /\ l \in Nat /\ l + 1 \in K /\ k - 1 \in L
      BY <2>4, <2>5, <2>6, <3>2, <3>3
    <3>5. k <= l + 1 /\ l <= k - 1
      BY <3>2, <3>3, <3>4
    <3>6. k = l + 1
      BY <3>4, <3>5
    <3>7. l \in 0 .. t - 2
      BY <1>0, <3>3, <3>4 DEF L, Tries
    <3>8. Tried(a, k) = Tried(next, l)
      BY <2>2, <3>6, <3>7
    <3> QED
      BY <1>3, <2>8, <3>1, <3>8 DEF Found, K, L, k, l, next
  <2> QED
    BY <2>7, <2>8
<1> QED
  BY <1>1, <1>2, <1>3

LEMMA ScanIsFound ==
  ASSUME NEW used, NEW a \in Guest
  PROVE  Scan(used)[Capacity][a] = Found(used, Capacity, a)
<1> DEFINE Step(f) ==
             [t \in 0 .. Capacity |->
                [b \in Guest |->
                   IF t = 0 THEN NoLease
                   ELSE IF b \notin used THEN b
                   ELSE f[t - 1][NextGuestIp(b)]]]
           g == [t \in 0 .. Capacity |-> [b \in Guest |-> Found(used, t, b)]]
           try == Scan(used)
<1>0. Capacity \in Nat /\ \A b \in Guest : NextGuestIp(b) \in Guest
  BY CapacityIsNumber
<1>1. g = Step(g)
  <2>1. ASSUME NEW t \in 0 .. Capacity, NEW b \in Guest
        PROVE  g[t][b] = IF t = 0 THEN NoLease
                         ELSE IF b \notin used THEN b
                         ELSE g[t - 1][NextGuestIp(b)]
    <3>1. g[t][b] = Found(used, t, b)
      OBVIOUS
    <3>2. t # 0 => t - 1 \in 0 .. Capacity
      BY <1>0
    <3>3. t # 0 => g[t - 1][NextGuestIp(b)] = Found(used, t - 1, NextGuestIp(b))
      BY <1>0, <3>2
    <3> HIDE DEF g
    <3> QED
      BY <3>1, <3>3, FoundIsStep
  <2>2. \A t \in 0 .. Capacity : g[t] = Step(g)[t]
    <3> TAKE t \in 0 .. Capacity
    <3>1. /\ g[t] = [b \in Guest |-> g[t][b]]
          /\ Step(g)[t] = [b \in Guest |->
                             IF t = 0 THEN NoLease
                             ELSE IF b \notin used THEN b
                             ELSE g[t - 1][NextGuestIp(b)]]
      OBVIOUS
    <3> HIDE DEF g, Step
    <3> QED
      BY <2>1, <3>1
  <2>3. g = [t \in 0 .. Capacity |-> g[t]]
    OBVIOUS
  <2>4. Step(g) = [t \in 0 .. Capacity |-> Step(g)[t]]
    OBVIOUS
  <2> HIDE DEF g, Step
  <2> QED
    BY <2>2, <2>3, <2>4
<1>2. try = CHOOSE f : f = Step(f)
  BY DEF Scan
<1>3. try = Step(try)
  <2> HIDE DEF try, g, Step
  <2> QED
    BY <1>1, <1>2, Zenon
<1>4. \A t \in 0 .. Capacity, b \in Guest :
        try[t][b] = IF t = 0 THEN NoLease
                    ELSE IF b \notin used THEN b
                    ELSE try[t - 1][NextGuestIp(b)]
  <2>1. \A f : \A t \in 0 .. Capacity, b \in Guest :
          Step(f)[t][b] = IF t = 0 THEN NoLease
                          ELSE IF b \notin used THEN b
                          ELSE f[t - 1][NextGuestIp(b)]
    OBVIOUS
  <2> HIDE DEF try, Step
  <2> QED
    BY <1>3, <2>1
<1> HIDE DEF try, g, Step
<1>5. \A t \in 0 .. Capacity, b \in Guest : try[t][b] = Found(used, t, b)
  <2> DEFINE Bad == {t \in 0 .. Capacity :
                       \E b \in Guest : try[t][b] # Found(used, t, b)}
  <2>1. SUFFICES ASSUME Bad # {}  PROVE FALSE
    BY <2>1
  <2>2. Bad \in SUBSET Nat
    BY <1>0
  <2>3. PICK t \in Bad : \A s \in Bad : t <= s
    BY <2>1, <2>2, LeastOfNaturals
  <2>4. PICK b \in Guest : try[t][b] # Found(used, t, b)
    BY <2>3
  <2>5. t \in 0 .. Capacity
    OBVIOUS
  <2>6. CASE t = 0
    BY <1>4, <2>4, <2>5, <2>6, FoundIsStep
  <2>7. CASE t # 0
    <3>1. t - 1 \in 0 .. Capacity /\ ~ (t <= t - 1)
      BY <1>0, <2>5, <2>7
    <3>2. t - 1 \notin Bad
      BY <2>3, <3>1
    <3>3. try[t - 1][NextGuestIp(b)] = Found(used, t - 1, NextGuestIp(b))
      BY <1>0, <3>1, <3>2
    <3> HIDE DEF Bad
    <3> QED
      BY <1>4, <2>4, <2>5, <2>7, <3>3, FoundIsStep
  <2> QED
    BY <2>6, <2>7
<1>6. Capacity \in 0 .. Capacity
  BY <1>0
<1> QED
  BY <1>5, <1>6 DEF try

(* All addresses of the pool are tried, from the cursor upwards.           *)
LEMMA FoundIsCandidate ==
  ASSUME NEW s, s.next \in Guest
  PROVE  Found(LeasedIn(s), Capacity, s.next) =
           IF Unleased(s) = {} THEN NoLease ELSE Candidate(s)
<1> DEFINE used == LeasedIn(s)
           a == s.next
           K == Tries(used, Capacity, a)
           turn(b) == IF b >= a THEN b - a ELSE b - a + Capacity
<1>0. /\ a \in Nat /\ FirstGuest \in Nat /\ LastGuest \in Nat
      /\ FirstGuest <= a /\ a <= LastGuest
      /\ Capacity = LastGuest - FirstGuest + 1
  BY PoolAssumption DEF Guest, Capacity
<1> HIDE DEF a
<1>1. \A b \in Guest :
        turn(b) \in 0 .. Capacity - 1 /\ Tried(a, turn(b)) = b
  BY <1>0 DEF Guest, Tried
<1>2. \A k \in 0 .. Capacity - 1 : Tried(a, k) \in Guest /\ turn(Tried(a, k)) = k
  BY <1>0 DEF Guest, Tried
<1>3. \A b \in Unleased(s) : turn(b) \in K
  BY <1>1 DEF Tries, Unleased
<1>4. \A k \in K : k \in 0 .. Capacity - 1 /\ Tried(a, k) \in Unleased(s)
  BY <1>2 DEF Tries, Unleased
<1>5. K \in SUBSET Nat
  BY <1>0 DEF Tries
<1> HIDE DEF K
<1>6. CASE Unleased(s) = {}
  <2>1. K = {}
    BY <1>4, <1>6
  <2> QED
    BY <1>6, <2>1 DEF Found, K, a
<1>7. CASE Unleased(s) # {}
  <2> DEFINE ahead == {b \in Unleased(s) : b >= a}
             scan  == IF ahead # {} THEN ahead ELSE Unleased(s)
             k == LeastTry(K)
             x == Tried(a, k)
  <2>1. K # {}
    BY <1>3, <1>7
  <2>2. k \in K /\ \A l \in K : k <= l
    BY <1>5, <2>1, LeastTryIsLeast
  <2> HIDE DEF k
  <2>3. /\ k \in 0 .. Capacity - 1 /\ x \in Unleased(s) /\ x \in Guest
        /\ turn(x) = k
    BY <1>2, <1>4, <2>2
  <2>4. \A b \in Unleased(s) : b \in Guest /\ turn(x) <= turn(b)
    BY <1>3, <2>2, <2>3 DEF Unleased
  <2>5. \A b \in Guest : b \in Nat /\ FirstGuest <= b /\ b <= LastGuest
    BY <1>0 DEF Guest
  <2> HIDE DEF x
  <2>6. x \in scan /\ \A b \in scan : x <= b
    <3>1. CASE ahead # {}
      <4>1. PICK c \in ahead : TRUE
        BY <3>1
      <4>2. c \in Nat /\ c >= a /\ c <= LastGuest /\ turn(x) <= turn(c)
        BY <2>4, <2>5
      <4>3. x >= a
        BY <1>0, <2>3, <2>5, <4>2
      <4>4. x \in ahead
        BY <2>3, <4>3
      <4>5. \A b \in ahead : x <= b
        <5> TAKE b \in ahead
        <5>1. b \in Nat /\ b >= a /\ turn(x) <= turn(b)
          BY <2>4, <2>5
        <5> QED
          BY <1>0, <2>3, <2>5, <4>3, <5>1
      <4> QED
        BY <3>1, <4>4, <4>5
    <3>2. CASE ahead = {}
      <4>1. \A b \in Unleased(s) : b \in Nat /\ b < a
        BY <1>0, <2>4, <2>5, <3>2
      <4>2. \A b \in Unleased(s) : x <= b
        BY <1>0, <2>3, <2>4, <4>1
      <4> QED
        BY <2>3, <3>2, <4>2
    <3> QED
      BY <3>1, <3>2
  <2>7. \A y \in scan : (\A b \in scan : y <= b) => y = x
    <3>1. \A y \in scan : y \in Nat
      BY <2>4, <2>5
    <3> HIDE DEF scan
    <3> QED
      BY <2>6, <3>1
  <2>8. x = CHOOSE y \in scan : \A b \in scan : y <= b
    <3> HIDE DEF scan
    <3> QED
      BY <2>6, <2>7
  <2>9. Candidate(s) = x
    BY <2>8 DEF Candidate, a
  <2> QED
    BY <1>7, <2>1, <2>9 DEF Found, K, k, x, a
<1> QED
  BY <1>6, <1>7

(* The loop of allocate finds the first free address behind the cursor, or *)
(* none when the pool is full, whatever the size of the pool.              *)
THEOREM ScanFindsCandidate == Spec => []CandidateIsScan
<1>1. CandidateIsScan
  <2> SUFFICES ASSUME LoadAccepts
               PROVE  Scan(LeasedIn(Loaded))[Capacity][Loaded.next] =
                        IF Unleased(Loaded) = {} THEN NoLease
                        ELSE Candidate(Loaded)
    BY DEF CandidateIsScan
  <2>1. Loaded.next \in Guest
    BY DEF LoadAccepts, ValidState
  <2> QED
    BY <2>1, ScanIsFound, FoundIsCandidate
<1> QED
  BY <1>1, PTL

=============================================================================
