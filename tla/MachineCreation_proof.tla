----------------------- MODULE MachineCreation_proof -----------------------
(***************************************************************************)
(* The management network and the success of MachineCreation, for any      *)
(* number of runs, manifests, interfaces, faults and interventions. The    *)
(* plan of a manifest, the effect of its steps, the search for the         *)
(* management interface and a run from its first step to done come first;  *)
(* then a run that nothing disturbs, and the life of a machine that the    *)
(* many calls amount to.                                                   *)
(***************************************************************************)
EXTENDS MachineCreation, SequenceTheorems, TLAPS

(***************************************************************************)
(* The plan of a manifest: first the parts, then the adapters, each slot   *)
(* once but for the one whose NAT is opened to the host afterwards.        *)
(***************************************************************************)
LEMMA PartsAreSteps == \A p \in Part : AddPart(p) \in PartStep
  BY DEF AddPart, PartStep

(* The parts are steps, the disk among them.                               *)
LEMMA PartPlan ==
  ASSUME NEW j \in Job
  PROVE  /\ PartSteps(j) \in Seq(PartStep)
         /\ \E k \in 1 .. Len(PartSteps(j)) : PartSteps(j)[k] = AddPart("disk")
<1> DEFINE S == When(j.secure, SecureBootSteps)
           HD == HardwareSteps \o DiskSteps
           HDS == HD \o S
           M == MediaSteps(j)
           P == HDS \o M
<1>1. HardwareSteps \in Seq(PartStep) /\ Len(HardwareSteps) = 2
  BY PartsAreSteps DEF HardwareSteps, Part
<1>2. /\ DiskSteps \in Seq(PartStep) /\ Len(DiskSteps) = 2
      /\ DiskSteps[1] = AddPart("disk")
  BY PartsAreSteps DEF DiskSteps, Part
<1>3. S \in Seq(PartStep)
  BY PartsAreSteps, EmptySeq DEF When, SecureBootSteps, Part
<1>4. M \in Seq(PartStep)
  <2> DEFINE V == <<AddPart("vendor")>>
             D == When(AttachesSeed(j), <<AddPart("seed")>>)
             A == When(j.family = "windows", <<AddPart("additions")>>)
  <2>1. V \in Seq(PartStep) /\ D \in Seq(PartStep) /\ A \in Seq(PartStep)
    BY PartsAreSteps, EmptySeq DEF When, Part
  <2> HIDE DEF V, D, A
  <2>2. V \o D \in Seq(PartStep)
    BY <2>1, ConcatProperties, Zenon
  <2>3. (V \o D) \o A \in Seq(PartStep)
    BY <2>1, <2>2, ConcatProperties, Zenon
  <2> QED
    BY <2>3 DEF MediaSteps, V, D, A
<1> HIDE DEF S, M
<1>5. HD \in Seq(PartStep)
  BY <1>1, <1>2, ConcatProperties, Zenon
<1>6. /\ Len(HD) = Len(HardwareSteps) + Len(DiskSteps)
      /\ \A i \in 1 .. Len(HardwareSteps) + Len(DiskSteps) :
           HD[i] = IF i <= Len(HardwareSteps) THEN HardwareSteps[i]
                   ELSE DiskSteps[i - Len(HardwareSteps)]
  BY <1>1, <1>2, ConcatProperties, Zenon
<1> HIDE DEF HD
<1>7. HDS \in Seq(PartStep)
  BY <1>3, <1>5, ConcatProperties, Zenon
<1>8. /\ Len(HDS) = Len(HD) + Len(S)
      /\ \A i \in 1 .. Len(HD) + Len(S) :
           HDS[i] = IF i <= Len(HD) THEN HD[i] ELSE S[i - Len(HD)]
  BY <1>3, <1>5, ConcatProperties, Zenon
<1> HIDE DEF HDS
<1>9. P \in Seq(PartStep)
  BY <1>4, <1>7, ConcatProperties, Zenon
<1>10. /\ Len(P) = Len(HDS) + Len(M)
       /\ \A i \in 1 .. Len(HDS) + Len(M) :
            P[i] = IF i <= Len(HDS) THEN HDS[i] ELSE M[i - Len(HDS)]
  BY <1>4, <1>7, ConcatProperties, Zenon
<1> HIDE DEF P
<1>11. Len(S) \in Nat /\ Len(M) \in Nat
  BY <1>3, <1>4, LenProperties
<1>12. HD[3] = AddPart("disk") /\ Len(HD) = 4
  BY <1>1, <1>2, <1>6
<1>13. HDS[3] = AddPart("disk") /\ Len(HDS) >= 4
  BY <1>8, <1>11, <1>12
<1>14. 3 \in 1 .. Len(P) /\ P[3] = AddPart("disk")
  BY <1>10, <1>11, <1>13
<1>15. PartSteps(j) = P
  BY DEF PartSteps, P, HDS, HD, S, M
<1> QED
  BY <1>9, <1>14, <1>15

(* A slot gets one role, but for NAT that is opened to the host later.     *)
OncePerSlot(s) ==
  \A i, k \in 1 .. Len(s) :
    /\ i < k
    /\ s[i].what = "nic" /\ s[k].what = "nic"
    /\ s[i].slot = s[k].slot
    => s[i].role = "nat" /\ s[k].role = "nat-host"

(* NAT is opened to the host behind the step that made the adapter.        *)
NatBeforeHost(s) ==
  \A k \in 1 .. Len(s) :
    s[k].role = "nat-host" =>
      \E i \in 1 .. Len(s) : i < k /\ s[i] = SetRole(s[k].slot, "nat")

(* The adapters keep both rules, and a management adapter is there.        *)
LEMMA AdapterPlan ==
  ASSUME NEW j \in Job
  PROVE  /\ AdapterSteps(j) \in Seq(NicStep)
         /\ OncePerSlot(AdapterSteps(j)) /\ NatBeforeHost(AdapterSteps(j))
         /\ j.management =>
              \E k \in 1 .. Len(AdapterSteps(j)) :
                AdapterSteps(j)[k] =
                  SetRole(ManagementSlot(j.topology, j.internet, TRUE),
                          "management")
<1> DEFINE n == j.topology
           c == Count(j.internet)
           T == [i \in 1 .. n |-> SetRole(i, "topology")]
           I == When(j.internet, <<SetRole(InternetSlot(n, TRUE), "nat")>>)
           K == When(j.family = "kali",
                     <<SetRole(InternetSlot(n, TRUE), "nat-host")>>)
           M == When(j.management,
                     <<SetRole(ManagementSlot(n, j.internet, TRUE),
                               "management")>>)
           TI == T \o I
           TIK == TI \o K
           A == TIK \o M
<1>1. /\ n \in Nat /\ n + 2 <= MaxSlots /\ MaxSlots \in Nat
      /\ j.internet \in BOOLEAN /\ j.management \in BOOLEAN
      /\ j.family = "kali" => j.internet
  BY JobAssumption, SlotAssumption DEF MaxTopology
<1>2. /\ c = IF j.internet THEN 1 ELSE 0
      /\ InternetSlot(n, TRUE) = n + 1
      /\ ManagementSlot(n, j.internet, TRUE) = n + c + 1
  BY <1>1 DEF Count, InternetSlot, ManagementSlot
<1> HIDE DEF c
<1>3. ASSUME NEW slot \in Slot, NEW role \in Role
      PROVE  SetRole(slot, role) \in NicStep
  BY DEF SetRole, NicStep
<1>4. T \in Seq(NicStep) /\ Len(T) = n
  <2>1. \A i \in 1 .. n : SetRole(i, "topology") \in NicStep
    BY <1>1, <1>3 DEF Slot, Role
  <2>2. T \in [1 .. n -> NicStep]
    BY <2>1
  <2>3. T \in Seq(NicStep)
    BY <1>1, <2>2, SeqDef, Zenon
  <2>4. Len(T) \in Nat /\ DOMAIN T = 1 .. Len(T)
    BY <2>3, LenProperties, Zenon
  <2>5. DOMAIN T = 1 .. n
    OBVIOUS
  <2> QED
    BY <1>1, <2>3, <2>4, <2>5
<1>5. /\ I \in Seq(NicStep) /\ Len(I) = c
      /\ j.internet => I[1] = SetRole(n + 1, "nat")
  <2>1. SetRole(n + 1, "nat") \in NicStep
    BY <1>1, <1>3 DEF Slot, Role
  <2>2. I = IF j.internet THEN <<SetRole(n + 1, "nat")>> ELSE <<>>
    BY <1>2 DEF When
  <2> HIDE DEF I
  <2> QED
    BY <1>2, <2>1, <2>2, EmptySeq
<1>6. /\ K \in Seq(NicStep)
      /\ Len(K) = IF j.family = "kali" THEN 1 ELSE 0
      /\ j.family = "kali" => K[1] = SetRole(n + 1, "nat-host")
  <2>1. SetRole(n + 1, "nat-host") \in NicStep
    BY <1>1, <1>3 DEF Slot, Role
  <2>2. K = IF j.family = "kali" THEN <<SetRole(n + 1, "nat-host")>> ELSE <<>>
    BY <1>2 DEF When
  <2> HIDE DEF K
  <2> QED
    BY <2>1, <2>2, EmptySeq
<1>7. /\ M \in Seq(NicStep)
      /\ Len(M) = IF j.management THEN 1 ELSE 0
      /\ j.management => M[1] = SetRole(n + c + 1, "management")
  <2>1. SetRole(n + c + 1, "management") \in NicStep
    BY <1>1, <1>2, <1>3 DEF Slot, Role
  <2>2. M = IF j.management THEN <<SetRole(n + c + 1, "management")>> ELSE <<>>
    BY <1>2 DEF When
  <2> HIDE DEF M
  <2> QED
    BY <2>1, <2>2, EmptySeq
<1>8. \A i \in 1 .. n : T[i] = SetRole(i, "topology")
  OBVIOUS
<1> HIDE DEF T, I, K, M
<1>9. TI \in Seq(NicStep)
  BY <1>4, <1>5, ConcatProperties, Zenon
<1>10. /\ T \in Seq(NicStep) /\ I \in Seq(NicStep) /\ K \in Seq(NicStep)
       /\ M \in Seq(NicStep)
  BY <1>4, <1>5, <1>6, <1>7
<1>11. /\ Len(TI) = Len(T) + Len(I)
       /\ \A i \in 1 .. Len(T) + Len(I) :
            TI[i] = IF i <= Len(T) THEN T[i] ELSE I[i - Len(T)]
  BY <1>10, ConcatProperties, Zenon
<1> HIDE DEF TI
<1>12. TIK \in Seq(NicStep)
  BY <1>9, <1>10, ConcatProperties, Zenon
<1>13. /\ Len(TIK) = Len(TI) + Len(K)
       /\ \A i \in 1 .. Len(TI) + Len(K) :
            TIK[i] = IF i <= Len(TI) THEN TI[i] ELSE K[i - Len(TI)]
  BY <1>9, <1>10, ConcatProperties, Zenon
<1> HIDE DEF TIK
<1>14. A \in Seq(NicStep)
  BY <1>10, <1>12, ConcatProperties, Zenon
<1>15. /\ Len(A) = Len(TIK) + Len(M)
       /\ \A i \in 1 .. Len(TIK) + Len(M) :
            A[i] = IF i <= Len(TIK) THEN TIK[i] ELSE M[i - Len(TIK)]
  BY <1>10, <1>12, ConcatProperties, Zenon
<1> HIDE DEF A
<1> DEFINE k == Len(K)
<1>16. k \in {0, 1} /\ c \in {0, 1} /\ k <= c /\ n \in Nat
  BY <1>1, <1>2, <1>6
<1>17. /\ Len(TI) = n + c
       /\ \A i \in 1 .. n : TI[i] = SetRole(i, "topology")
       /\ c = 1 => TI[n + 1] = SetRole(n + 1, "nat")
  BY <1>1, <1>2, <1>4, <1>5, <1>8, <1>11
<1>18. /\ Len(TIK) = n + c + k
       /\ \A i \in 1 .. n + c : TIK[i] = TI[i]
       /\ k = 1 => TIK[n + c + 1] = SetRole(n + 1, "nat-host")
  BY <1>6, <1>13, <1>16, <1>17
<1> DEFINE m == Len(M)
<1>19. m \in {0, 1} /\ (j.management => m = 1)
  BY <1>7
<1>20. Len(A) = n + c + k + m
  BY <1>15, <1>18
<1>21. /\ \A i \in 1 .. n : A[i] = SetRole(i, "topology")
       /\ c = 1 => A[n + 1] = SetRole(n + 1, "nat")
  <2>1. \A i \in 1 .. n + c : A[i] = TI[i]
    BY <1>15, <1>16, <1>18, <1>19
  <2> QED
    BY <2>1, <1>16, <1>17
<1>22. k = 1 => A[n + c + 1] = SetRole(n + 1, "nat-host")
  <2>1. k = 1 => /\ n + c + 1 \in 1 .. Len(TIK) + Len(M)
                  /\ n + c + 1 <= Len(TIK)
    BY <1>16, <1>18, <1>19
  <2>2. k = 1 => A[n + c + 1] = TIK[n + c + 1]
    BY <2>1, <1>15
  <2> QED
    BY <2>2, <1>18
<1>23. m = 1 => A[n + c + k + 1] = SetRole(n + c + 1, "management")
  <2>1. m = 1 => M[1] = SetRole(n + c + 1, "management")
    BY <1>7
  <2>2. m = 1 => A[n + c + k + 1] = M[1]
    BY <1>15, <1>16, <1>18, <1>19
  <2> QED
    BY <2>1, <2>2
<1> HIDE DEF k, m, n
<1>f. \A slot, role :
        SetRole(slot, role).slot = slot /\ SetRole(slot, role).role = role
  BY DEF SetRole
<1>g. ASSUME NEW q \in 1 .. Len(A)
      PROVE  \/ q \in 1 .. n /\ A[q].slot = q /\ A[q].role = "topology"
             \/ c = 1 /\ q = n + 1 /\ A[q].slot = n + 1 /\ A[q].role = "nat"
             \/ k = 1 /\ q = n + 2 /\ A[q].slot = n + 1 /\ A[q].role = "nat-host"
             \/ m = 1 /\ q = n + c + k + 1
                  /\ A[q].slot = n + c + 1 /\ A[q].role = "management"
  <2>1. \/ q \in 1 .. n
        \/ c = 1 /\ q = n + 1
        \/ k = 1 /\ q = n + 2
        \/ m = 1 /\ q = n + c + k + 1
    BY <1>16, <1>19, <1>20
  <2>2. CASE q \in 1 .. n
    BY <2>2, <1>f, <1>21
  <2>3. CASE c = 1 /\ q = n + 1
    BY <2>3, <1>f, <1>21
  <2>4. CASE k = 1 /\ q = n + 2
    <3>1. A[q] = SetRole(n + 1, "nat-host")
      BY <2>4, <1>16, <1>22
    <3> QED
      BY <2>4, <3>1, <1>f
  <2>5. CASE m = 1 /\ q = n + c + k + 1
    BY <2>5, <1>f, <1>23
  <2> QED
    BY <2>1, <2>2, <2>3, <2>4, <2>5
<1>24. OncePerSlot(A)
  <2> SUFFICES ASSUME NEW i \in 1 .. Len(A), NEW q \in 1 .. Len(A), i < q,
                      A[i].slot = A[q].slot
               PROVE  A[i].role = "nat" /\ A[q].role = "nat-host"
    BY DEF OncePerSlot
  <2> QED
    BY <1>16, <1>19, <1>20, <1>g
<1>25. NatBeforeHost(A)
  <2> SUFFICES ASSUME NEW q \in 1 .. Len(A), A[q].role = "nat-host"
               PROVE  \E i \in 1 .. Len(A) :
                        i < q /\ A[i] = SetRole(A[q].slot, "nat")
    BY DEF NatBeforeHost
  <2>1. k = 1 /\ q = n + 2 /\ A[q].slot = n + 1
    BY <1>g
  <2>2. A[n + 1] = SetRole(A[q].slot, "nat") /\ n + 1 \in 1 .. Len(A)
    BY <2>1, <1>16, <1>19, <1>20, <1>21
  <2> QED
    BY <2>1, <2>2, <1>16
<1>26. ASSUME j.management
       PROVE  \E i \in 1 .. Len(A) : A[i] = SetRole(n + c + 1, "management")
  BY <1>16, <1>19, <1>20, <1>23, <1>26
<1>27. A = AdapterSteps(j)
  BY DEF A, TIK, TI, T, I, K, M, n, AdapterSteps
<1> QED
  BY <1>2, <1>14, <1>24, <1>25, <1>26, <1>27 DEF n

(* Put together, parts and adapters keep the rules.                        *)
LEMMA PlanIsSound ==
  ASSUME NEW j \in Job
  PROVE  /\ Plan[j] \in Seq(Step)
         /\ OncePerSlot(Plan[j]) /\ NatBeforeHost(Plan[j])
         /\ \E k \in 1 .. Len(Plan[j]) : Plan[j][k] = AddPart("disk")
         /\ j.management =>
              \E k \in 1 .. Len(Plan[j]) :
                Plan[j][k] = SetRole(ManagementSlot(j.topology, j.internet, TRUE),
                                     "management")
<1> DEFINE P == PartSteps(j)
           A == AdapterSteps(j)
           F == Plan[j]
<1>1. P \in Seq(PartStep) /\ A \in Seq(NicStep)
  BY PartPlan, AdapterPlan
<1>2. P \in Seq(Step) /\ A \in Seq(Step)
  BY <1>1, SeqMonotonic, Zenon DEF Step
<1>3. F = P \o A
  BY DEF Plan
<1> HIDE DEF P, A, F
<1>4. P \o A \in Seq(Step) /\ Len(P \o A) = Len(P) + Len(A)
      /\ \A i \in 1 .. Len(P) + Len(A) :
           (P \o A)[i] = IF i <= Len(P) THEN P[i] ELSE A[i - Len(P)]
  BY <1>2, ConcatProperties, Zenon
<1>5. /\ F \in Seq(Step) /\ Len(F) = Len(P) + Len(A)
      /\ \A i \in 1 .. Len(P) + Len(A) :
           F[i] = IF i <= Len(P) THEN P[i] ELSE A[i - Len(P)]
  BY <1>3, <1>4, Zenon
<1>6. Len(P) \in Nat /\ Len(A) \in Nat
  BY <1>1, LenProperties
<1>7. \A i \in 1 .. Len(P) :
        F[i] = P[i] /\ P[i].what = "part" /\ P[i].role = "none"
  <2>1. \A i \in 1 .. Len(P) : P[i] \in PartStep
    BY <1>1, ElementOfSeq, Zenon
  <2>2. \A i \in 1 .. Len(P) : F[i] = P[i]
    BY <1>5, <1>6
  <2> QED
    BY <2>1, <2>2 DEF PartStep
<1>8. ASSUME NEW i \in 1 .. Len(A)
      PROVE  /\ F[Len(P) + i] = A[i] /\ A[i].what = "nic"
             /\ Len(P) + i \in 1 .. Len(F)
  <2>1. A[i] \in NicStep
    BY <1>1, ElementOfSeq, Zenon
  <2> QED
    BY <2>1, <1>5, <1>6 DEF NicStep
<1>9. ASSUME NEW q \in 1 .. Len(F), F[q].what = "nic" \/ F[q].role = "nat-host"
      PROVE  q - Len(P) \in 1 .. Len(A) /\ F[q] = A[q - Len(P)]
  <2>1. ~(q <= Len(P))
    BY <1>6, <1>7, <1>9
  <2> QED
    BY <2>1, <1>5, <1>6
<1>10. OncePerSlot(F)
  <2> SUFFICES ASSUME NEW i \in 1 .. Len(F), NEW q \in 1 .. Len(F), i < q,
                      F[i].what = "nic", F[q].what = "nic",
                      F[i].slot = F[q].slot
               PROVE  F[i].role = "nat" /\ F[q].role = "nat-host"
    BY DEF OncePerSlot
  <2>1. PICK u \in 1 .. Len(A) : u = i - Len(P) /\ F[i] = A[u]
    BY <1>9
  <2>2. PICK w \in 1 .. Len(A) : w = q - Len(P) /\ F[q] = A[w]
    BY <1>9
  <2>3. u < w /\ A[u].what = "nic" /\ A[w].what = "nic"
    BY <2>1, <2>2, <1>6, <1>8
  <2>4. OncePerSlot(A)
    BY AdapterPlan DEF A
  <2>5. A[u].slot = A[w].slot
    BY <2>1, <2>2
  <2> QED
    BY <2>1, <2>2, <2>3, <2>4, <2>5 DEF OncePerSlot
<1>11. NatBeforeHost(F)
  <2> SUFFICES ASSUME NEW q \in 1 .. Len(F), F[q].role = "nat-host"
               PROVE  \E i \in 1 .. Len(F) :
                        i < q /\ F[i] = SetRole(F[q].slot, "nat")
    BY DEF NatBeforeHost
  <2>1. PICK w \in 1 .. Len(A) : w = q - Len(P) /\ F[q] = A[w]
    BY <1>9
  <2>2. PICK u \in 1 .. Len(A) : u < w /\ A[u] = SetRole(A[w].slot, "nat")
    BY <2>1, AdapterPlan DEF NatBeforeHost, A
  <2>3. /\ Len(P) + u \in 1 .. Len(F) /\ Len(P) + u < q
        /\ F[Len(P) + u] = SetRole(F[q].slot, "nat")
    BY <2>1, <2>2, <1>6, <1>8
  <2> QED
    BY <2>3
<1>12. \E k \in 1 .. Len(F) : F[k] = AddPart("disk")
  <2>1. PICK i \in 1 .. Len(P) : P[i] = AddPart("disk")
    BY PartPlan DEF P
  <2> QED
    BY <2>1, <1>5, <1>6, <1>7
<1>13. ASSUME j.management
       PROVE  \E k \in 1 .. Len(F) :
                F[k] = SetRole(ManagementSlot(j.topology, j.internet, TRUE),
                               "management")
  <2>1. PICK i \in 1 .. Len(A) :
          A[i] = SetRole(ManagementSlot(j.topology, j.internet, TRUE),
                         "management")
    BY <1>13, AdapterPlan DEF A
  <2> QED
    BY <2>1, <1>8
<1> QED
  BY <1>5, <1>10, <1>11, <1>12, <1>13 DEF F

-----------------------------------------------------------------------------
(* The fields of a machine.                                                *)
LEMMA MachineShape ==
  ASSUME NEW m \in Machine
  PROVE  /\ m = [run |-> m.run, asked |-> m.asked, power |-> m.power,
                 parts |-> m.parts, nic |-> m.nic, adapter |-> m.adapter]
         /\ m.run \in 1 .. MaxRuns /\ m.asked \in Job
         /\ m.power \in {"poweroff", "running", "saved"}
         /\ m.parts \subseteq Part /\ m.nic \in [Slot -> Role]
         /\ m.adapter \in Iface \cup {NoIface}
  BY DEF Machine

(* A part is added and nothing else changed.                               *)
LEMMA PartTakesEffect ==
  ASSUME NEW m \in Machine, NEW step \in PartStep, NEW e, e = Effect(m, step)
  PROVE  /\ e \in Machine /\ e.run = m.run
         /\ e.parts = m.parts \cup {step.part}
         /\ e.nic = m.nic /\ e.adapter = m.adapter
<1>1. step.what = "part" /\ step.part \in Part /\ step.role = "none"
  BY DEF PartStep
<1>2. e = [m EXCEPT !.parts = @ \cup {step.part}]
  BY <1>1 DEF Effect
<1> QED
  BY <1>1, <1>2 DEF Machine

(* An adapter gets its role and nothing else is changed.                   *)
LEMMA NicTakesEffect ==
  ASSUME NEW m \in Machine, NEW step \in NicStep, NEW e, e = Effect(m, step),
         chosen \in Iface \cup {NoIface}
  PROVE  /\ e \in Machine /\ e.run = m.run
         /\ e.parts = m.parts
         /\ e.nic = [m.nic EXCEPT ![step.slot] =
                       IF step.role = "nat-host" /\ @ # "nat" THEN @ ELSE step.role]
         /\ e.adapter = IF step.role = "management" THEN chosen ELSE m.adapter
<1>1. step.what = "nic" /\ step.slot \in Slot /\ step.role \in Role
  BY DEF NicStep
<1>2. CASE step.role = "nat-host"
  <2>1. e = [m EXCEPT !.nic[step.slot] = IF @ = "nat" THEN "nat-host" ELSE @]
    BY <1>1, <1>2 DEF Effect
  <2> QED
    BY <1>1, <1>2, <2>1 DEF Machine, Role
<1>3. CASE step.role = "management"
  <2>1. e = [m EXCEPT !.nic[step.slot] = "management", !.adapter = chosen]
    BY <1>1, <1>3 DEF Effect
  <2>2. e = [[m EXCEPT !.nic = [m.nic EXCEPT ![step.slot] = "management"]]
               EXCEPT !.adapter = chosen]
    BY <2>1
  <2> DEFINE f == [m EXCEPT !.nic = [m.nic EXCEPT ![step.slot] = "management"]]
  <2>3. [m.nic EXCEPT ![step.slot] = "management"] \in [Slot -> Role]
    BY <1>1 DEF Machine, Role
  <2>4. /\ f \in Machine /\ f.run = m.run /\ f.parts = m.parts
        /\ f.nic = [m.nic EXCEPT ![step.slot] = "management"]
    BY <2>3 DEF Machine
  <2>5. e = [f EXCEPT !.adapter = chosen]
    BY <2>2
  <2> HIDE DEF f
  <2>6. /\ e \in Machine /\ e.run = f.run /\ e.parts = f.parts
        /\ e.nic = f.nic /\ e.adapter = chosen
    BY <2>4, <2>5 DEF Machine
  <2>7. [m.nic EXCEPT ![step.slot] = "management"] =
          [m.nic EXCEPT ![step.slot] =
             IF step.role = "nat-host" /\ @ # "nat" THEN @ ELSE step.role]
    BY <1>3
  <2> QED
    BY <1>3, <2>4, <2>6, <2>7
<1>4. CASE step.role \notin {"nat-host", "management"}
  <2>1. e = [m EXCEPT !.nic[step.slot] = step.role]
    BY <1>1, <1>4 DEF Effect
  <2> QED
    BY <1>1, <1>4, <2>1 DEF Machine, Role
<1> QED
  BY <1>2, <1>3, <1>4

(* No step of a plan undoes an earlier one.                                *)
LEMMA StepsStay ==
  ASSUME NEW j \in Job, NEW m \in Machine, NEW k \in 1 .. Len(Plan[j]),
         NEW e, e = Effect(m, Plan[j][k]), chosen \in Iface \cup {NoIface},
         \A i \in 1 .. k - 1 : InEffect(m, Plan[j][i])
  PROVE  /\ e \in Machine /\ e.run = m.run
         /\ \A i \in 1 .. k : InEffect(e, Plan[j][i])
<1> DEFINE F == Plan[j]
<1>1. F \in Seq(Step) /\ OncePerSlot(F) /\ NatBeforeHost(F)
  BY PlanIsSound
<1>2. Len(F) \in Nat /\ \A i \in 1 .. Len(F) : F[i] \in Step
  BY <1>1, LenProperties, ElementOfSeq, Zenon
<1>3. e = Effect(m, F[k]) /\ \A i \in 1 .. k - 1 : InEffect(m, F[i])
  OBVIOUS
<1> HIDE DEF F
<1>4. CASE F[k] \in PartStep
  <2>1. /\ e \in Machine /\ e.run = m.run
        /\ e.parts = m.parts \cup {F[k].part} /\ e.nic = m.nic
    BY <1>3, <1>4, PartTakesEffect
  <2>2. InEffect(e, F[k])
    BY <1>4, <2>1 DEF InEffect, PartStep
  <2>3. \A i \in 1 .. k - 1 : InEffect(e, F[i])
    BY <1>3, <2>1 DEF InEffect
  <2> QED
    BY <1>2, <2>1, <2>2, <2>3 DEF F
<1>5. CASE F[k] \in NicStep
  <2>1. /\ e \in Machine /\ e.run = m.run /\ e.parts = m.parts
        /\ e.nic = [m.nic EXCEPT ![F[k].slot] =
                      IF F[k].role = "nat-host" /\ @ # "nat" THEN @
                      ELSE F[k].role]
    BY <1>3, <1>5, NicTakesEffect
  <2>2. m.nic \in [Slot -> Role] /\ F[k].slot \in Slot /\ F[k].what = "nic"
    BY <1>5 DEF Machine, NicStep
  <2>3. F[k].role = "nat-host" => m.nic[F[k].slot] \in {"nat", "nat-host"}
    <3> SUFFICES ASSUME F[k].role = "nat-host"
                 PROVE  m.nic[F[k].slot] \in {"nat", "nat-host"}
      OBVIOUS
    <3>1. PICK i \in 1 .. Len(F) : i < k /\ F[i] = SetRole(F[k].slot, "nat")
      BY <1>1 DEF NatBeforeHost, F
    <3>2. InEffect(m, F[i])
      BY <1>2, <1>3, <3>1
    <3> QED
      BY <3>1, <3>2 DEF InEffect, SetRole
  <2>4. e.nic[F[k].slot] = F[k].role
    BY <2>1, <2>2, <2>3
  <2>5. \A x \in Slot : x # F[k].slot => e.nic[x] = m.nic[x]
    BY <2>1, <2>2
  <2>6. InEffect(e, F[k])
    BY <2>2, <2>4 DEF InEffect
  <2>7. ASSUME NEW i \in 1 .. k - 1 PROVE InEffect(e, F[i])
    <3>1. i \in 1 .. Len(F) /\ i < k /\ k \in 1 .. Len(F) /\ F[i] \in Step
          /\ InEffect(m, F[i])
      BY <1>2, <1>3 DEF F
    <3>2. CASE F[i].what = "part"
      BY <2>1, <3>1, <3>2 DEF InEffect
    <3>3. CASE F[i].what = "nic" /\ F[i].slot # F[k].slot
      <4>1. F[i].slot \in Slot
        BY <3>1, <3>3 DEF Step, NicStep, PartStep
      <4> QED
        BY <2>5, <3>1, <3>3, <4>1 DEF InEffect
    <3>4. CASE F[i].what = "nic" /\ F[i].slot = F[k].slot
      <4>1. F[i].role = "nat" /\ F[k].role = "nat-host"
        BY <1>1, <2>2, <3>1, <3>4 DEF OncePerSlot
      <4> QED
        BY <2>4, <3>4, <4>1 DEF InEffect
    <3>5. F[i].what \in {"part", "nic"}
      BY <3>1 DEF Step, NicStep, PartStep
    <3> QED
      BY <3>2, <3>3, <3>4, <3>5
  <2> QED
    BY <1>2, <2>1, <2>6, <2>7 DEF F
<1> QED
  BY <1>2, <1>4, <1>5 DEF Step, F

(***************************************************************************)
(* Why the search for the interface may trust what it found: nobody else   *)
(* gives out the management address, an interface the operator made never  *)
(* gets another address, and between listing and addressing no interface   *)
(* disappears.                                                             *)
(***************************************************************************)
Places ==
  /\ iface \in [Iface -> Kind]
  /\ foreign \in SUBSET Iface
  /\ netPc \in {"idle", "list", "migrate", "before", "create", "name",
                "address", "dhcp", "ready", "error"}
  /\ before \in SUBSET Iface
  /\ chosen \in Iface \cup {NoIface}

ForeignUntouched == \A i \in foreign : iface[i] \in {"unset", "inside"}

NoneYet ==
  netPc \in {"migrate", "before", "create", "name", "address"} =>
    Being("management") = {}

ChosenIsOwn ==
  netPc \in {"migrate", "address"} =>
    chosen \in Iface \ foreign /\ iface[chosen] # "absent"

NewIsListed ==
  /\ netPc = "create" => before \subseteq Present
  /\ netPc = "name" => \E i \in Present \ before : i \notin foreign

NetInv ==
  /\ Places
  /\ OneManagementInterface
  /\ ForeignUntouched
  /\ NoneYet
  /\ ChosenIsOwn
  /\ NewIsListed

(* The search runs inside the configuration of the management adapter.     *)
SearchIsNested == netPc # "idle" => pc = "configure" /\ NeedsInterface

IInv == NetInv /\ SearchIsNested

-----------------------------------------------------------------------------
(* Looking, choosing and giving up change no interface.                    *)
LEMMA LookingKeeps ==
  ASSUME NetInv,
         \/ NetCallFails \/ Reuse \/ ChooseLegacy \/ RefuseOverlap \/ NeedNew
         \/ ListBefore \/ NoInterfaceLeft \/ DisableDhcp
  PROVE  NetInv'
<1>1. CASE NetCallFails \/ RefuseOverlap \/ NoInterfaceLeft \/ DisableDhcp
  BY <1>1, SMT DEF NetInv, Places, OneManagementInterface, ForeignUntouched,
     NoneYet, ChosenIsOwn, NewIsListed, Being, Present, Kind,
     NetCallFails, RefuseOverlap, NoInterfaceLeft, DisableDhcp
<1>2. CASE Reuse \/ ChooseLegacy
  BY <1>2, SMT DEF NetInv, Places, OneManagementInterface, ForeignUntouched,
     NoneYet, ChosenIsOwn, NewIsListed, Being, Present, Kind,
     Reuse, ChooseLegacy
<1>3. CASE NeedNew \/ ListBefore
  BY <1>3, SMT DEF NetInv, Places, OneManagementInterface, ForeignUntouched,
     NoneYet, ChosenIsOwn, NewIsListed, Being, Present, Kind,
     NeedNew, ListBefore
<1> QED
  BY <1>1, <1>2, <1>3

(* A created interface is nobody's, and is found by its absence before.    *)
LEMMA CreateKeeps == NetInv /\ CreateInterface => NetInv'
<1> SUFFICES ASSUME NetInv, CreateInterface PROVE NetInv'
  OBVIOUS
<1>1. PICK i \in Being("absent"), kind \in {"unset", "elsewhere"} :
        /\ iface' = [iface EXCEPT ![i] = kind]
        /\ \/ netPc' = "address" /\ chosen' = i /\ UNCHANGED netFault
           \/ netPc' = "name" /\ UNCHANGED <<chosen, netFault>>
           \/ netPc' = "error" /\ netFault' = TRUE /\ UNCHANGED chosen
  BY DEF CreateInterface
<1>2. i \in Iface /\ i \notin foreign /\ i \notin before
  BY <1>1 DEF NetInv, ForeignUntouched, NewIsListed, Being, Present,
     CreateInterface
<1>3. Places'
  <2>1. iface' \in [Iface -> Kind] /\ UNCHANGED <<foreign, before>>
    BY <1>1, <1>2 DEF NetInv, Places, Kind, CreateInterface
  <2>2. chosen' \in Iface \cup {NoIface}
    BY <1>1, <1>2 DEF NetInv, Places
  <2>3. netPc' \in {"address", "name", "error"}
    BY <1>1
  <2> QED
    BY <2>1, <2>2, <2>3 DEF NetInv, Places
<1>4. OneManagementInterface' /\ ForeignUntouched' /\ NoneYet' /\ ChosenIsOwn'
  BY <1>1, <1>2, SMT DEF NetInv, Places, OneManagementInterface,
     ForeignUntouched, NoneYet, ChosenIsOwn, Being, CreateInterface
<1>5. NewIsListed'
  BY <1>1, <1>2, SMT DEF NetInv, Places, NewIsListed, Being, Present,
     CreateInterface
<1> QED
  BY <1>3, <1>4, <1>5 DEF NetInv

(* The only interface that is new is the one the program created.          *)
LEMMA NamingKeeps == NetInv /\ NameInterface => NetInv'
  BY SMT DEF NetInv, Places, OneManagementInterface, ForeignUntouched,
     NoneYet, ChosenIsOwn, NewIsListed, Being, Present, Kind, NameInterface

(* The first interface gets the address, and it is the program's own.      *)
LEMMA AddressKeeps == NetInv /\ SetAddress => NetInv'
  BY SMT DEF NetInv, Places, OneManagementInterface, ForeignUntouched,
     NoneYet, ChosenIsOwn, NewIsListed, Being, Present, Kind, SetAddress

(* Every step of the search.                                               *)
LEMMA SearchKeeps == NetInv /\ EnsureManagementInterface => NetInv'
  BY LookingKeeps, CreateKeeps, NamingKeeps, AddressKeeps
  DEF EnsureManagementInterface

(* The operator's interfaces carry no management address.                  *)
LEMMA OperatorKeeps ==
  ASSUME NetInv, AddInterface \/ RemoveInterface
  PROVE  NetInv'
<1>1. CASE AddInterface
  <2>1. PICK i \in Being("absent"), kind \in {"unset", "inside"} :
          iface' = [iface EXCEPT ![i] = kind] /\ foreign' = foreign \cup {i}
    BY <1>1 DEF AddInterface
  <2>2. UNCHANGED <<netPc, before, chosen, netFault>>
    BY <1>1 DEF AddInterface
  <2>3. i \in Iface /\ iface[i] = "absent"
    BY <2>1 DEF Being
  <2>4. Places' /\ ForeignUntouched'
    BY <2>1, <2>2, <2>3, SMT DEF NetInv, Places, Kind, ForeignUntouched
  <2>5. Being("management")' = Being("management")
    BY <2>1, <2>3, SMT DEF NetInv, Places, Being
  <2>6. OneManagementInterface' /\ NoneYet'
    BY <2>2, <2>5 DEF NetInv, OneManagementInterface, NoneYet
  <2>7. ChosenIsOwn'
    BY <2>1, <2>2, <2>3, SMT DEF NetInv, Places, ChosenIsOwn
  <2>8. NewIsListed'
    BY <2>1, <2>2, <2>3, SMT DEF NetInv, Places, NewIsListed, Present
  <2> QED
    BY <2>4, <2>6, <2>7, <2>8 DEF NetInv
<1>2. CASE RemoveInterface
  BY <1>2, SMT DEF NetInv, Places, OneManagementInterface, ForeignUntouched,
     NoneYet, ChosenIsOwn, NewIsListed, Being, Present, Kind, RemoveInterface
<1> QED
  BY <1>1, <1>2

(* Outside the search the position goes back to idle or stays.             *)
LEMMA LeavingKeeps ==
  ASSUME NetInv, KeepInterface, netPc' \in {"idle", "list"}
  PROVE  NetInv'
  BY SMT DEF NetInv, Places, OneManagementInterface, ForeignUntouched,
     NoneYet, ChosenIsOwn, NewIsListed, Being, Present, KeepInterface

(* The network stays where no variable of it changes.                      *)
LEMMA StandingKeeps == NetInv /\ UNCHANGED netVars => NetInv'
  BY DEF NetInv, Places, OneManagementInterface, ForeignUntouched, NoneYet,
     ChosenIsOwn, NewIsListed, Being, Present, netVars

-----------------------------------------------------------------------------
(* Whatever interfaces an earlier version or the operator left.            *)
LEMMA Initially == Init => IInv
  BY SMT DEF Init, NetInit, IInv, NetInv, Places, OneManagementInterface,
     ForeignUntouched, NoneYet, ChosenIsOwn, NewIsListed, SearchIsNested,
     Being, Present, Kind

(* Every step of the program and of the operator.                          *)
LEMMA Inductive == IInv /\ [Next]_vars => IInv'
<1> SUFFICES ASSUME IInv, [Next]_vars PROVE IInv'
  OBVIOUS
<1>a. ASSUME UNCHANGED netVars, SearchIsNested' PROVE IInv'
  BY <1>a, StandingKeeps DEF IInv
<1>b. ASSUME KeepInterface, netPc' = "idle" PROVE IInv'
  BY <1>b, LeavingKeeps DEF IInv, SearchIsNested
<1>1. CASE Begin \/ RenderFails \/ BuildMedium \/ NameIsTaken \/ CreateVm
  BY <1>1, <1>a DEF IInv, SearchIsNested, netVars, Begin, RenderFails,
     BuildMedium, NameIsTaken, CreateVm
<1>2. CASE DiskRefused \/ CreateDisk
  <2>1. ~NeedsInterface
    BY <1>2 DEF DiskRefused, CreateDisk, DiskIsNext, NeedsInterface, AddPart
  <2>2. netPc = "idle" /\ UNCHANGED netVars
    BY <1>2, <2>1 DEF IInv, SearchIsNested, DiskRefused, CreateDisk
  <2> QED
    BY <2>2, <1>a DEF SearchIsNested, netVars
<1>3. CASE Configure
  <2>1. KeepInterface
    BY <1>3 DEF Configure
  <2>2. netPc' = "idle"
    BY <1>3 DEF Configure, IInv, SearchIsNested
  <2> QED
    BY <2>1, <2>2, <1>b
<1>4. CASE ModificationRefused \/ CallFails \/ InterfaceFails
  BY <1>4, <1>b DEF ModificationRefused, CallFails, InterfaceFails
<1>5. CASE EnsureInterface
  <2>1. UNCHANGED <<pc, todo>> /\ pc = "configure" /\ NeedsInterface
    BY <1>5 DEF EnsureInterface, machineVars
  <2>2. SearchIsNested'
    BY <2>1 DEF SearchIsNested, NeedsInterface
  <2>3. NetInv'
    BY <1>5, SearchKeeps, LeavingKeeps DEF EnsureInterface, IInv
  <2> QED
    BY <2>2, <2>3 DEF IInv
<1>6. CASE FinishConfiguration
  <2>1. netPc = "idle" /\ UNCHANGED netVars
    BY <1>6 DEF FinishConfiguration, IInv, SearchIsNested, NeedsInterface
  <2> QED
    BY <2>1, <1>a DEF SearchIsNested, netVars
<1>7. CASE \/ StartVm \/ PressKey \/ MachineIsGone \/ KeysAreSent \/ Fetch
           \/ FetchTimesOut
  <2>1. netPc = "idle" /\ UNCHANGED netVars
    BY <1>7 DEF IInv, SearchIsNested, StartVm, PressKey, MachineIsGone,
       KeysAreSent, Fetch, FetchTimesOut
  <2> QED
    BY <2>1, <1>a DEF SearchIsNested, netVars
<1>8. CASE Close
  <2>1. netPc = "idle" /\ UNCHANGED <<iface, foreign, netPc>>
    BY <1>8 DEF Close, IInv, SearchIsNested
  <2>2. before' = {} /\ chosen' = NoIface /\ netFault' = FALSE
    BY <1>8 DEF Close
  <2>3. NetInv'
    BY <2>1, <2>2, SMT DEF IInv, NetInv, Places, OneManagementInterface,
       ForeignUntouched, NoneYet, ChosenIsOwn, NewIsListed, Being, Present
  <2> QED
    BY <2>1, <2>3 DEF IInv, SearchIsNested
<1>9. CASE SwitchPower \/ RemoveMachine
  BY <1>9, <1>a DEF SwitchPower, RemoveMachine, netVars, IInv,
     SearchIsNested, NeedsInterface
<1>10. CASE ChangeInterfaces
  <2>1. NetInv'
    BY <1>10, OperatorKeeps DEF ChangeInterfaces, IInv
  <2>2. UNCHANGED <<pc, todo, netPc>>
    BY <1>10 DEF ChangeInterfaces, AddInterface, RemoveInterface
  <2> QED
    BY <2>1, <2>2 DEF IInv, SearchIsNested, NeedsInterface
<1>11. CASE UNCHANGED vars
  BY <1>11, <1>a DEF vars, machineVars, netVars, IInv, SearchIsNested,
     NeedsInterface
<1> QED
  BY <1>1, <1>2, <1>3, <1>4, <1>5, <1>6, <1>7, <1>8, <1>9, <1>10, <1>11
  DEF Next, Operator, Rest

(* The network's invariant holds throughout.                               *)
LEMMA Always == Spec => []IInv
  BY Initially, Inductive, PTL DEF Spec

-----------------------------------------------------------------------------
(* The guests of all machines meet on one network: there is at most one    *)
(* interface with the management address, however many runs ended half way *)
(* through making one, and whatever the operator made meanwhile.           *)
THEOREM OneNetwork == Spec => []OneManagementInterface
<1>1. IInv => OneManagementInterface
  BY DEF IInv, NetInv
<1> QED
  BY <1>1, Always, PTL

(* ensure_management_interface never gives its address to an interface the *)
(* operator made, also when it has to guess the name of the new one.       *)
THEOREM OwnNetwork == Spec => []ManagementIsOwn
<1>1. IInv => ManagementIsOwn
  BY DEF IInv, NetInv, ForeignUntouched, ManagementIsOwn, Being
<1> QED
  BY <1>1, Always, PTL

-----------------------------------------------------------------------------
(* A name stands for a machine or for none.                                *)
LEMMA ExistsIsMachine ==
  ASSUME NEW n \in Name, vm \in [Name -> Machine \cup {NoMachine}]
  PROVE  /\ Exists(n) => vm[n] \in Machine
         /\ ~Exists(n) => vm[n] = NoMachine
<1>1. \A m \in Machine : m.run # 0
  BY JobAssumption DEF Machine
<1>2. NoMachine.run = 0
  BY DEF NoMachine
<1> QED
  BY <1>1, <1>2 DEF Exists

(* Every start function sends keys.                                        *)
LEMMA KeysAreKeys == \A f \in Family : Keys(f) \in Seq(Key)
<1> DEFINE D == LineDown
           B == EraseSeparator
<1>1. D \in Seq(Key) /\ B \in Seq(Key)
  BY DEF LineDown, EraseSeparator, Key
<1>2. /\ <<"edit">> \in Seq(Key) /\ <<"end">> \in Seq(Key)
      /\ <<"type", "boot">> \in Seq(Key)
      /\ <<"end", "type", "boot">> \in Seq(Key)
      /\ <<"home", "kill", "type", "boot">> \in Seq(Key)
      /\ <<"any">> \in Seq(Key) /\ <<>> \in Seq(Key)
  BY DEF Key
<1> HIDE DEF D, B
<1>3. <<"edit">> \o D \in Seq(Key)
  BY <1>1, <1>2, ConcatProperties, Zenon
<1>4. /\ (<<"edit">> \o D) \o <<"end">> \in Seq(Key)
      /\ (<<"edit">> \o D) \o <<"end", "type", "boot">> \in Seq(Key)
      /\ (<<"edit">> \o D) \o <<"home", "kill", "type", "boot">> \in Seq(Key)
  BY <1>2, <1>3, ConcatProperties, Zenon
<1>5. ((<<"edit">> \o D) \o <<"end">>) \o B \in Seq(Key)
  BY <1>1, <1>4, ConcatProperties, Zenon
<1>6. (((<<"edit">> \o D) \o <<"end">>) \o B) \o <<"type", "boot">> \in Seq(Key)
  BY <1>2, <1>5, ConcatProperties, Zenon
<1> QED
  BY <1>2, <1>4, <1>6 DEF Keys, Family, D, B

-----------------------------------------------------------------------------
(***************************************************************************)
(* A run up to its success: what is left to configure is the end of the    *)
(* plan, what is behind it is in effect, and machine, disk and medium are  *)
(* those of the run as long as the machine is there at all.                *)
(***************************************************************************)
Working == pc \in {"configure", "attach", "start", "keys", "fetch", "done"}

Behind == Len(Plan[job]) - Len(todo)

InPlan ==
  /\ todo \in Seq(Step)
  /\ Behind >= 0
  /\ \A i \in 1 .. Len(todo) : todo[i] = Plan[job][Behind + i]

Phase ==
  /\ pc # "idle" => run \in 1 .. MaxRuns
  /\ pc \in {"medium", "create"} => todo = Plan[job]
  /\ pc \in {"configure", "attach"} => InPlan
  /\ pc \in {"start", "keys"} => todo \in Seq(Key)

MachineIsOurs ==
  Working /\ Exists(job.name) =>
    /\ vm[job.name].run = run
    /\ "disk" \in vm[job.name].parts => disk[job.name] = run
    /\ pc = "attach" => disk[job.name] = run
    /\ (\E s \in Slot : vm[job.name].nic[s] = "management") =>
         vm[job.name].adapter \in Being("management")

BehindIsInEffect ==
  Working /\ Exists(job.name) =>
    IF pc \in {"configure", "attach"}
    THEN \A i \in 1 .. Behind : InEffect(vm[job.name], Plan[job][i])
    ELSE Equipped(vm[job.name], job)

MediumIsOurs ==
  (Working \/ pc = "create") /\ MakesMedium(job) => medium[job.name] = run

ReadyIsManaged == netPc \in {"dhcp", "ready"} => chosen \in Being("management")

RunInv ==
  /\ IInv /\ ReadyIsManaged
  /\ TypeOK /\ Phase
  /\ MachineIsOurs /\ BehindIsInEffect /\ MediumIsOurs

(* Before the first run.                                                   *)
LEMMA RunInitially == Init => RunInv
<1> SUFFICES ASSUME Init PROVE RunInv
  OBVIOUS
<1>1. IInv
  BY Initially
<1>2. ReadyIsManaged /\ Phase /\ MachineIsOurs /\ BehindIsInEffect /\ MediumIsOurs
  BY DEF Init, MachineInit, NetInit, ReadyIsManaged, Phase, MachineIsOurs,
     BehindIsInEffect, MediumIsOurs, Working
<1>3. NetTypeOK
  BY <1>1, Zenon DEF IInv, NetInv, Places, NetTypeOK, Init, NetInit
<1>4. job \in Job /\ todo \in Seq(Step)
  BY JobAssumption, EmptySeq DEF NoJob, Init, MachineInit
<1>5. /\ vm \in [Name -> Machine \cup {NoMachine}]
      /\ disk \in [Name -> 0 .. MaxRuns] /\ medium \in [Name -> 0 .. MaxRuns]
      /\ run \in 0 .. MaxRuns /\ faults \in 0 .. MaxFaults
      /\ moves \in 0 .. MaxMoves /\ pc = "idle"
  BY JobAssumption DEF Init, MachineInit
<1>6. clean \in BOOLEAN
  BY Zenon DEF Init, MachineInit
<1> QED
  BY <1>1, <1>2, <1>3, <1>4, <1>5, <1>6, Zenon DEF RunInv, TypeOK

(* The management network only grows while a run works.                    *)
LEMMA ManagementStays ==
  ASSUME NetInv, EnsureManagementInterface \/ AddInterface
  PROVE  Being("management") \subseteq Being("management")'
  BY SMT DEF NetInv, Places, ChosenIsOwn, Being, AddInterface,
     EnsureManagementInterface, NetCallFails, Reuse, ChooseLegacy,
     RefuseOverlap, NeedNew, ListBefore, CreateInterface, NoInterfaceLeft,
     NameInterface, SetAddress, DisableDhcp

(* What the search ends with keeps its address.                            *)
LEMMA ReadyKeeps ==
  ASSUME NetInv, ReadyIsManaged, EnsureManagementInterface \/ AddInterface
  PROVE  ReadyIsManaged'
  BY SMT DEF NetInv, Places, ChosenIsOwn, Being, AddInterface, ReadyIsManaged,
     EnsureManagementInterface, NetCallFails, Reuse, ChooseLegacy,
     RefuseOverlap, NeedNew, ListBefore, CreateInterface, NoInterfaceLeft,
     NameInterface, SetAddress, DisableDhcp

-----------------------------------------------------------------------------
(* Types, variable by variable.                                            *)
LEMMA BooleansKeep ==
  ASSUME TypeOK, [Next]_vars
  PROVE  clean' \in BOOLEAN /\ netFault' \in BOOLEAN
<1>0. clean \in BOOLEAN /\ netFault \in BOOLEAN
  BY DEF TypeOK, NetTypeOK
<1>1. CASE Begin
  BY <1>0, <1>1, Zenon DEF Begin, netVars
<1>2. CASE \/ RenderFails \/ BuildMedium \/ NameIsTaken \/ CreateVm
           \/ DiskRefused \/ CreateDisk \/ FinishConfiguration \/ StartVm
           \/ PressKey \/ MachineIsGone \/ KeysAreSent \/ Fetch \/ FetchTimesOut
  BY <1>0, <1>2, Zenon DEF RenderFails, BuildMedium, NameIsTaken, CreateVm,
     DiskRefused, CreateDisk, FinishConfiguration, StartVm, PressKey,
     MachineIsGone, KeysAreSent, Fetch, FetchTimesOut, Fault, NoFault, netVars
<1>3. CASE Configure \/ ModificationRefused \/ CallFails \/ InterfaceFails \/ Close
  BY <1>0, <1>3, Zenon DEF Configure, ModificationRefused, CallFails,
     InterfaceFails, Close, Fault, NoFault, KeepInterface
<1>4. CASE EnsureInterface
  BY <1>0, <1>4, Zenon DEF EnsureInterface, machineVars, KeepInterface,
     EnsureManagementInterface, NetCallFails, Reuse, ChooseLegacy,
     RefuseOverlap, NeedNew, ListBefore, CreateInterface, NoInterfaceLeft,
     NameInterface, SetAddress, DisableDhcp
<1>5. CASE UNCHANGED vars
  BY <1>0, <1>5, Zenon DEF vars, machineVars, netVars
<1>6. CASE Operator
  BY <1>0, <1>6, Zenon DEF Operator, SwitchPower, RemoveMachine,
     ChangeInterfaces, Move, AddInterface, RemoveInterface, netVars
<1> QED
  BY <1>1, <1>2, <1>3, <1>4, <1>5, <1>6 DEF Next, Rest

(* Bounds and positions.                                                   *)
LEMMA CountersKeep ==
  ASSUME TypeOK, Phase, SearchIsNested, [Next]_vars
  PROVE  /\ run' \in 0 .. MaxRuns
         /\ faults' \in 0 .. MaxFaults /\ moves' \in 0 .. MaxMoves
         /\ pc' \in {"idle", "medium", "create", "configure", "attach", "start",
                     "keys", "fetch", "done", "failed"}
         /\ pc' # "idle" => run' \in 1 .. MaxRuns
<1>0. /\ run \in 0 .. MaxRuns
      /\ faults \in 0 .. MaxFaults /\ moves \in 0 .. MaxMoves
      /\ pc \in {"idle", "medium", "create", "configure", "attach", "start",
                 "keys", "fetch", "done", "failed"}
      /\ pc # "idle" => run \in 1 .. MaxRuns
      /\ MaxRuns \in Nat /\ MaxFaults \in Nat /\ MaxMoves \in Nat
  BY JobAssumption DEF TypeOK, Phase
<1>1. CASE Begin
  BY <1>0, <1>1 DEF Begin
<1>2. CASE \/ RenderFails \/ BuildMedium \/ NameIsTaken \/ CreateVm
           \/ DiskRefused \/ CreateDisk \/ FinishConfiguration
  BY <1>0, <1>2 DEF RenderFails, BuildMedium, NameIsTaken, CreateVm,
     DiskRefused, CreateDisk, FinishConfiguration, Fault, NoFault
<1>3. CASE \/ StartVm \/ PressKey \/ MachineIsGone \/ KeysAreSent \/ Fetch
           \/ FetchTimesOut
  <2>1. UNCHANGED <<run, moves>> /\ (UNCHANGED faults \/ Fault)
    BY <1>3 DEF StartVm, PressKey, MachineIsGone, KeysAreSent, Fetch,
       FetchTimesOut, NoFault
  <2>2. pc # "idle" /\ pc' \in {pc, "keys", "fetch", "done", "failed"}
    BY <1>3, Zenon DEF StartVm, PressKey, MachineIsGone, KeysAreSent, Fetch,
       FetchTimesOut, Fault
  <2> QED
    BY <1>0, <2>1, <2>2 DEF Fault
<1>4. CASE Configure \/ ModificationRefused \/ CallFails \/ InterfaceFails \/ Close
  <2>1. UNCHANGED <<run, moves>> /\ (UNCHANGED faults \/ Fault)
    BY <1>4, Zenon DEF Configure, ModificationRefused, CallFails,
       InterfaceFails, Close, NoFault
  <2>2. pc' \in {"configure", "failed", "idle"} /\ (pc = "idle" => pc' = "idle")
    BY <1>4 DEF Configure, ModificationRefused, CallFails, InterfaceFails,
       Close, Fault, AtModification, SearchIsNested
  <2> QED
    BY <1>0, <2>1, <2>2 DEF Fault
<1>5. CASE EnsureInterface \/ UNCHANGED vars
  BY <1>0, <1>5 DEF EnsureInterface, vars, machineVars
<1>6. CASE Operator
  BY <1>0, <1>6 DEF Operator, SwitchPower, RemoveMachine, ChangeInterfaces, Move
<1> QED
  BY <1>1, <1>2, <1>3, <1>4, <1>5, <1>6 DEF Next, Rest

(* The files of each name.                                                 *)
LEMMA FilesKeep ==
  ASSUME TypeOK, Phase, [Next]_vars
  PROVE  disk' \in [Name -> 0 .. MaxRuns] /\ medium' \in [Name -> 0 .. MaxRuns]
<1>0. /\ disk \in [Name -> 0 .. MaxRuns] /\ medium \in [Name -> 0 .. MaxRuns]
      /\ run \in 0 .. MaxRuns /\ 0 \in 0 .. MaxRuns
  BY JobAssumption DEF TypeOK
<1>1. CASE Begin \/ RenderFails \/ BuildMedium \/ NameIsTaken \/ CreateVm
  BY <1>0, <1>1 DEF Begin, RenderFails, BuildMedium, NameIsTaken, CreateVm
<1>2. CASE \/ DiskRefused \/ CreateDisk \/ FinishConfiguration
           \/ StartVm \/ PressKey \/ MachineIsGone \/ KeysAreSent \/ Fetch
           \/ FetchTimesOut
  BY <1>0, <1>2 DEF DiskRefused, CreateDisk, FinishConfiguration, StartVm,
     PressKey, MachineIsGone, KeysAreSent, Fetch, FetchTimesOut
<1>3. CASE \/ Configure \/ ModificationRefused \/ CallFails \/ InterfaceFails
           \/ Close \/ EnsureInterface \/ UNCHANGED vars
  BY <1>0, <1>3 DEF Configure, ModificationRefused, CallFails,
     InterfaceFails, Close, EnsureInterface, vars, machineVars
<1>4. CASE Operator
  BY <1>0, <1>4 DEF Operator, SwitchPower, RemoveMachine, ChangeInterfaces
<1> QED
  BY <1>1, <1>2, <1>3, <1>4 DEF Next, Rest

(* A run has one manifest.                                                 *)
LEMMA JobKeeps ==
  ASSUME TypeOK, [Next]_vars
  PROVE  job' \in Job /\ (Begin \/ Close \/ UNCHANGED job)
<1>0. job \in Job /\ NoJob \in Job
  BY JobAssumption DEF TypeOK, NoJob
<1>1. CASE Begin \/ Close
  BY <1>0, <1>1 DEF Begin, Close
<1>2. CASE \/ RenderFails \/ BuildMedium \/ NameIsTaken \/ CreateVm
           \/ DiskRefused \/ CreateDisk \/ FinishConfiguration \/ StartVm
           \/ PressKey \/ MachineIsGone \/ KeysAreSent \/ Fetch \/ FetchTimesOut
  BY <1>0, <1>2, Zenon DEF RenderFails, BuildMedium, NameIsTaken, CreateVm,
     DiskRefused, CreateDisk, FinishConfiguration, StartVm, PressKey,
     MachineIsGone, KeysAreSent, Fetch, FetchTimesOut
<1>3. CASE \/ Configure \/ ModificationRefused \/ CallFails \/ InterfaceFails
           \/ EnsureInterface \/ UNCHANGED vars \/ Operator
  BY <1>0, <1>3, Zenon DEF Configure, ModificationRefused, CallFails,
     InterfaceFails, EnsureInterface, vars, machineVars, Operator,
     SwitchPower, RemoveMachine, ChangeInterfaces
<1> QED
  BY <1>1, <1>2, <1>3 DEF Next, Rest

(* A registered machine is off, its adapters are free.                     *)
LEMMA NewMachineType ==
  ASSUME NEW r \in 1 .. MaxRuns, NEW j \in Job
  PROVE  /\ NewMachine(r, j) \in Machine /\ NewMachine(r, j).run = r
         /\ "disk" \notin NewMachine(r, j).parts
         /\ \A s \in Slot : NewMachine(r, j).nic[s] = "none"
  BY DEF NewMachine, Machine, Role

(* Switching a machine changes nothing else of it.                         *)
LEMMA PowerType ==
  ASSUME NEW m \in Machine, NEW p \in {"poweroff", "running", "saved"}
  PROVE  /\ [m EXCEPT !.power = p] \in Machine
         /\ [m EXCEPT !.power = p].run = m.run
         /\ [m EXCEPT !.power = p].parts = m.parts
         /\ [m EXCEPT !.power = p].nic = m.nic
         /\ [m EXCEPT !.power = p].adapter = m.adapter
  BY DEF Machine

(* What is configured next is what the plan has next.                      *)
LEMMA HeadOfPlan ==
  ASSUME TypeOK, InPlan, todo # <<>>
  PROVE  /\ Head(todo) = Plan[job][Behind + 1] /\ Head(todo) \in Step
         /\ Behind \in Nat /\ Behind + 1 \in 1 .. Len(Plan[job])
         /\ Tail(todo) \in Seq(Step) /\ Len(Tail(todo)) = Len(todo) - 1
         /\ \A i \in 1 .. Len(Tail(todo)) :
              Tail(todo)[i] = Plan[job][Behind + 1 + i]
<1>1. todo \in Seq(Step) /\ job \in Job /\ Behind >= 0
      /\ \A i \in 1 .. Len(todo) : todo[i] = Plan[job][Behind + i]
  BY DEF TypeOK, InPlan
<1>2. /\ Head(todo) \in Step /\ Tail(todo) \in Seq(Step)
      /\ Len(Tail(todo)) = Len(todo) - 1
      /\ \A i \in 1 .. Len(Tail(todo)) : Tail(todo)[i] = todo[i + 1]
  BY <1>1, HeadTailProperties, Zenon
<1>3. Len(todo) \in Nat /\ Len(todo) # 0 /\ Len(Plan[job]) \in Nat
  BY <1>1, PlanIsSound, LenProperties, EmptySeq
<1>4. Head(todo) = todo[1]
  BY <1>1, <1>3
<1>5. Behind \in Nat /\ Behind + Len(todo) = Len(Plan[job])
  BY <1>1, <1>3 DEF Behind
<1> HIDE DEF Behind
<1>6. todo[1] = Plan[job][Behind + 1] /\ Behind + 1 \in 1 .. Len(Plan[job])
  BY <1>1, <1>3, <1>5
<1>7. ASSUME NEW i \in 1 .. Len(Tail(todo))
      PROVE  Tail(todo)[i] = Plan[job][Behind + 1 + i]
  <2>1. i + 1 \in 1 .. Len(todo) /\ Behind + (i + 1) = Behind + 1 + i
    BY <1>2, <1>3, <1>5
  <2> QED
    BY <1>1, <1>2, <2>1
<1> QED
  BY <1>2, <1>4, <1>5, <1>6, <1>7

(* The rest of the plan stays its end, the keys stay keys.                 *)
LEMMA PhaseKeeps ==
  ASSUME TypeOK, Phase, SearchIsNested, [Next]_vars
  PROVE  Phase' /\ todo' \in Seq(Step) \cup Seq(Key)
<1>0. /\ job \in Job /\ job' \in Job /\ todo \in Seq(Step) \cup Seq(Key)
      /\ pc' # "idle" => run' \in 1 .. MaxRuns
  BY JobKeeps, CountersKeep DEF TypeOK
<1>a. \A j \in Job : Plan[j] \in Seq(Step) /\ Len(Plan[j]) \in Nat
  BY PlanIsSound, LenProperties
<1>b. ASSUME UNCHANGED <<todo, job>>,
             pc' = pc \/ pc' \in {"idle", "fetch", "done", "failed"}
      PROVE  Phase' /\ todo' \in Seq(Step) \cup Seq(Key)
  BY <1>0, <1>b DEF Phase, InPlan, Behind
<1>1. CASE Begin
  BY <1>0, <1>1, <1>a DEF Begin, Phase
<1>2. CASE RenderFails \/ BuildMedium \/ NameIsTaken
  BY <1>0, <1>2 DEF RenderFails, BuildMedium, NameIsTaken, Phase, Fault
<1>3. CASE CreateVm
  <2>1. UNCHANGED <<todo, job>> /\ pc' \in {"configure", "failed"}
        /\ todo = Plan[job]
    BY <1>3 DEF CreateVm, Fault, Phase
  <2> QED
    BY <1>0, <1>a, <2>1 DEF Phase, InPlan, Behind
<1>4. CASE DiskRefused \/ CreateDisk
  <2>1. UNCHANGED <<todo, job>> /\ pc' \in {"attach", "failed"} /\ InPlan
    BY <1>4 DEF DiskRefused, CreateDisk, Fault, Phase
  <2> QED
    BY <1>0, <2>1 DEF Phase, InPlan, Behind
<1>5. CASE Configure
  <2>1. /\ UNCHANGED job /\ InPlan /\ todo # <<>>
        /\ \/ pc' = "configure" /\ todo' = Tail(todo)
           \/ pc' = "failed" /\ todo' = todo
    BY <1>5 DEF Configure, AtModification, Fault, Phase
  <2>2. CASE pc' = "failed" /\ todo' = todo
    BY <1>0, <2>1, <2>2 DEF Phase
  <2>3. CASE pc' = "configure" /\ todo' = Tail(todo)
    <3>1. /\ Behind \in Nat
          /\ Tail(todo) \in Seq(Step) /\ Len(Tail(todo)) = Len(todo) - 1
          /\ \A i \in 1 .. Len(Tail(todo)) :
               Tail(todo)[i] = Plan[job][Behind + 1 + i]
      BY <2>1, HeadOfPlan
    <3>2. Len(todo) \in Nat /\ Len(Plan[job]) \in Nat
      BY <1>0, <1>a, <2>1, LenProperties DEF InPlan
    <3>3. Behind' = Behind + 1
      BY <2>1, <2>3, <3>1, <3>2 DEF Behind
    <3>4. InPlan'
      BY <2>1, <2>3, <3>1, <3>3 DEF InPlan
    <3> QED
      BY <1>0, <2>3, <3>1, <3>4 DEF Phase
  <2> QED
    BY <2>1, <2>2, <2>3
<1>6. CASE ModificationRefused \/ CallFails \/ InterfaceFails
  BY <1>6, <1>b DEF ModificationRefused, CallFails, InterfaceFails, Fault
<1>7. CASE FinishConfiguration
  <2>1. job.family \in Family
    BY <1>0, JobAssumption
  <2>2. /\ pc' \in {"start", "done"}
        /\ todo' = Keys(job.family) \/ todo' = <<>>
    BY <1>7 DEF FinishConfiguration
  <2>3. todo' \in Seq(Key)
    BY <2>1, <2>2, KeysAreKeys, EmptySeq
  <2> QED
    BY <1>0, <2>2, <2>3 DEF Phase
<1>8. CASE StartVm
  <2>1. UNCHANGED todo /\ pc' \in {"keys", "failed"} /\ todo \in Seq(Key)
    BY <1>8 DEF StartVm, Fault, Phase
  <2> QED
    BY <1>0, <2>1 DEF Phase
<1>9. CASE PressKey
  <2>1. UNCHANGED pc /\ pc = "keys" /\ todo' = Tail(todo) /\ todo # <<>>
        /\ todo \in Seq(Key)
    BY <1>9 DEF PressKey, Phase
  <2>2. Tail(todo) \in Seq(Key)
    BY <2>1, HeadTailProperties, Zenon
  <2> QED
    BY <1>0, <2>1, <2>2 DEF Phase
<1>10. CASE MachineIsGone \/ KeysAreSent \/ Fetch \/ FetchTimesOut
  BY <1>10, <1>b DEF MachineIsGone, KeysAreSent, Fetch, FetchTimesOut
<1>11. CASE Close
  BY <1>0, <1>11, EmptySeq DEF Close, Phase
<1>12. CASE EnsureInterface \/ UNCHANGED vars
  BY <1>12, <1>b, Zenon DEF EnsureInterface, vars, machineVars
<1>13. CASE Operator
  BY <1>13, <1>b, Zenon DEF Operator, SwitchPower, RemoveMachine,
     ChangeInterfaces
<1> QED
  BY <1>1, <1>2, <1>3, <1>4, <1>5, <1>6, <1>7, <1>8, <1>9, <1>10, <1>11,
     <1>12, <1>13 DEF Next, Rest

-----------------------------------------------------------------------------
MachineInv ==
  /\ vm \in [Name -> Machine \cup {NoMachine}]
  /\ MachineIsOurs /\ BehindIsInEffect /\ MediumIsOurs

(* A run that does not work has only types to keep.                        *)
LEMMA StoppedKeeps ==
  ASSUME ~Working', vm' \in [Name -> Machine \cup {NoMachine}],
         pc' = "create" /\ MakesMedium(job') => medium'[job'.name] = run'
  PROVE  MachineInv'
  BY DEF MachineInv, MachineIsOurs, BehindIsInEffect, MediumIsOurs, Working

(* The operator switches machines, removes them and adds interfaces; the   *)
(* search for the interface and the keys touch no machine.                 *)
LEMMA MeanwhileKeeps ==
  ASSUME MachineInv, TypeOK,
         UNCHANGED <<pc, job, run, todo, medium>>,
         Working => Being("management") \subseteq Being("management")',
         \A n \in Name : \/ vm'[n] = NoMachine
                         \/ vm'[n] = vm[n] /\ disk'[n] = disk[n]
                         \/ \E p \in {"poweroff", "running", "saved"} :
                              /\ Exists(n) /\ disk'[n] = disk[n]
                              /\ vm'[n] = [vm[n] EXCEPT !.power = p],
         vm' \in [Name -> Machine \cup {NoMachine}]
  PROVE  MachineInv'
<1> DEFINE n == job.name
           m == vm[n]
           e == vm'[n]
<1>0. job \in Job /\ n \in Name
  BY JobAssumption DEF TypeOK
<1>1. ASSUME Working, Exists(n)'
      PROVE  /\ Exists(n) /\ disk'[n] = disk[n]
             /\ e.run = m.run /\ e.parts = m.parts /\ e.nic = m.nic
             /\ e.adapter = m.adapter
  <2>1. e # NoMachine
    BY <1>1 DEF Exists, NoMachine
  <2>2. CASE e = m /\ disk'[n] = disk[n]
    BY <1>1, <2>2 DEF Exists
  <2>3. CASE \E p \in {"poweroff", "running", "saved"} :
               /\ Exists(n) /\ disk'[n] = disk[n]
               /\ e = [m EXCEPT !.power = p]
    <3>1. m \in Machine
      BY <1>0, <2>3, ExistsIsMachine DEF MachineInv
    <3> QED
      BY <2>3, <3>1, PowerType
  <2> QED
    BY <1>0, <2>1, <2>2, <2>3
<1>2. ASSUME Working, Exists(n)', NEW step, InEffect(m, step)
      PROVE  InEffect(e, step)
  BY <1>1, <1>2 DEF InEffect
<1>3. MachineIsOurs'
  <2> SUFFICES ASSUME Working', Exists(job.name)'
               PROVE  /\ e.run = run
                      /\ "disk" \in e.parts => disk'[n] = run
                      /\ pc = "attach" => disk'[n] = run
                      /\ (\E s \in Slot : e.nic[s] = "management") =>
                           e.adapter \in Being("management")'
    BY DEF MachineIsOurs
  <2>1. Working /\ Exists(n)'
    BY DEF Working, Exists
  <2> QED
    BY <1>1, <2>1 DEF MachineInv, MachineIsOurs
<1>4. BehindIsInEffect'
  <2> SUFFICES ASSUME Working', Exists(job.name)'
               PROVE  IF pc \in {"configure", "attach"}
                      THEN \A i \in 1 .. Behind : InEffect(e, Plan[job][i])
                      ELSE Equipped(e, job)
    BY DEF BehindIsInEffect, Behind
  <2>1. Working /\ Exists(n)' /\ Exists(n)
    BY <1>1 DEF Working, Exists
  <2> QED
    BY <1>2, <2>1 DEF MachineInv, BehindIsInEffect, Equipped
<1>5. MediumIsOurs'
  BY DEF MachineInv, MediumIsOurs, Working
<1> QED
  BY <1>3, <1>4, <1>5 DEF MachineInv

(* The steps before a machine is registered, and those that end a run.     *)
LEMMA StopSteps ==
  ASSUME RunInv, vm \in [Name -> Machine \cup {NoMachine}],
         \/ Begin \/ RenderFails \/ BuildMedium \/ NameIsTaken \/ DiskRefused
         \/ ModificationRefused \/ CallFails \/ InterfaceFails
         \/ MachineIsGone \/ FetchTimesOut \/ Close
  PROVE  MachineInv'
<1>0. job \in Job /\ job.name \in Name /\ medium \in [Name -> 0 .. MaxRuns]
  BY JobAssumption DEF RunInv, TypeOK
<1>1. CASE Begin
  <2>1. /\ UNCHANGED vm /\ ~Working'
        /\ pc' = "create" => ~MakesMedium(job')
    BY <1>1 DEF Begin, Working
  <2> QED
    BY <2>1, StoppedKeeps
<1>2. CASE BuildMedium
  <2>1. UNCHANGED <<vm, job, run>> /\ ~Working'
    BY <1>2 DEF BuildMedium, Fault, Working
  <2>2. pc' = "create" => medium' = [medium EXCEPT ![job.name] = run]
    BY <1>2 DEF BuildMedium, Fault
  <2>3. pc' = "create" => medium'[job'.name] = run'
    BY <1>0, <2>1, <2>2
  <2> QED
    BY <2>1, <2>3, StoppedKeeps
<1>3. CASE \/ RenderFails \/ NameIsTaken \/ DiskRefused \/ InterfaceFails
           \/ MachineIsGone \/ FetchTimesOut \/ Close
  <2>1. UNCHANGED vm /\ pc' \in {"failed", "idle"}
    BY <1>3 DEF RenderFails, NameIsTaken, DiskRefused, InterfaceFails,
       MachineIsGone, FetchTimesOut, Close, Fault
  <2> QED
    BY <2>1, StoppedKeeps DEF Working
<1>4. CASE ModificationRefused \/ CallFails
  <2>1. pc' = "failed" /\ RollBack
    BY <1>4 DEF ModificationRefused, CallFails, Fault
  <2>2. vm' \in [Name -> Machine \cup {NoMachine}]
    <3>1. \/ UNCHANGED vm
          \/ Exists(job.name) /\ vm' = [vm EXCEPT ![job.name].power = "poweroff"]
          \/ vm' = [vm EXCEPT ![job.name] = NoMachine]
      BY <2>1 DEF RollBack
    <3>2. Exists(job.name) =>
            [vm[job.name] EXCEPT !.power = "poweroff"] \in Machine
      BY <1>0, ExistsIsMachine, PowerType
    <3> QED
      BY <1>0, <3>1, <3>2
  <2> QED
    BY <2>1, <2>2, StoppedKeeps DEF Working
<1> QED
  BY <1>1, <1>2, <1>3, <1>4

(* A new machine is the run's and has nothing behind it.                   *)
LEMMA CreateKeepsMachine ==
  ASSUME RunInv, MachineInv, CreateVm
  PROVE  MachineInv'
<1> DEFINE e == NewMachine(run, job)
<1>0. /\ job \in Job /\ job.name \in Name /\ run \in 1 .. MaxRuns
      /\ vm \in [Name -> Machine \cup {NoMachine}]
      /\ todo = Plan[job] /\ Len(Plan[job]) \in Nat
  BY JobAssumption, PlanIsSound, LenProperties
  DEF RunInv, MachineInv, TypeOK, Phase, CreateVm
<1>1. /\ vm' = [vm EXCEPT ![job.name] = e] /\ UNCHANGED <<job, run, todo, medium>>
      /\ pc' \in {"configure", "failed"} /\ pc = "create"
  BY DEF CreateVm, Fault
<1>2. /\ e \in Machine /\ e.run = run /\ "disk" \notin e.parts
      /\ \A s \in Slot : e.nic[s] = "none"
  BY <1>0, NewMachineType
<1> HIDE DEF e
<1>3. vm' \in [Name -> Machine \cup {NoMachine}] /\ vm'[job.name] = e
  BY <1>0, <1>1, <1>2
<1>4. MachineIsOurs'
  BY <1>1, <1>2, <1>3 DEF MachineIsOurs
<1>5. BehindIsInEffect'
  BY <1>0, <1>1 DEF BehindIsInEffect, Behind, Working
<1>6. MediumIsOurs'
  BY <1>1 DEF MachineInv, MediumIsOurs
<1> QED
  BY <1>3, <1>4, <1>5, <1>6 DEF MachineInv

(* The disk file the run made is its own.                                  *)
LEMMA DiskKeepsMachine ==
  ASSUME RunInv, MachineInv, CreateDisk
  PROVE  MachineInv'
<1>0. /\ job \in Job /\ job.name \in Name
      /\ disk \in [Name -> 0 .. MaxRuns]
  BY JobAssumption DEF RunInv, TypeOK
<1>1. /\ UNCHANGED <<vm, job, run, todo, medium, iface>>
      /\ pc' \in {"attach", "failed"} /\ pc = "configure"
      /\ disk' = [disk EXCEPT ![job.name] = IF @ = 0 THEN run ELSE @]
      /\ disk[job.name] = 0
  BY DEF CreateDisk, Fault, netVars, DiskIsFree
<1>2. disk'[job.name] = run
  BY <1>0, <1>1
<1>3. MachineIsOurs'
  BY <1>1, <1>2 DEF MachineInv, MachineIsOurs, Working, Exists, Being
<1>4. BehindIsInEffect'
  BY <1>1 DEF MachineInv, BehindIsInEffect, Behind, Working, Exists
<1>5. MediumIsOurs'
  BY <1>1 DEF MachineInv, MediumIsOurs, Working
<1> QED
  BY <1>1, <1>3, <1>4, <1>5 DEF MachineInv

(* The step that takes effect is the next of the plan and spoils none      *)
(* before it; a disk is attached behind its creation, the management       *)
(* adapter behind the search for its interface.                            *)
LEMMA ConfigureKeepsMachine ==
  ASSUME RunInv, MachineInv, Configure
  PROVE  MachineInv'
<1> DEFINE n == job.name
           m == vm[n]
           step == Head(todo)
           e == Effect(m, step)
<1>0. /\ job \in Job /\ n \in Name /\ TypeOK
      /\ vm \in [Name -> Machine \cup {NoMachine}]
      /\ chosen \in Iface \cup {NoIface}
  BY JobAssumption DEF RunInv, MachineInv, TypeOK, NetTypeOK
<1>1. /\ UNCHANGED <<job, run, medium, disk, iface>>
      /\ pc \in {"configure", "attach"} /\ todo # <<>> /\ InPlan
      /\ Exists(n) /\ m \in Machine
  BY <1>0, ExistsIsMachine
  DEF Configure, AtModification, MayModify, KeepInterface, RunInv, Phase
<1>2. /\ step = Plan[job][Behind + 1] /\ step \in Step
      /\ Behind \in Nat /\ Behind + 1 \in 1 .. Len(Plan[job])
      /\ Len(Tail(todo)) = Len(todo) - 1
  BY <1>0, <1>1, HeadOfPlan
<1>3. \/ vm' = [vm EXCEPT ![n] = e] /\ pc' = "configure" /\ todo' = Tail(todo)
      \/ pc' = "failed" /\ (vm' = [vm EXCEPT ![n] = e]
                            \/ vm' = [vm EXCEPT ![n] = NoMachine])
  BY DEF Configure, Fault
<1>4. \A i \in 1 .. Behind : InEffect(m, Plan[job][i])
  BY <1>1 DEF MachineInv, BehindIsInEffect, Working
<1>5. /\ e \in Machine /\ e.run = m.run
      /\ \A i \in 1 .. Behind + 1 : InEffect(e, Plan[job][i])
  <2>1. PICK k \in 1 .. Len(Plan[job]) : k = Behind + 1
    BY <1>2
  <2>2. \A i \in 1 .. k - 1 : InEffect(m, Plan[job][i])
    BY <1>2, <1>4, <2>1
  <2>3. e = Effect(m, Plan[job][k])
    BY <1>2, <2>1
  <2> HIDE DEF e
  <2>4. /\ e \in Machine /\ e.run = m.run
        /\ \A i \in 1 .. k : InEffect(e, Plan[job][i])
    BY <1>0, <1>1, <2>2, <2>3, StepsStay
  <2> QED
    BY <2>1, <2>4
<1>e. e = Effect(m, step)
  OBVIOUS
<1> HIDE DEF e
<1>n. ASSUME step \in NicStep
      PROVE  /\ e.parts = m.parts
             /\ e.nic = [m.nic EXCEPT ![step.slot] =
                           IF step.role = "nat-host" /\ @ # "nat" THEN @
                           ELSE step.role]
             /\ e.adapter =
                  IF step.role = "management" THEN chosen ELSE m.adapter
  <2>1. PICK x \in NicStep : x = step
    BY <1>n
  <2>2. PICK y \in Machine : y = m
    BY <1>1
  <2>3. e = Effect(y, x)
    BY <1>e, <2>1, <2>2
  <2>4. /\ e.parts = y.parts
        /\ e.nic = [y.nic EXCEPT ![x.slot] =
                      IF x.role = "nat-host" /\ @ # "nat" THEN @ ELSE x.role]
        /\ e.adapter = IF x.role = "management" THEN chosen ELSE y.adapter
    BY <1>0, <2>3, NicTakesEffect
  <2> QED
    BY <2>1, <2>2, <2>4
<1>6. "disk" \in e.parts => disk[n] = run
  <2>1. CASE step \in PartStep
    <3>1. e.parts = m.parts \cup {step.part}
      BY <1>1, <1>e, <2>1, PartTakesEffect
    <3>2. ASSUME step.part = "disk" PROVE disk[n] = run
      <4>1. step = AddPart("disk")
        BY <2>1, <3>2 DEF PartStep, AddPart
      <4>2. pc = "attach"
        BY <1>1, <4>1 DEF Configure, AtModification, DiskIsNext
      <4> QED
        BY <1>1, <4>2 DEF MachineInv, MachineIsOurs, Working
    <3> QED
      BY <1>1, <3>1, <3>2 DEF MachineInv, MachineIsOurs, Working
  <2>2. CASE step \in NicStep
    BY <1>1, <1>n, <2>2 DEF MachineInv, MachineIsOurs, Working
  <2> QED
    BY <1>2, <2>1, <2>2 DEF Step
<1>7. ASSUME NEW s \in Slot, e.nic[s] = "management"
      PROVE  e.adapter \in Being("management")
  <2>1. CASE step \in PartStep
    <3>1. e.nic = m.nic /\ e.adapter = m.adapter
      BY <1>1, <1>e, <2>1, PartTakesEffect
    <3> QED
      BY <1>1, <1>7, <3>1 DEF MachineInv, MachineIsOurs, Working
  <2>2. CASE step \in NicStep
    <3>1. CASE step.role = "management"
      <4>1. netPc = "ready"
        BY <1>1, <3>1 DEF Configure, AtModification, NeedsInterface
      <4> QED
        BY <1>n, <2>2, <3>1, <4>1 DEF RunInv, ReadyIsManaged
    <3>2. CASE step.role # "management"
      <4>1. m.nic \in [Slot -> Role] /\ step.slot \in Slot
        BY <1>1, <2>2 DEF Machine, NicStep
      <4>2. m.nic[s] = "management"
        BY <1>7, <1>n, <2>2, <3>2, <4>1
      <4> QED
        BY <1>1, <1>n, <2>2, <3>2, <4>2 DEF MachineInv, MachineIsOurs, Working
    <3> QED
      BY <3>1, <3>2
  <2> QED
    BY <1>2, <2>1, <2>2 DEF Step
<1>8. CASE pc' = "failed"
  <2>1. vm' \in [Name -> Machine \cup {NoMachine}]
    BY <1>0, <1>3, <1>5
  <2> QED
    BY <1>8, <2>1, StoppedKeeps DEF Working
<1>9. CASE /\ vm' = [vm EXCEPT ![n] = e]
           /\ pc' = "configure" /\ todo' = Tail(todo)
  <2>1. vm'[n] = e /\ vm' \in [Name -> Machine \cup {NoMachine}]
    BY <1>0, <1>5, <1>9
  <2>2. Behind' = Behind + 1
    <3>1. Len(todo) \in Nat /\ Len(Plan[job]) \in Nat
      BY <1>0, <1>1, PlanIsSound, LenProperties DEF InPlan
    <3> QED
      BY <1>1, <1>2, <1>9, <3>1 DEF Behind
  <2>3. MachineIsOurs'
    <3>1. m.run = run
      BY <1>1 DEF MachineInv, MachineIsOurs, Working
    <3>2. Being("management")' = Being("management")
      BY <1>1 DEF Being
    <3> QED
      BY <1>1, <1>5, <1>6, <1>7, <1>9, <2>1, <3>1, <3>2 DEF MachineIsOurs
  <2>4. BehindIsInEffect'
    BY <1>1, <1>5, <1>9, <2>1, <2>2 DEF BehindIsInEffect
  <2>5. MediumIsOurs'
    BY <1>1, <1>9 DEF MachineInv, MediumIsOurs, Working
  <2> QED
    BY <2>1, <2>3, <2>4, <2>5 DEF MachineInv
<1> QED
  BY <1>3, <1>8, <1>9

(* Behind the configuration nothing is taken away.                         *)
LEMMA StartKeepsMachine ==
  ASSUME RunInv, MachineInv,
         FinishConfiguration \/ StartVm \/ PressKey \/ KeysAreSent \/ Fetch
  PROVE  MachineInv'
<1>0. /\ job \in Job /\ job.name \in Name
      /\ vm \in [Name -> Machine \cup {NoMachine}]
  BY JobAssumption DEF RunInv, MachineInv, TypeOK
<1>1. CASE FinishConfiguration
  <2>1. /\ UNCHANGED <<vm, disk, medium, job, run, iface>>
        /\ pc = "configure" /\ pc' \in {"start", "done"} /\ todo = <<>>
    BY <1>1 DEF FinishConfiguration, netVars
  <2>2. Len(todo) = 0 /\ Plan[job] \in Seq(Step) /\ Len(Plan[job]) \in Nat
    BY <1>0, <2>1, PlanIsSound, LenProperties
  <2>3. Behind = Len(Plan[job]) /\ DOMAIN Plan[job] = 1 .. Len(Plan[job])
    BY <2>2, LenProperties DEF Behind
  <2>4. Exists(job.name) => Equipped(vm[job.name], job)
    BY <2>1, <2>3 DEF MachineInv, BehindIsInEffect, Working, Equipped
  <2> QED
    BY <2>1, <2>4 DEF MachineInv, MachineIsOurs, BehindIsInEffect,
       MediumIsOurs, Working, Exists, Being
<1>2. CASE StartVm
  <2> DEFINE m == vm[job.name]
             e == [m EXCEPT !.power = "running"]
  <2>1. /\ UNCHANGED <<disk, medium, job, run, todo, iface>>
        /\ pc = "start" /\ pc' \in {"keys", "failed"}
        /\ Exists(job.name) /\ vm' = [vm EXCEPT ![job.name] = e]
    BY <1>0, <1>2 DEF StartVm, Fault, netVars
  <2>2. /\ e \in Machine /\ e.run = m.run /\ e.parts = m.parts
        /\ e.nic = m.nic /\ e.adapter = m.adapter
    <3>1. m \in Machine
      BY <1>0, <2>1, ExistsIsMachine
    <3> QED
      BY <3>1, PowerType
  <2> HIDE DEF e
  <2>3. vm'[job.name] = e /\ vm' \in [Name -> Machine \cup {NoMachine}]
    BY <1>0, <2>1, <2>2
  <2>4. Equipped(m, job) => Equipped(e, job)
    BY <2>2 DEF Equipped, InEffect
  <2>5. MachineIsOurs'
    BY <2>1, <2>2, <2>3 DEF MachineInv, MachineIsOurs, Working, Being
  <2>6. BehindIsInEffect'
    BY <2>1, <2>3, <2>4 DEF MachineInv, BehindIsInEffect, Working
  <2>7. MediumIsOurs'
    BY <2>1 DEF MachineInv, MediumIsOurs, Working
  <2> QED
    BY <2>3, <2>5, <2>6, <2>7 DEF MachineInv
<1>3. CASE PressKey \/ KeysAreSent \/ Fetch
  <2>1. /\ UNCHANGED <<vm, disk, medium, job, run, iface>>
        /\ pc \in {"keys", "fetch"} /\ pc' \in {"keys", "fetch", "done"}
    BY <1>3 DEF PressKey, KeysAreSent, Fetch, netVars
  <2> QED
    BY <2>1 DEF MachineInv, MachineIsOurs, BehindIsInEffect, MediumIsOurs,
       Working, Exists, Being
<1> QED
  BY <1>1, <1>2, <1>3

(* The search and the operator.                                            *)
LEMMA BesidesKeepMachine ==
  ASSUME RunInv, MachineInv,
         EnsureInterface \/ Operator \/ UNCHANGED vars
  PROVE  MachineInv'
<1>0. /\ TypeOK /\ NetInv
      /\ vm \in [Name -> Machine \cup {NoMachine}]
      /\ disk \in [Name -> 0 .. MaxRuns]
  BY DEF RunInv, MachineInv, IInv, TypeOK
<1>1. CASE EnsureInterface
  <2>1. UNCHANGED <<vm, disk, medium, pc, job, run, todo>>
    BY <1>1 DEF EnsureInterface, machineVars
  <2>2. Being("management") \subseteq Being("management")'
    BY <1>0, <1>1, ManagementStays DEF EnsureInterface, KeepInterface, Being
  <2> QED
    BY <1>0, <2>1, <2>2, MeanwhileKeeps
<1>2. CASE UNCHANGED vars
  <2>1. UNCHANGED <<vm, disk, medium, pc, job, run, todo, iface>>
    BY <1>2, Zenon DEF vars, machineVars, netVars
  <2> QED
    BY <1>0, <2>1, MeanwhileKeeps DEF Being
<1>3. CASE SwitchPower
  <2>1. PICK n \in Name, p \in {"poweroff", "running", "saved"} :
          Exists(n) /\ vm' = [vm EXCEPT ![n] = [vm[n] EXCEPT !.power = p]]
    BY <1>0, <1>3 DEF SwitchPower
  <2>2. UNCHANGED <<disk, medium, pc, job, run, todo, iface>>
    BY <1>3 DEF SwitchPower, netVars
  <2>3. [vm[n] EXCEPT !.power = p] \in Machine
    BY <1>0, <2>1, ExistsIsMachine, PowerType
  <2>4. vm' \in [Name -> Machine \cup {NoMachine}]
    BY <1>0, <2>1, <2>3
  <2>5. \A x \in Name : \/ vm'[x] = vm[x]
                        \/ Exists(x) /\ vm'[x] = [vm[x] EXCEPT !.power = p]
    BY <1>0, <2>1
  <2>6. Being("management") \subseteq Being("management")'
    BY <2>2 DEF Being
  <2> QED
    BY <1>0, <2>1, <2>2, <2>4, <2>5, <2>6, MeanwhileKeeps
<1>4. CASE RemoveMachine
  <2>1. PICK n \in Name :
          /\ vm' = [vm EXCEPT ![n] = NoMachine]
          /\ disk' = [disk EXCEPT ![n] = 0] \/ UNCHANGED disk
    BY <1>4 DEF RemoveMachine
  <2>2. UNCHANGED <<medium, pc, job, run, todo, iface>>
    BY <1>4 DEF RemoveMachine, netVars
  <2>3. vm' \in [Name -> Machine \cup {NoMachine}]
    BY <1>0, <2>1
  <2>4. \A x \in Name : \/ vm'[x] = NoMachine
                        \/ vm'[x] = vm[x] /\ disk'[x] = disk[x]
    BY <1>0, <2>1
  <2>5. Being("management") \subseteq Being("management")'
    BY <2>2 DEF Being
  <2> QED
    BY <1>0, <2>2, <2>3, <2>4, <2>5, MeanwhileKeeps
<1>5. CASE ChangeInterfaces
  <2>1. UNCHANGED <<vm, disk, medium, pc, job, run, todo>>
    BY <1>5 DEF ChangeInterfaces
  <2>2. Working => Being("management") \subseteq Being("management")'
    BY <1>0, <1>5, ManagementStays DEF ChangeInterfaces, Working
  <2> QED
    BY <1>0, <2>1, <2>2, MeanwhileKeeps
<1> QED
  BY <1>1, <1>2, <1>3, <1>4, <1>5 DEF Operator

(* The interface the search ends with carries the network.                 *)
LEMMA ReadyStaysManaged ==
  ASSUME RunInv, [Next]_vars
  PROVE  ReadyIsManaged'
<1>0. NetInv /\ SearchIsNested /\ ReadyIsManaged
  BY DEF RunInv, IInv
<1>a. ASSUME netPc' \in {"idle", "list"} \/ UNCHANGED netVars
      PROVE  ReadyIsManaged'
  BY <1>0, <1>a DEF ReadyIsManaged, netVars, Being
<1>1. CASE EnsureInterface
  BY <1>0, <1>1, <1>a, ReadyKeeps DEF EnsureInterface
<1>2. CASE Configure \/ ModificationRefused \/ CallFails \/ InterfaceFails \/ Close
  <2>1. netPc' = "idle"
    BY <1>0, <1>2 DEF Configure, ModificationRefused, CallFails,
       InterfaceFails, Close, SearchIsNested
  <2> QED
    BY <2>1, <1>a
<1>3. CASE \/ Begin \/ RenderFails \/ BuildMedium \/ NameIsTaken \/ CreateVm
           \/ DiskRefused \/ CreateDisk \/ FinishConfiguration \/ StartVm
           \/ PressKey \/ MachineIsGone \/ KeysAreSent \/ Fetch \/ FetchTimesOut
           \/ SwitchPower \/ RemoveMachine \/ UNCHANGED vars
  <2>1. UNCHANGED netVars
    BY <1>3, Zenon DEF Begin, RenderFails, BuildMedium, NameIsTaken, CreateVm,
       DiskRefused, CreateDisk, FinishConfiguration, StartVm, PressKey,
       MachineIsGone, KeysAreSent, Fetch, FetchTimesOut, SwitchPower,
       RemoveMachine, vars
  <2> QED
    BY <2>1, <1>a
<1>4. CASE ChangeInterfaces
  <2>1. AddInterface \/ netPc' = "idle"
    BY <1>4 DEF ChangeInterfaces, RemoveInterface
  <2> QED
    BY <1>0, <1>a, <2>1, ReadyKeeps
<1> QED
  BY <1>1, <1>2, <1>3, <1>4 DEF Next, Operator, Rest

(* Every step keeps the invariant of a run.                                *)
LEMMA RunInductive == RunInv /\ [Next]_vars => RunInv'
<1> SUFFICES ASSUME RunInv, [Next]_vars PROVE RunInv'
  OBVIOUS
<1>1. /\ IInv /\ SearchIsNested /\ TypeOK /\ Phase /\ MachineInv
  BY DEF RunInv, IInv, TypeOK, MachineInv
<1>2. IInv'
  BY <1>1, Inductive
<1>3. MachineInv'
  <2>1. vm \in [Name -> Machine \cup {NoMachine}]
    BY <1>1 DEF MachineInv
  <2> QED
    BY <1>1, <2>1, StopSteps, CreateKeepsMachine, DiskKeepsMachine,
       ConfigureKeepsMachine, StartKeepsMachine, BesidesKeepMachine
    DEF Next, Rest
<1>4. Phase' /\ todo' \in Seq(Step) \cup Seq(Key)
  BY <1>1, PhaseKeeps
<1>5. TypeOK'
  <2>1. NetTypeOK'
    BY <1>1, <1>2, BooleansKeep, Zenon DEF IInv, NetInv, Places, NetTypeOK
  <2>2. clean' \in BOOLEAN
    BY <1>1, BooleansKeep, Zenon
  <2>3. /\ vm' \in [Name -> Machine \cup {NoMachine}]
        /\ disk' \in [Name -> 0 .. MaxRuns] /\ medium' \in [Name -> 0 .. MaxRuns]
    BY <1>1, <1>3, FilesKeep, Zenon DEF MachineInv
  <2>4. /\ run' \in 0 .. MaxRuns
        /\ faults' \in 0 .. MaxFaults /\ moves' \in 0 .. MaxMoves
        /\ pc' \in {"idle", "medium", "create", "configure", "attach", "start",
                    "keys", "fetch", "done", "failed"}
    BY <1>1, CountersKeep, Zenon
  <2>5. job' \in Job
    BY <1>1, JobKeeps, Zenon
  <2> QED
    BY <1>4, <2>1, <2>2, <2>3, <2>4, <2>5, Zenon DEF TypeOK
<1> QED
  BY <1>2, <1>3, <1>4, <1>5, ReadyStaysManaged, Zenon DEF RunInv, MachineInv

(* And it holds throughout.                                                *)
LEMMA RunAlways == Spec => []RunInv
  BY RunInitially, RunInductive, PTL DEF Spec

(* Every variable holds a value of its kind.                               *)
THEOREM TypeCorrect == Spec => []TypeOK
<1>1. RunInv => TypeOK
  BY DEF RunInv
<1> QED
  BY <1>1, RunAlways, PTL

(* What create_machine reports as a success is one, whatever failed before *)
(* and whoever interfered: the machine of that name, if it is still there, *)
(* is the run's own and has all its parts and adapters, its disk and its   *)
(* installation medium were made by the run, and its management adapter is *)
(* on the management network.                                              *)
THEOREM SuccessIsEquipped == Spec => []SuccessMeansEquipped
<1>1. RunInv => SuccessMeansEquipped
  <2> SUFFICES ASSUME RunInv, pc = "done", Exists(job.name)
               PROVE  /\ vm[job.name].run = run
                      /\ Equipped(vm[job.name], job)
                      /\ disk[job.name] = run
                      /\ MakesMedium(job) => medium[job.name] = run
                      /\ job.management =>
                           \E i \in Being("management") :
                             vm[job.name].adapter = i
    BY DEF SuccessMeansEquipped
  <2> DEFINE m == vm[job.name]
  <2>1. job \in Job
    BY DEF RunInv, TypeOK
  <2>2. Equipped(m, job) /\ m.run = run
        /\ (MakesMedium(job) => medium[job.name] = run)
    BY DEF RunInv, BehindIsInEffect, MachineIsOurs, MediumIsOurs, Working
  <2>3. \A i \in 1 .. Len(Plan[job]) : InEffect(m, Plan[job][i])
    <3>1. DOMAIN Plan[job] = 1 .. Len(Plan[job])
      BY <2>1, PlanIsSound, LenProperties
    <3> QED
      BY <2>2, <3>1 DEF Equipped
  <2>4. disk[job.name] = run
    <3>1. PICK k \in 1 .. Len(Plan[job]) : Plan[job][k] = AddPart("disk")
      BY <2>1, PlanIsSound
    <3>2. InEffect(m, AddPart("disk"))
      BY <2>3, <3>1
    <3>3. "disk" \in m.parts
      BY <3>2 DEF InEffect, AddPart
    <3> QED
      BY <3>3 DEF RunInv, MachineIsOurs, Working
  <2>5. ASSUME job.management PROVE m.adapter \in Being("management")
    <3> DEFINE slot == ManagementSlot(job.topology, job.internet, TRUE)
    <3>1. PICK k \in 1 .. Len(Plan[job]) :
            Plan[job][k] = SetRole(slot, "management")
      BY <2>1, <2>5, PlanIsSound
    <3>2. slot \in Slot
      <4>1. Plan[job][k] \in Step
        BY <2>1, PlanIsSound, ElementOfSeq, Zenon
      <4>2. Plan[job][k].what = "nic" /\ Plan[job][k].slot = slot
        BY <3>1 DEF SetRole
      <4>3. Plan[job][k] \in NicStep
        BY <4>1, <4>2 DEF Step, PartStep
      <4> HIDE DEF slot
      <4> QED
        BY <4>2, <4>3 DEF NicStep
    <3>3. InEffect(m, SetRole(slot, "management"))
      BY <2>3, <3>1
    <3>4. m.nic[slot] = "management"
      BY <3>3 DEF InEffect, SetRole
    <3> QED
      BY <3>2, <3>4 DEF RunInv, MachineIsOurs, Working
  <2> QED
    BY <2>2, <2>4, <2>5
<1> QED
  BY <1>1, RunAlways, PTL

-----------------------------------------------------------------------------
(***************************************************************************)
(* A run that nothing disturbs: it never finds the machine switched on or  *)
(* gone, its disk file made, or the network taken, and so never fails.     *)
(***************************************************************************)
Other == PartStep \ {AddPart("disk")}

(* The disk has its place in the plan and no second one.                   *)
LEMMA DiskIsThird ==
  ASSUME NEW j \in Job, NEW i \in 1 .. Len(PartSteps(j)),
         PartSteps(j)[i] = AddPart("disk")
  PROVE  i = 3
<1> DEFINE S == When(j.secure, SecureBootSteps)
           HD == HardwareSteps \o DiskSteps
           HDS == HD \o S
           M == MediaSteps(j)
           P == HDS \o M
<1>0. \A p \in Part \ {"disk"} : AddPart(p) \in Other
  BY DEF AddPart, PartStep, Other
<1>1. HardwareSteps \in Seq(Other) /\ Len(HardwareSteps) = 2
  BY <1>0 DEF HardwareSteps, Part
<1>2. DiskSteps \in Seq(PartStep) /\ Len(DiskSteps) = 2 /\ DiskSteps[2] \in Other
  BY <1>0, PartsAreSteps DEF DiskSteps, Part
<1>3. S \in Seq(Other)
  BY <1>0, EmptySeq DEF When, SecureBootSteps, Part
<1>4. M \in Seq(Other)
  <2> DEFINE V == <<AddPart("vendor")>>
             D == When(AttachesSeed(j), <<AddPart("seed")>>)
             A == When(j.family = "windows", <<AddPart("additions")>>)
  <2>1. V \in Seq(Other) /\ D \in Seq(Other) /\ A \in Seq(Other)
    BY <1>0, EmptySeq DEF When, Part
  <2> HIDE DEF V, D, A
  <2>2. V \o D \in Seq(Other)
    BY <2>1, ConcatProperties, Zenon
  <2>3. (V \o D) \o A \in Seq(Other)
    BY <2>1, <2>2, ConcatProperties, Zenon
  <2> QED
    BY <2>3 DEF MediaSteps, V, D, A
<1> HIDE DEF S, M
<1>5. /\ HardwareSteps \in Seq(PartStep) /\ S \in Seq(PartStep)
      /\ M \in Seq(PartStep)
  BY <1>1, <1>3, <1>4, SeqMonotonic, Zenon DEF Other
<1>a. HD \in Seq(PartStep)
  BY <1>2, <1>5, ConcatProperties, Zenon
<1>6. /\ Len(HD) = Len(HardwareSteps) + Len(DiskSteps)
      /\ \A k \in 1 .. Len(HardwareSteps) + Len(DiskSteps) :
           HD[k] = IF k <= Len(HardwareSteps) THEN HardwareSteps[k]
                   ELSE DiskSteps[k - Len(HardwareSteps)]
  BY <1>2, <1>5, ConcatProperties, Zenon
<1> HIDE DEF HD
<1>b. HDS \in Seq(PartStep)
  BY <1>5, <1>a, ConcatProperties, Zenon
<1>7. /\ Len(HDS) = Len(HD) + Len(S)
      /\ \A k \in 1 .. Len(HD) + Len(S) :
           HDS[k] = IF k <= Len(HD) THEN HD[k] ELSE S[k - Len(HD)]
  BY <1>5, <1>a, ConcatProperties, Zenon
<1> HIDE DEF HDS
<1>8. /\ Len(P) = Len(HDS) + Len(M)
      /\ \A k \in 1 .. Len(HDS) + Len(M) :
           P[k] = IF k <= Len(HDS) THEN HDS[k] ELSE M[k - Len(HDS)]
  BY <1>5, <1>b, ConcatProperties, Zenon
<1>9. PartSteps(j) = P
  BY DEF PartSteps, P, HDS, HD, S, M
<1> HIDE DEF P
<1>10. Len(S) \in Nat /\ Len(M) \in Nat
  BY <1>3, <1>4, LenProperties
<1>11. /\ \A k \in 1 .. Len(HardwareSteps) : HardwareSteps[k] \in Other
       /\ \A k \in 1 .. Len(S) : S[k] \in Other
       /\ \A k \in 1 .. Len(M) : M[k] \in Other
  BY <1>1, <1>3, <1>4, ElementOfSeq, Zenon
<1>12. P[i] \notin Other
  BY <1>9 DEF Other
<1>13. i \in 1 .. Len(HDS) + Len(M)
  BY <1>8, <1>9
<1> DEFINE h == Len(HDS)
           d == Len(HD)
<1>c. d = 4 /\ h = d + Len(S)
  BY <1>1, <1>2, <1>6, <1>7
<1>14. i <= h
  <2> SUFFICES ASSUME ~(i <= h) PROVE FALSE
    OBVIOUS
  <2>1. P[i] = M[i - h] /\ i - h \in 1 .. Len(M)
    BY <1>8, <1>10, <1>13, <1>c
  <2> QED
    BY <1>11, <1>12, <2>1
<1>d. P[i] = HDS[i] /\ i \in 1 .. d + Len(S)
  BY <1>8, <1>13, <1>14, <1>c
<1>15. i <= d
  <2> SUFFICES ASSUME ~(i <= d) PROVE FALSE
    OBVIOUS
  <2>1. HDS[i] = S[i - d] /\ i - d \in 1 .. Len(S)
    BY <1>7, <1>10, <1>c, <1>d
  <2> QED
    BY <1>11, <1>12, <1>d, <2>1
<1>16. P[i] = HD[i] /\ Len(HD) = 4
  BY <1>7, <1>c, <1>d, <1>15
<1>17. i # 1 /\ i # 2 /\ i # 4
  <2>1. HD[1] = HardwareSteps[1] /\ HD[2] = HardwareSteps[2] /\ HD[4] = DiskSteps[2]
    BY <1>1, <1>2, <1>6
  <2>2. HardwareSteps[1] \in Other /\ HardwareSteps[2] \in Other
    BY <1>1, <1>11
  <2> QED
    BY <1>2, <1>12, <1>16, <2>1, <2>2
<1> QED
  BY <1>13, <1>15, <1>16, <1>17

(* The adapters a profile or the operator asked for.                       *)
Plain == {step \in NicStep : step.role # "management"}

(* The management adapter is the last of the adapters.                     *)
LEMMA ManagementIsLast ==
  ASSUME NEW j \in Job, NEW i \in 1 .. Len(AdapterSteps(j)),
         AdapterSteps(j)[i].role = "management"
  PROVE  i = Len(AdapterSteps(j))
<1> DEFINE n == j.topology
           T == [k \in 1 .. n |-> SetRole(k, "topology")]
           I == When(j.internet, <<SetRole(InternetSlot(n, TRUE), "nat")>>)
           K == When(j.family = "kali",
                     <<SetRole(InternetSlot(n, TRUE), "nat-host")>>)
           M == When(j.management,
                     <<SetRole(ManagementSlot(n, j.internet, TRUE),
                               "management")>>)
           TI == T \o I
           TIK == TI \o K
           A == TIK \o M
<1>1. /\ n \in Nat /\ n + 2 <= MaxSlots /\ MaxSlots \in Nat
      /\ j.internet \in BOOLEAN /\ j.management \in BOOLEAN
  BY JobAssumption, SlotAssumption DEF MaxTopology
<1>2. /\ InternetSlot(n, TRUE) \in Slot
      /\ ManagementSlot(n, j.internet, TRUE) \in Slot
  BY <1>1 DEF Count, InternetSlot, ManagementSlot, Slot
<1>3. ASSUME NEW slot \in Slot, NEW role \in Role \ {"management"}
      PROVE  SetRole(slot, role) \in Plain
  BY DEF SetRole, NicStep, Plain
<1>4. T \in Seq(Plain)
  <2>1. \A k \in 1 .. n : SetRole(k, "topology") \in Plain
    BY <1>1, <1>3 DEF Slot, Role
  <2>2. T \in [1 .. n -> Plain]
    BY <2>1
  <2> HIDE DEF T
  <2>3. \E m \in Nat : T \in [1 .. m -> Plain]
    BY <1>1, <2>2
  <2> QED
    BY <2>3, SeqDef, Zenon
<1>5. I \in Seq(Plain)
  <2> DEFINE step == SetRole(InternetSlot(n, TRUE), "nat")
  <2>1. step \in Plain
    BY <1>2, <1>3 DEF Role
  <2>2. I = IF j.internet THEN <<step>> ELSE <<>>
    BY DEF When
  <2> HIDE DEF I, step
  <2> QED
    BY <2>1, <2>2, EmptySeq
<1>6. K \in Seq(Plain)
  <2> DEFINE step == SetRole(InternetSlot(n, TRUE), "nat-host")
  <2>1. step \in Plain
    BY <1>2, <1>3 DEF Role
  <2>2. K = IF j.family = "kali" THEN <<step>> ELSE <<>>
    BY DEF When
  <2> HIDE DEF K, step
  <2> QED
    BY <2>1, <2>2, EmptySeq
<1>7. M \in Seq(NicStep) /\ Len(M) \in {0, 1}
  <2> DEFINE step == SetRole(ManagementSlot(n, j.internet, TRUE), "management")
  <2>1. step \in NicStep
    BY <1>2 DEF SetRole, NicStep, Role
  <2>2. M = IF j.management THEN <<step>> ELSE <<>>
    BY DEF When
  <2> HIDE DEF M, step
  <2> QED
    BY <2>1, <2>2, EmptySeq
<1> HIDE DEF T, I, K, M
<1>8. TI \in Seq(Plain)
  BY <1>4, <1>5, ConcatProperties, Zenon
<1> HIDE DEF TI
<1>9. TIK \in Seq(Plain)
  BY <1>6, <1>8, ConcatProperties, Zenon
<1> HIDE DEF TIK
<1>10. TIK \in Seq(NicStep)
  BY <1>9, SeqMonotonic, Zenon DEF Plain
<1>11. /\ Len(A) = Len(TIK) + Len(M)
       /\ \A k \in 1 .. Len(TIK) + Len(M) :
            A[k] = IF k <= Len(TIK) THEN TIK[k] ELSE M[k - Len(TIK)]
  BY <1>7, <1>10, ConcatProperties, Zenon
<1>12. A = AdapterSteps(j)
  BY DEF A, TIK, TI, T, I, K, M, AdapterSteps
<1> HIDE DEF A
<1>13. \A k \in 1 .. Len(TIK) : TIK[k] \in Plain
  BY <1>9, ElementOfSeq, Zenon
<1>14. Len(TIK) \in Nat
  BY <1>9, LenProperties
<1>15. ~(i <= Len(TIK))
  <2> SUFFICES ASSUME i <= Len(TIK) PROVE FALSE
    OBVIOUS
  <2>1. A[i] = TIK[i] /\ i \in 1 .. Len(TIK)
    BY <1>7, <1>11, <1>12, <1>14
  <2> QED
    BY <1>12, <1>13, <2>1 DEF Plain
<1> QED
  BY <1>7, <1>11, <1>12, <1>14, <1>15

(* Where the plan has its disk and its management adapter.                 *)
LEMMA PlanPlaces ==
  ASSUME NEW j \in Job, NEW i \in 1 .. Len(Plan[j])
  PROVE  /\ Plan[j][i] = AddPart("disk") => i = 3
         /\ Plan[j][i].role = "management" => i = Len(Plan[j])
<1> DEFINE P == PartSteps(j)
           A == AdapterSteps(j)
           F == Plan[j]
<1>1. P \in Seq(PartStep) /\ A \in Seq(NicStep)
  BY PartPlan, AdapterPlan
<1>2. P \in Seq(Step) /\ A \in Seq(Step)
  BY <1>1, SeqMonotonic, Zenon DEF Step
<1>3. F = P \o A
  BY DEF Plan
<1>4. \A k \in 1 .. Len(P) : P[k] = AddPart("disk") => k = 3
  BY DiskIsThird
<1>5. \A k \in 1 .. Len(A) : A[k].role = "management" => k = Len(A)
  BY ManagementIsLast
<1> HIDE DEF P, A, F
<1>6. /\ Len(P \o A) = Len(P) + Len(A)
      /\ \A k \in 1 .. Len(P) + Len(A) :
           (P \o A)[k] = IF k <= Len(P) THEN P[k] ELSE A[k - Len(P)]
  BY <1>2, ConcatProperties, Zenon
<1>7. Len(P) \in Nat /\ Len(A) \in Nat
  BY <1>1, LenProperties
<1>8. i \in 1 .. Len(P) + Len(A) /\ Len(F) = Len(P) + Len(A)
  BY <1>3, <1>6 DEF F
<1>9. CASE i <= Len(P)
  <2>1. F[i] = P[i] /\ i \in 1 .. Len(P)
    BY <1>3, <1>6, <1>7, <1>8, <1>9
  <2>2. P[i] \in PartStep
    BY <1>1, <2>1, ElementOfSeq, Zenon
  <2> QED
    BY <1>4, <2>1, <2>2 DEF PartStep, F
<1>10. CASE ~(i <= Len(P))
  <2>1. F[i] = A[i - Len(P)] /\ i - Len(P) \in 1 .. Len(A)
    BY <1>3, <1>6, <1>7, <1>8, <1>10
  <2>2. A[i - Len(P)] \in NicStep
    BY <1>1, <2>1, ElementOfSeq, Zenon
  <2>3. F[i] # AddPart("disk")
    BY <2>1, <2>2 DEF NicStep, AddPart
  <2>4. F[i].role = "management" => i = Len(F)
    BY <1>5, <1>7, <1>8, <2>1
  <2> QED
    BY <2>3, <2>4 DEF F
<1> QED
  BY <1>9, <1>10

-----------------------------------------------------------------------------
(* No call of this run failed and nobody intervened: then nothing it has   *)
(* yet to use has been taken.                                              *)
Calm == clean /\ ~netFault

NameIsFree ==
  pc \in {"medium", "create"} => ~Exists(job.name) /\ disk[job.name] = 0

PowerIsRight ==
  /\ pc \in {"configure", "attach", "start", "keys"} => Exists(job.name)
  /\ pc \in {"configure", "attach"} => vm[job.name].power = "poweroff"
  /\ pc = "keys" => vm[job.name].power = "running"

DiskToCome ==
  /\ pc = "configure" /\ Behind < 3 => disk[job.name] = 0
  /\ pc = "attach" => DiskIsNext

NetworkIsFree ==
  pc \in {"medium", "create", "configure", "attach"} /\ todo # <<>> =>
    /\ Being("inside") = {}
    /\ netPc \in {"idle", "list", "before", "create"} => Being("absent") # {}

OneAppears ==
  /\ netPc = "create" => before = Present
  /\ netPc = "name" => \E i \in Iface : Present \ before = {i}

Unhindered ==
  /\ pc # "failed" /\ netPc # "error"
  /\ NameIsFree /\ PowerIsRight /\ DiskToCome
  /\ NetworkIsFree /\ OneAppears

CalmInv == RunInv /\ (Calm => Unhindered)

(* Where nothing is at stake, and where nothing changes.                   *)
LEMMA AtRest ==
  ASSUME pc \in {"idle", "fetch", "done"}, netPc = "idle"
  PROVE  Unhindered
  BY DEF Unhindered, NameIsFree, PowerIsRight, DiskToCome, NetworkIsFree,
     OneAppears

(* What leaves machine, disks, network and plan alone hinders nothing.     *)
LEMMA UnhinderedStays ==
  ASSUME Unhindered, UNCHANGED <<vm, disk, pc, job, todo, netVars>>
  PROVE  Unhindered'
  BY DEF Unhindered, NameIsFree, PowerIsRight, DiskToCome, NetworkIsFree,
     OneAppears, Exists, Behind, DiskIsNext, Being, Present, netVars

(* The run begins where everything is free.                                *)
LEMMA BeginUnhindered ==
  ASSUME RunInv, Begin, Calm'
  PROVE  Unhindered'
<1>1. /\ pc' \in {"medium", "create"} /\ netPc = "idle" /\ UNCHANGED netVars
      /\ UNCHANGED <<vm, disk>>
  BY DEF Begin, RunInv, IInv, SearchIsNested
<1>2. /\ ~Exists(job'.name) /\ disk[job'.name] = 0
      /\ Being("inside") = {} /\ Being("absent") # {}
  BY Zenon DEF Begin, Calm
<1>3. NameIsFree' /\ PowerIsRight' /\ DiskToCome' /\ OneAppears'
  BY <1>1, <1>2 DEF NameIsFree, PowerIsRight, DiskToCome, OneAppears, Exists,
     netVars
<1>4. NetworkIsFree'
  BY <1>1, <1>2 DEF NetworkIsFree, Being, netVars
<1> QED
  BY <1>1, <1>3, <1>4 DEF Unhindered, netVars

(* The medium is built, the machine registered and its disk file made.     *)
LEMMA CreateUnhindered ==
  ASSUME RunInv, Unhindered, Calm', BuildMedium \/ CreateVm \/ CreateDisk
  PROVE  Unhindered'
<1>0. job \in Job /\ job.name \in Name
      /\ vm \in [Name -> Machine \cup {NoMachine}]
  BY JobAssumption DEF RunInv, TypeOK
<1>1. /\ UNCHANGED <<job, todo, netVars>>
      /\ NetworkIsFree' /\ OneAppears'
      /\ netPc' # "error"
  <2>1. /\ UNCHANGED <<job, todo, netVars>>
        /\ pc \in {"medium", "create", "configure"}
    BY DEF BuildMedium, CreateVm, CreateDisk
  <2> QED
    BY <2>1 DEF Unhindered, NetworkIsFree, OneAppears, Being, Present, netVars
<1>2. CASE BuildMedium
  <2>1. pc = "medium" /\ pc' = "create" /\ UNCHANGED <<vm, disk>>
    BY <1>2 DEF BuildMedium, Fault, Calm
  <2> QED
    BY <1>1, <2>1 DEF Unhindered, NameIsFree, PowerIsRight, DiskToCome, Exists
<1>3. CASE CreateVm
  <2>1. /\ pc = "create" /\ pc' = "configure" /\ UNCHANGED disk
        /\ vm' = [vm EXCEPT ![job.name] = NewMachine(run, job)]
    BY <1>3 DEF CreateVm, Fault, Calm
  <2>2. run # 0
    BY <2>1 DEF RunInv, Phase
  <2>3. vm'[job.name].run = run /\ vm'[job.name].power = "poweroff"
    BY <1>0, <2>1 DEF NewMachine
  <2> QED
    BY <1>1, <2>1, <2>2, <2>3
       DEF Unhindered, NameIsFree, PowerIsRight, DiskToCome, Exists
<1>4. CASE CreateDisk
  <2>1. pc = "configure" /\ pc' = "attach" /\ UNCHANGED vm /\ DiskIsNext
    BY <1>4 DEF CreateDisk, Fault, Calm
  <2> QED
    BY <1>1, <2>1 DEF Unhindered, NameIsFree, PowerIsRight, DiskToCome,
       DiskIsNext, Exists
<1> QED
  BY <1>2, <1>3, <1>4

(* A modification leaves the machine off; the disk is the third, and with  *)
(* the management adapter the plan ends.                                   *)
LEMMA ConfigureUnhindered ==
  ASSUME RunInv, Unhindered, Calm', Configure
  PROVE  Unhindered'
<1> DEFINE n == job.name
           m == Effect(vm[n], Head(todo))
<1>1. /\ pc \in {"configure", "attach"} /\ todo # <<>> /\ MayModify
      /\ (pc = "configure" => ~DiskIsNext) /\ UNCHANGED <<disk, job>>
      /\ KeepInterface
      /\ netPc' = IF NeedsInterface THEN "idle" ELSE netPc
  BY DEF Configure, AtModification
<1>2. /\ vm' = [vm EXCEPT ![n] = m] /\ pc' = "configure"
      /\ todo' = Tail(todo)
  BY Zenon DEF Configure, Fault, Calm
<1>3. job \in Job /\ n \in Name /\ vm \in [Name -> Machine \cup {NoMachine}]
  BY JobAssumption DEF RunInv, TypeOK
<1>4. /\ Head(todo) = Plan[job][Behind + 1] /\ Behind \in Nat
      /\ Behind + 1 \in 1 .. Len(Plan[job])
      /\ Tail(todo) \in Seq(Step) /\ Len(Tail(todo)) = Len(todo) - 1
      /\ Behind + Len(todo) = Len(Plan[job]) /\ Len(todo) \in Nat
  <2>1. TypeOK /\ InPlan
    BY <1>1 DEF RunInv, Phase
  <2>2. Len(Plan[job]) \in Nat /\ Len(todo) \in Nat
    BY <1>3, <2>1, PlanIsSound, LenProperties DEF InPlan
  <2> QED
    BY <1>1, <2>1, <2>2, HeadOfPlan DEF Behind
<1>5. Behind' = Behind + 1
  BY <1>1, <1>2, <1>4 DEF Behind
<1>6. netPc' \in {"idle", netPc} /\ netPc \in {"idle", "ready"}
      /\ netPc' = "idle"
  <2>1. netPc # "idle" => NeedsInterface
    BY DEF RunInv, IInv, SearchIsNested
  <2> QED
    BY <1>1, <2>1 DEF Configure, AtModification
<1>7. PowerIsRight'
  <2>1. vm[n] \in Machine /\ vm[n].power = "poweroff" /\ vm[n].run # 0
    BY <1>1, <1>3, ExistsIsMachine DEF MayModify, Exists
  <2>2. m.power = vm[n].power /\ m.run = vm[n].run
    BY <2>1, MachineShape DEF Effect, Machine
  <2>3. vm'[n] = m
    BY <1>2, <1>3
  <2> HIDE DEF m
  <2> QED
    BY <1>1, <1>2, <2>1, <2>2, <2>3 DEF PowerIsRight, Exists
<1>8. DiskToCome'
  <2>1. CASE pc = "attach"
    <3>1. Plan[job][Behind + 1] = AddPart("disk")
      BY <1>4, <2>1 DEF Unhindered, DiskToCome, DiskIsNext
    <3>2. Behind + 1 = 3
      BY <1>3, <1>4, <3>1, PlanPlaces
    <3> QED
      BY <1>2, <1>5, <3>2 DEF DiskToCome
  <2>2. CASE pc = "configure"
    BY <1>1, <1>2, <1>4, <1>5, <2>2 DEF Unhindered, DiskToCome
  <2> QED
    BY <1>1, <2>1, <2>2
<1>9. NetworkIsFree'
  <2>1. CASE NeedsInterface
    <3>1. Plan[job][Behind + 1].role = "management"
      BY <1>4, <2>1 DEF NeedsInterface
    <3>2. Behind + 1 = Len(Plan[job])
      BY <1>3, <1>4, <3>1, PlanPlaces
    <3>3. Len(Tail(todo)) = 0
      BY <1>4, <3>2
    <3>4. todo' = <<>>
      BY <1>2, <1>4, <3>3, EmptySeq
    <3> QED
      BY <3>4 DEF NetworkIsFree
  <2>2. CASE ~NeedsInterface
    <3>1. netPc = "idle" /\ UNCHANGED iface
      BY <1>1, <1>6, <2>2 DEF KeepInterface
    <3> QED
      BY <1>1, <3>1 DEF Unhindered, NetworkIsFree, Being
  <2> QED
    BY <2>1, <2>2
<1>10. NameIsFree' /\ OneAppears'
  BY <1>2, <1>6 DEF NameIsFree, OneAppears
<1> QED
  BY <1>2, <1>6, <1>7, <1>8, <1>9, <1>10 DEF Unhindered

(* The search finds what is there or makes what is missing.                *)
LEMMA SearchUnhindered ==
  ASSUME RunInv, Unhindered, Calm', EnsureInterface
  PROVE  Unhindered'
<1>1. /\ pc = "configure" /\ NeedsInterface /\ todo # <<>>
      /\ UNCHANGED <<vm, disk, pc, job, todo>>
  BY DEF EnsureInterface, machineVars, NeedsInterface
<1>2. NameIsFree' /\ PowerIsRight' /\ DiskToCome'
  BY <1>1 DEF Unhindered, NameIsFree, PowerIsRight, DiskToCome, Exists,
     Behind, DiskIsNext
<1>3. /\ NetInv /\ Being("inside") = {} /\ netPc # "error"
      /\ netPc \in {"idle", "list", "before", "create"} => Being("absent") # {}
      /\ OneAppears /\ ~netFault'
  BY <1>1 DEF RunInv, IInv, Unhindered, NetworkIsFree, Calm
<1>4. /\ netPc' # "error" /\ OneAppears' /\ Being("inside")' = {}
      /\ netPc' \in {"idle", "list", "before", "create"} => Being("absent")' # {}
  <2>1. CASE netPc = "idle" /\ netPc' = "list" /\ KeepInterface
    BY <1>3, <2>1 DEF OneAppears, Being, KeepInterface
  <2>2. CASE NetCallFails \/ RefuseOverlap \/ NoInterfaceLeft
    BY <1>3, <2>2 DEF NetCallFails, RefuseOverlap, NoInterfaceLeft, Overlaps
  <2>3. CASE Reuse \/ ChooseLegacy \/ NeedNew \/ ListBefore \/ DisableDhcp
    BY <1>3, <2>3, SMT DEF Reuse, ChooseLegacy, NeedNew, ListBefore,
       DisableDhcp, OneAppears, Being, Present
  <2>4. CASE CreateInterface
    <3>1. PICK i \in Being("absent"), kind \in {"unset", "elsewhere"} :
            iface' = [iface EXCEPT ![i] = kind]
      BY <2>4, Zenon DEF CreateInterface
    <3>2. netPc' \in {"address", "name"} /\ UNCHANGED before
          /\ before = Present
      BY <1>3, <2>4 DEF CreateInterface, OneAppears
    <3>3. iface \in [Iface -> Kind] /\ i \in Iface /\ iface[i] = "absent"
      BY <1>3, <3>1 DEF NetInv, Places, Being
    <3>4. Present' \ before' = {i}
      BY <3>1, <3>2, <3>3 DEF Present
    <3>5. Being("inside")' = {}
      BY <1>3, <3>1, <3>3 DEF Being
    <3> QED
      BY <3>2, <3>3, <3>4, <3>5 DEF OneAppears
  <2>5. CASE NameInterface
    BY <1>3, <2>5 DEF NameInterface, OneAppears, Being
  <2>6. CASE SetAddress
    <3>1. netPc' = "dhcp" /\ iface' = [iface EXCEPT ![chosen] = "management"]
      BY <1>3, <2>6 DEF SetAddress
    <3>2. Being("inside")' = {}
      BY <1>3, <3>1, SMT DEF Being, NetInv, Places
    <3> QED
      BY <3>1, <3>2 DEF OneAppears
  <2> QED
    BY <2>1, <2>2, <2>3, <2>4, <2>5, <2>6
       DEF EnsureInterface, EnsureManagementInterface
<1>5. NetworkIsFree'
  BY <1>4 DEF NetworkIsFree
<1> QED
  BY <1>1, <1>2, <1>4, <1>5 DEF Unhindered

(* The machine is started and runs while the keys are sent.                *)
LEMMA StartUnhindered ==
  ASSUME RunInv, Unhindered, Calm',
         FinishConfiguration \/ StartVm \/ PressKey
  PROVE  Unhindered'
<1>0. job \in Job /\ job.name \in Name
      /\ vm \in [Name -> Machine \cup {NoMachine}]
  BY JobAssumption DEF RunInv, TypeOK
<1>1. /\ netPc = "idle" /\ UNCHANGED <<netVars, job>>
      /\ pc' \in {"start", "done", "keys"}
  BY DEF RunInv, IInv, SearchIsNested, NeedsInterface, FinishConfiguration,
     StartVm, PressKey, Fault, Calm
<1>2. PowerIsRight'
  <2>1. CASE FinishConfiguration
    <3>1. pc = "configure" /\ UNCHANGED vm /\ pc' \in {"start", "done"}
      BY <2>1 DEF FinishConfiguration
    <3> QED
      BY <1>1, <3>1 DEF Unhindered, PowerIsRight, Exists
  <2>2. CASE StartVm
    <3>1. /\ Exists(job.name) /\ pc' = "keys"
          /\ vm' = [vm EXCEPT ![job.name].power = "running"]
      BY <2>2 DEF StartVm, Fault, Calm
    <3>2. vm[job.name] \in Machine
      BY <1>0, <3>1, ExistsIsMachine
    <3>3. vm'[job.name].power = "running" /\ vm'[job.name].run = vm[job.name].run
      BY <1>0, <3>1, <3>2 DEF Machine
    <3> QED
      BY <1>1, <3>1, <3>3 DEF PowerIsRight, Exists
  <2>3. CASE PressKey
    BY <1>1, <2>3 DEF PressKey, PowerIsRight, Exists
  <2> QED
    BY <2>1, <2>2, <2>3
<1> QED
  BY <1>1, <1>2 DEF Unhindered, NameIsFree, DiskToCome, NetworkIsFree,
     OneAppears, netVars

(* No refusal is met: the machine is there and off, the name and the disk  *)
(* file are free, and an error of the search is a failed call.             *)
LEMMA NoRefusal ==
  ASSUME RunInv, Unhindered
  PROVE  /\ ~NameIsTaken /\ ~DiskRefused /\ ~ModificationRefused
         /\ ~InterfaceFails /\ ~MachineIsGone
<1>1. ~NameIsTaken
  BY DEF Unhindered, NameIsFree, NameIsTaken
<1>2. ~DiskRefused
  <2> SUFFICES ASSUME DiskRefused PROVE FALSE
    OBVIOUS
  <2>1. pc = "configure" /\ DiskIsNext /\ disk[job.name] # 0
    BY DEF DiskRefused, DiskIsFree
  <2>2. TypeOK /\ InPlan /\ job \in Job
    BY <2>1 DEF RunInv, Phase, TypeOK
  <2>3. /\ Plan[job][Behind + 1] = AddPart("disk") /\ Behind \in Nat
        /\ Behind + 1 \in 1 .. Len(Plan[job])
    BY <2>1, <2>2, HeadOfPlan DEF DiskIsNext
  <2>4. Behind + 1 = 3
    BY <2>2, <2>3, PlanPlaces
  <2> QED
    BY <2>1, <2>3, <2>4 DEF Unhindered, DiskToCome
<1>3. ~ModificationRefused
  BY DEF Unhindered, PowerIsRight, ModificationRefused, AtModification,
     MayModify
<1>4. ~InterfaceFails
  BY DEF Unhindered, InterfaceFails
<1>5. ~MachineIsGone
  BY DEF Unhindered, PowerIsRight, MachineIsGone
<1> QED
  BY <1>1, <1>2, <1>3, <1>4, <1>5

(* Every step of a run that stays undisturbed.                             *)
LEMMA CalmInductive == CalmInv /\ [Next]_vars => CalmInv'
<1> SUFFICES ASSUME CalmInv, [Next]_vars, Calm' PROVE Unhindered'
  BY RunInductive DEF CalmInv
<1>0. RunInv /\ SearchIsNested /\ (Calm => Unhindered)
  BY DEF CalmInv, RunInv, IInv
<1>1. CASE Begin
  BY <1>0, <1>1, BeginUnhindered
<1>2. CASE Close
  <2>1. pc' = "idle" /\ netPc' = "idle"
    BY <1>0, <1>2 DEF Close, SearchIsNested
  <2> QED
    BY <2>1 DEF Unhindered, NameIsFree, PowerIsRight, DiskToCome,
       NetworkIsFree, OneAppears
<1>3. CASE RenderFails \/ CallFails \/ FetchTimesOut
  BY <1>3 DEF RenderFails, CallFails, FetchTimesOut, Fault, Calm
<1>4. CASE Operator
  <2>1. Move /\ clean'
    BY <1>4 DEF Operator, SwitchPower, RemoveMachine, ChangeInterfaces, Calm
  <2>2. pc = "idle" /\ netPc = "idle"
    BY <1>0, <2>1 DEF Move, SearchIsNested
  <2>3. pc' = pc /\ netPc' = netPc
    BY <1>4 DEF Operator, SwitchPower, RemoveMachine, ChangeInterfaces,
       AddInterface, RemoveInterface, netVars
  <2> QED
    BY <2>2, <2>3 DEF Unhindered, NameIsFree, PowerIsRight, DiskToCome,
       NetworkIsFree, OneAppears
<1>5. CASE UNCHANGED vars
  <2>1. UNCHANGED <<vm, disk, pc, job, todo, netVars, clean>>
    BY <1>5, Zenon DEF vars, machineVars
  <2>2. Calm
    BY <2>1 DEF Calm, netVars
  <2> QED
    BY <1>0, <2>1, <2>2, UnhinderedStays
<1>6. ASSUME Calm PROVE Unhindered'
  <2>1. Unhindered
    BY <1>0, <1>6
  <2>2. CASE BuildMedium \/ CreateVm \/ CreateDisk
    BY <1>0, <2>1, <2>2, CreateUnhindered
  <2>3. CASE Configure \/ EnsureInterface
    BY <1>0, <2>1, <2>3, ConfigureUnhindered, SearchUnhindered
  <2>4. CASE FinishConfiguration \/ StartVm \/ PressKey
    BY <1>0, <2>1, <2>4, StartUnhindered
  <2>5. CASE \/ NameIsTaken \/ DiskRefused \/ ModificationRefused
             \/ InterfaceFails \/ MachineIsGone
    BY <1>0, <2>1, <2>5, NoRefusal
  <2>6. CASE KeysAreSent \/ Fetch
    <3>1. pc' \in {"fetch", "done"} /\ netPc' = "idle"
      BY <1>0, <2>6 DEF KeysAreSent, Fetch, SearchIsNested, netVars
    <3> QED
      BY <3>1 DEF Unhindered, NameIsFree, PowerIsRight, DiskToCome,
         NetworkIsFree, OneAppears
  <2> QED
    BY <1>1, <1>2, <1>3, <1>4, <1>5, <2>2, <2>3, <2>4, <2>5, <2>6
       DEF Next, Rest
<1>7. \/ Calm \/ Begin \/ Close \/ Operator \/ UNCHANGED vars
      \/ RenderFails \/ CallFails \/ FetchTimesOut \/ InterfaceFails
  <2>1. ASSUME clean' = clean, netFault' = netFault PROVE Calm
    BY <2>1 DEF Calm
  <2>2. CASE \/ BuildMedium \/ CreateVm \/ CreateDisk \/ Configure
    BY <2>2 DEF BuildMedium, CreateVm, CreateDisk, Configure, NoFault, Fault,
       Calm, KeepInterface, netVars
  <2>3. CASE EnsureInterface
    BY <2>3 DEF EnsureInterface, machineVars, KeepInterface, Calm,
       EnsureManagementInterface, NetCallFails, Reuse, ChooseLegacy,
       RefuseOverlap, NeedNew, ListBefore, CreateInterface, NoInterfaceLeft,
       NameInterface, SetAddress, DisableDhcp
  <2>4. CASE \/ NameIsTaken \/ DiskRefused \/ ModificationRefused
             \/ FinishConfiguration \/ StartVm \/ PressKey \/ MachineIsGone
             \/ KeysAreSent \/ Fetch
    BY <2>4 DEF NameIsTaken, DiskRefused, ModificationRefused, KeepInterface,
       FinishConfiguration, StartVm, PressKey, MachineIsGone, KeysAreSent,
       Fetch, NoFault, Fault, Calm, netVars
  <2> QED
    BY <2>2, <2>3, <2>4 DEF Next, Rest
<1>8. CASE InterfaceFails
  <2>1. Calm
    BY <1>8 DEF InterfaceFails, KeepInterface, Calm
  <2> QED
    BY <1>6, <2>1
<1> QED
  BY <1>1, <1>2, <1>3, <1>4, <1>5, <1>6, <1>7, <1>8

(* A run fails only for a reason of its own: a call that failed, somebody  *)
(* who interfered, or a name, a file or a network that was taken when it   *)
(* began. Half-made interfaces and machines of earlier runs are no reason. *)
THEOREM UndisturbedSucceeds == Spec => []UndisturbedRunSucceeds
<1>1. Init => CalmInv
  <2> SUFFICES ASSUME Init PROVE CalmInv
    OBVIOUS
  <2>1. RunInv /\ pc = "idle" /\ netPc = "idle"
    BY RunInitially DEF Init, MachineInit, NetInit
  <2> QED
    BY <2>1, AtRest DEF CalmInv
<1>2. CalmInv => UndisturbedRunSucceeds
  BY DEF CalmInv, Calm, Unhindered, UndisturbedRunSucceeds
<1> QED
  BY <1>1, <1>2, CalmInductive, PTL DEF Spec

-----------------------------------------------------------------------------
(***************************************************************************)
(* The life of a machine. The last step of a plan does what no other step  *)
(* of it does: a machine that lacks it is partial, and the machine a run   *)
(* works on lacks it until the run is through with its plan.               *)
(***************************************************************************)
LastStep(j) == Plan[j][Len(Plan[j])]

Lacking(m, j) ==
  IF LastStep(j).what = "part" THEN LastStep(j).part \notin m.parts
  ELSE m.nic[LastStep(j).slot] = "none"

(* The parts that come before the media.                                   *)
Early == {step \in PartStep : step.part \notin {"vendor", "seed", "additions"}}

(* The last part is a medium and no part repeats it.                       *)
LEMMA LastPart ==
  ASSUME NEW j \in Job, NEW P, P = PartSteps(j)
  PROVE  /\ Len(P) \in Nat \ {0}
         /\ \A i \in 1 .. Len(P) - 1 : P[i].part # P[Len(P)].part
<1> DEFINE S == When(j.secure, SecureBootSteps)
           HD == HardwareSteps \o DiskSteps
           HDS == HD \o S
           V == <<AddPart("vendor")>>
           D == When(AttachesSeed(j), <<AddPart("seed")>>)
           A == When(j.family = "windows", <<AddPart("additions")>>)
           VD == V \o D
           M == VD \o A
<1>0. \A p \in Part \ {"vendor", "seed", "additions"} : AddPart(p) \in Early
  BY DEF AddPart, PartStep, Early
<1>1. HardwareSteps \in Seq(Early) /\ DiskSteps \in Seq(Early)
  BY <1>0 DEF HardwareSteps, DiskSteps, Part
<1>2. S \in Seq(Early)
  BY <1>0, EmptySeq DEF When, SecureBootSteps, Part
<1>3. V \in Seq(PartStep) /\ Len(V) = 1 /\ V[1] = AddPart("vendor")
  BY PartsAreSteps DEF Part
<1>4. /\ D \in Seq(PartStep) /\ Len(D) = IF AttachesSeed(j) THEN 1 ELSE 0
      /\ AttachesSeed(j) => D[1] = AddPart("seed")
  BY PartsAreSteps, EmptySeq DEF When, Part
<1>5. /\ A \in Seq(PartStep) /\ Len(A) = IF j.family = "windows" THEN 1 ELSE 0
      /\ j.family = "windows" => A[1] = AddPart("additions")
  BY PartsAreSteps, EmptySeq DEF When, Part
<1>6. j.family = "windows" => AttachesSeed(j)
  BY DEF AttachesSeed
<1> HIDE DEF S, V, D, A
<1>7. HD \in Seq(Early)
  BY <1>1, ConcatProperties, Zenon
<1> HIDE DEF HD
<1>8. HDS \in Seq(Early)
  BY <1>2, <1>7, ConcatProperties, Zenon
<1>9. /\ VD \in Seq(PartStep) /\ Len(VD) = Len(V) + Len(D)
      /\ \A i \in 1 .. Len(V) + Len(D) :
           VD[i] = IF i <= Len(V) THEN V[i] ELSE D[i - Len(V)]
  BY <1>3, <1>4, ConcatProperties, Zenon
<1> HIDE DEF VD
<1>10. /\ M \in Seq(PartStep) /\ Len(M) = Len(VD) + Len(A)
       /\ \A i \in 1 .. Len(VD) + Len(A) :
            M[i] = IF i <= Len(VD) THEN VD[i] ELSE A[i - Len(VD)]
  <2>1. VD \in Seq(PartStep) /\ A \in Seq(PartStep)
    BY <1>5, <1>9
  <2> QED
    BY <2>1, ConcatProperties, Zenon
<1>11. PartSteps(j) = HDS \o M
  BY DEF PartSteps, MediaSteps, HDS, HD, S, M, VD, V, D, A
<1> HIDE DEF HDS, M
<1>12. HDS \in Seq(PartStep)
  BY <1>8, SeqMonotonic, Zenon DEF Early
<1>13. /\ Len(P) = Len(HDS) + Len(M)
       /\ \A i \in 1 .. Len(HDS) + Len(M) :
            P[i] = IF i <= Len(HDS) THEN HDS[i] ELSE M[i - Len(HDS)]
  <2>1. M \in Seq(PartStep) /\ P = HDS \o M
    BY <1>10, <1>11
  <2> QED
    BY <1>12, <2>1, ConcatProperties, Zenon
<1>14. Len(HDS) \in Nat /\ \A i \in 1 .. Len(HDS) : HDS[i] \in Early
  BY <1>8, LenProperties, ElementOfSeq, Zenon
<1>15. /\ VD[1] = AddPart("vendor")
       /\ AttachesSeed(j) => VD[2] = AddPart("seed")
       /\ Len(VD) = IF AttachesSeed(j) THEN 2 ELSE 1
  BY <1>3, <1>4, <1>9
<1>16. /\ Len(M) \in 1 .. 3 /\ M[1] = AddPart("vendor")
       /\ Len(M) >= 2 => M[2] = AddPart("seed")
       /\ Len(M) = 3 => M[3] = AddPart("additions")
  BY <1>5, <1>6, <1>10, <1>15
<1>17. /\ M[Len(M)].part \in {"vendor", "seed", "additions"}
       /\ \A i \in 1 .. Len(M) - 1 : M[i].part # M[Len(M)].part
  BY <1>16 DEF AddPart
<1>18. Len(P) \in Nat \ {0} /\ P[Len(P)] = M[Len(M)]
  BY <1>13, <1>14, <1>16
<1>19. ASSUME NEW i \in 1 .. Len(P) - 1 PROVE P[i].part # P[Len(P)].part
  <2>1. CASE i <= Len(HDS)
    <3>1. P[i] \in Early
      BY <1>13, <1>14, <1>16, <2>1
    <3> QED
      BY <1>17, <1>18, <3>1 DEF Early
  <2>2. CASE ~(i <= Len(HDS))
    <3>1. i - Len(HDS) \in 1 .. Len(M) - 1 /\ P[i] = M[i - Len(HDS)]
      BY <1>13, <1>14, <1>16, <2>2
    <3> QED
      BY <1>17, <1>18, <3>1
  <2> QED
    BY <2>1, <2>2
<1> QED
  BY <1>18, <1>19

(* The adapters that stand for themselves.                                 *)
Firm == {step \in NicStep : step.role \notin {"none", "nat-host"}}

(* The last adapter is one of them: behind the NAT that is opened to the   *)
(* host there is the management adapter.                                   *)
LEMMA LastAdapter ==
  ASSUME NEW j \in Job, NEW A, A = AdapterSteps(j), Len(A) > 0
  PROVE  A[Len(A)].role \notin {"none", "nat-host"}
<1>1. CASE j.management
  <2>1. PICK k \in 1 .. Len(A) :
          A[k] = SetRole(ManagementSlot(j.topology, j.internet, TRUE),
                         "management")
    BY <1>1, AdapterPlan
  <2>2. k = Len(A)
    BY <2>1, ManagementIsLast DEF SetRole
  <2> QED
    BY <2>1, <2>2 DEF SetRole
<1>2. CASE ~j.management
  <2> DEFINE n == j.topology
             T == [k \in 1 .. n |-> SetRole(k, "topology")]
             step == SetRole(InternetSlot(n, TRUE), "nat")
             I == When(j.internet, <<step>>)
             TI == T \o I
  <2>1. /\ n \in Nat /\ n + 2 <= MaxSlots /\ MaxSlots \in Nat
        /\ j.internet \in BOOLEAN /\ j.family # "kali"
    BY <1>2, JobAssumption, SlotAssumption DEF MaxTopology
  <2>2. ASSUME NEW slot \in Slot, NEW role \in {"topology", "nat"}
        PROVE  SetRole(slot, role) \in Firm
    BY DEF SetRole, NicStep, Role, Firm
  <2>3. T \in Seq(Firm)
    <3>1. \A k \in 1 .. n : SetRole(k, "topology") \in Firm
      BY <2>1, <2>2 DEF Slot
    <3>2. T \in [1 .. n -> Firm]
      BY <3>1
    <3> HIDE DEF T
    <3>3. \E m \in Nat : T \in [1 .. m -> Firm]
      BY <2>1, <3>2
    <3> QED
      BY <3>3, SeqDef, Zenon
  <2>4. I \in Seq(Firm)
    <3>1. step \in Firm
      BY <2>1, <2>2 DEF InternetSlot, Slot
    <3>2. I = IF j.internet THEN <<step>> ELSE <<>>
      BY DEF When
    <3> HIDE DEF I, step
    <3> QED
      BY <3>1, <3>2, EmptySeq
  <2>5. A = (TI \o <<>>) \o <<>>
    BY <1>2, <2>1 DEF AdapterSteps, When
  <2> HIDE DEF T, I
  <2>6. TI \in Seq(Firm)
    BY <2>3, <2>4, ConcatProperties, Zenon
  <2> HIDE DEF TI
  <2>7. A \in Seq(Firm)
    <3>1. <<>> \in Seq(Firm)
      BY EmptySeq
    <3>2. TI \o <<>> \in Seq(Firm)
      BY <2>6, <3>1, ConcatProperties, Zenon
    <3> QED
      BY <2>5, <3>1, <3>2, ConcatProperties, Zenon
  <2>8. Len(A) \in Nat /\ \A k \in 1 .. Len(A) : A[k] \in Firm
    BY <2>7, LenProperties, ElementOfSeq, Zenon
  <2> QED
    BY <2>8 DEF Firm
<1> QED
  BY <1>1, <1>2

(* Nothing before the last step does what it does, or undoes it.           *)
LEMMA LastIsNew ==
  ASSUME NEW j \in Job
  PROVE  /\ Len(Plan[j]) \in Nat \ {0} /\ LastStep(j) \in Step
         /\ LastStep(j).what = "nic" =>
              LastStep(j).role \notin {"none", "nat-host"}
         /\ \A i \in 1 .. Len(Plan[j]) - 1 :
              IF LastStep(j).what = "part"
              THEN /\ Plan[j][i].what = "part"
                   /\ Plan[j][i].part # LastStep(j).part
              ELSE Plan[j][i].what = "nic" =>
                     Plan[j][i].slot # LastStep(j).slot
<1> DEFINE P == PartSteps(j)
           A == AdapterSteps(j)
           F == Plan[j]
           last == LastStep(j)
<1>1. P \in Seq(PartStep) /\ A \in Seq(NicStep)
  BY PartPlan, AdapterPlan
<1>2. P \in Seq(Step) /\ A \in Seq(Step)
  BY <1>1, SeqMonotonic, Zenon DEF Step
<1>3. /\ Len(P) \in Nat \ {0}
      /\ \A i \in 1 .. Len(P) - 1 : P[i].part # P[Len(P)].part
  BY LastPart
<1>4. Len(A) > 0 => A[Len(A)].role \notin {"none", "nat-host"}
  BY LastAdapter
<1>5. F = P \o A /\ last = F[Len(F)]
  BY DEF Plan, LastStep
<1>6. OncePerSlot(F)
  BY PlanIsSound
<1> HIDE DEF P, A, F, last
<1>7. /\ Len(F) = Len(P) + Len(A) /\ F \in Seq(Step)
      /\ \A i \in 1 .. Len(P) + Len(A) :
           F[i] = IF i <= Len(P) THEN P[i] ELSE A[i - Len(P)]
  BY <1>2, <1>5, ConcatProperties, Zenon
<1>8. Len(A) \in Nat
  BY <1>1, LenProperties
<1>9. Len(F) \in Nat \ {0} /\ last \in Step
  <2>1. Len(F) \in 1 .. Len(F)
    BY <1>3, <1>7, <1>8
  <2> QED
    BY <1>5, <1>7, <2>1, ElementOfSeq
<1>10. CASE Len(A) = 0
  <2>1. /\ Len(F) = Len(P) /\ \A i \in 1 .. Len(F) : F[i] = P[i]
    BY <1>3, <1>7, <1>8, <1>10
  <2>2. \A i \in 1 .. Len(F) : P[i] \in PartStep
    BY <1>1, <2>1, ElementOfSeq
  <2>3. \A i \in 1 .. Len(F) : F[i].what = "part"
    BY <2>1, <2>2 DEF PartStep
  <2> QED
    BY <1>3, <1>5, <1>9, <2>1, <2>3 DEF F, last
<1>11. CASE Len(A) # 0
  <2>1. last = A[Len(A)]
    BY <1>3, <1>5, <1>7, <1>8, <1>11
  <2>2. last \in NicStep
    BY <1>1, <1>8, <1>11, <2>1, ElementOfSeq
  <2>3. last.what = "nic" /\ last.role \notin {"none", "nat-host"}
    BY <1>4, <1>8, <1>11, <2>1, <2>2 DEF NicStep
  <2>4. ASSUME NEW i \in 1 .. Len(F) - 1, F[i].what = "nic"
        PROVE  F[i].slot # last.slot
    BY <1>5, <1>6, <1>9, <2>3, <2>4 DEF OncePerSlot
  <2> QED
    BY <1>9, <2>3, <2>4 DEF F, last
<1> QED
  BY <1>10, <1>11

(* A machine that lacks the last step has not got everything.              *)
LEMMA LackingIsPartial ==
  ASSUME NEW j \in Job, NEW m \in Machine, Lacking(m, j)
  PROVE  ~Equipped(m, j)
<1>1. Plan[j] \in Seq(Step)
  BY PlanIsSound
<1>2. Len(Plan[j]) \in DOMAIN Plan[j]
  BY <1>1, LastIsNew, LenProperties
<1>3. LastStep(j).what \in {"part", "nic"}
  BY LastIsNew DEF Step, PartStep, NicStep
<1>4. ~InEffect(m, LastStep(j))
  BY <1>3, LastIsNew DEF Lacking, InEffect
<1> QED
  BY <1>2, <1>4 DEF Equipped, LastStep

(* It goes on lacking it through all the steps before.                     *)
LEMMA LackingStays ==
  ASSUME NEW j \in Job, NEW m \in Machine, NEW i \in 1 .. Len(Plan[j]) - 1,
         NEW e, e = Effect(m, Plan[j][i]), chosen \in Iface \cup {NoIface},
         Lacking(m, j)
  PROVE  Lacking(e, j)
<1> DEFINE F == Plan[j]
           last == LastStep(j)
<1>1. PICK step \in Step : step = F[i]
  <2>1. F \in Seq(Step)
    BY PlanIsSound
  <2>2. Len(F) \in Nat
    BY LastIsNew
  <2>3. i \in 1 .. Len(F)
    BY <2>2
  <2> QED
    BY <2>1, <2>3, ElementOfSeq, Zenon
<1>2. IF last.what = "part" THEN step.what = "part" /\ step.part # last.part
      ELSE step.what = "nic" => step.slot # last.slot
  BY <1>1, LastIsNew
<1>3. last \in Step
  BY LastIsNew
<1> HIDE DEF F, last
<1>4. CASE step \in PartStep
  <2>1. e.parts = m.parts \cup {step.part} /\ e.nic = m.nic
    BY <1>1, <1>4, PartTakesEffect DEF F
  <2> QED
    BY <1>2, <2>1 DEF Lacking, last
<1>5. CASE step \in NicStep
  <2>1. /\ e.parts = m.parts
        /\ e.nic = [m.nic EXCEPT ![step.slot] =
                      IF step.role = "nat-host" /\ @ # "nat" THEN @
                      ELSE step.role]
    <3>1. PICK x \in NicStep : x = step
      BY <1>5
    <3>2. e = Effect(m, x)
      BY <1>1, <3>1 DEF F
    <3>3. /\ e.parts = m.parts
          /\ e.nic = [m.nic EXCEPT ![x.slot] =
                        IF x.role = "nat-host" /\ @ # "nat" THEN @ ELSE x.role]
      BY <3>2, NicTakesEffect
    <3> QED
      BY <3>1, <3>3
  <2>2. last.what # "part" /\ step.slot # last.slot /\ last.slot \in Slot
    BY <1>2, <1>3, <1>5 DEF Step, PartStep, NicStep
  <2>3. m.nic \in [Slot -> Role]
    BY DEF Machine
  <2>4. e.nic[last.slot] = m.nic[last.slot]
    BY <2>1, <2>2, <2>3
  <2> QED
    BY <2>2, <2>4 DEF Lacking, last
<1> QED
  BY <1>4, <1>5 DEF Step

(* A new machine lacks it.                                                 *)
LEMMA NewIsLacking ==
  ASSUME NEW r \in 1 .. MaxRuns, NEW j \in Job
  PROVE  Lacking(NewMachine(r, j), j)
<1>1. LastStep(j).what = "part" \/ LastStep(j).slot \in Slot
  BY LastIsNew DEF Step, PartStep, NicStep
<1> QED
  BY <1>1 DEF Lacking, NewMachine

(* No step changes what a machine was asked for.                           *)
LEMMA EffectKeepsAsked ==
  ASSUME NEW m \in Machine, NEW step
  PROVE  Effect(m, step).asked = m.asked
<1>1. m = [run |-> m.run, asked |-> m.asked, power |-> m.power,
           parts |-> m.parts, nic |-> m.nic, adapter |-> m.adapter]
  BY MachineShape
<1> DEFINE parts == m.parts \cup {step.part}
           opened == [m.nic EXCEPT ![step.slot] = IF @ = "nat" THEN "nat-host" ELSE @]
           managed == [m.nic EXCEPT ![step.slot] = "management"]
           given == [m.nic EXCEPT ![step.slot] = step.role]
<1>2. \/ Effect(m, step) = [m EXCEPT !.parts = parts]
      \/ Effect(m, step) = [m EXCEPT !.nic = opened]
      \/ Effect(m, step) = [m EXCEPT !.nic = managed, !.adapter = chosen]
      \/ Effect(m, step) = [m EXCEPT !.nic = given]
  <2>1. CASE step.what = "part"
    BY <2>1 DEF Effect
  <2>2. CASE step.what # "part" /\ step.role = "nat-host"
    BY <2>2 DEF Effect
  <2>3. CASE step.what # "part" /\ step.role = "management"
    BY <2>3 DEF Effect
  <2>4. CASE step.what # "part" /\ step.role \notin {"nat-host", "management"}
    BY <2>4 DEF Effect
  <2> QED
    BY <2>1, <2>2, <2>3, <2>4
<1> HIDE DEF parts, opened, managed, given
<1> QED
  BY <1>1, <1>2

-----------------------------------------------------------------------------
(* The machine a run works on was asked for by its manifest.               *)
AskedHere ==
  Working /\ Exists(job.name) =>
    /\ vm[job.name].asked = job
    /\ pc \in {"configure", "attach"} /\ todo # <<>> =>
         Lacking(vm[job.name], job)

LifeInv == RunInv /\ AskedHere

(* What became of a machine.                                               *)
Condition(m) ==
  IF m.run = 0 THEN "none"
  ELSE IF Equipped(m, m.asked) THEN "whole" ELSE "partial"

(* Switching a machine does not change that, and there is but one way for  *)
(* it not to be there.                                                     *)
LEMMA ConditionOfPower ==
  ASSUME NEW m \in Machine, NEW p \in {"poweroff", "running", "saved"}
  PROVE  /\ Condition([m EXCEPT !.power = p]) = Condition(m)
         /\ [m EXCEPT !.power = p].asked = m.asked
         /\ \A j \in Job : Lacking(m, j) => Lacking([m EXCEPT !.power = p], j)
<1> DEFINE e == [m EXCEPT !.power = p]
<1>1. e.asked = m.asked
  BY MachineShape
<1>2. e.run = m.run /\ e.parts = m.parts /\ e.nic = m.nic
  BY PowerType
<1> HIDE DEF e
<1>3. Condition(e) = Condition(m)
  BY <1>1, <1>2 DEF Condition, Equipped, InEffect
<1>4. \A j \in Job : Lacking(m, j) => Lacking(e, j)
  BY <1>2 DEF Lacking
<1> QED
  BY <1>1, <1>3, <1>4 DEF e

LEMMA ConditionOfNone == Condition(NoMachine) = "none"
  BY DEF Condition, NoMachine

(* The steps that leave every machine what it was.                         *)
LEMMA QuietStep ==
  ASSUME \A n \in Name : Condition(vm'[n]) = Condition(vm[n]),
         \/ Stage' = "idle"
         \/ Stage' = Stage /\ job' = job
         \/ /\ Stage = "making" /\ Stage' = "ready" /\ job' = job
            /\ job.name \in Name /\ Condition(vm[job.name]) # "partial"
  PROVE  [Lifecycle!Next]_(Lifecycle!vars)
<1>1. /\ [n \in Name |-> Life(n)] = [n \in Name |-> Condition(vm[n])]
      /\ [n \in Name |-> Life(n)]' = [n \in Name |-> Condition(vm'[n])]
  BY DEF Life, Condition, Exists
<1>2. UNCHANGED [n \in Name |-> Life(n)]
  BY <1>1
<1>3. CASE Stage' = "idle" /\ Stage # "idle"
  BY <1>2, <1>3 DEF Lifecycle!Next, Lifecycle!GiveUp, Lifecycle!Stop
<1>4. CASE Stage' = "idle" /\ Stage = "idle"
  BY <1>2, <1>4 DEF Lifecycle!vars
<1>5. CASE Stage' = Stage /\ job' = job
  BY <1>2, <1>5 DEF Lifecycle!vars
<1>6. CASE /\ Stage = "making" /\ Stage' = "ready" /\ job' = job
           /\ job.name \in Name /\ Condition(vm[job.name]) # "partial"
  <2>1. Lifecycle!HandOver(job.name)
    BY <1>1, <1>2, <1>6 DEF Lifecycle!HandOver
  <2> QED
    BY <1>6, <2>1 DEF Lifecycle!Next
<1> QED
  BY <1>3, <1>4, <1>5, <1>6

(* The steps that change one machine.                                      *)
LEMMA LifeStep ==
  ASSUME NEW n \in Name, \A x \in Name \ {n} : vm'[x] = vm[x],
         \/ /\ Stage = "idle" /\ Condition(vm[n]) = "none"
            /\ Condition(vm'[n]) = "partial"
            /\ Stage' = "idle" \/ (Stage' = "making" /\ job'.name = n)
         \/ /\ Stage = "making" /\ job.name = n /\ Condition(vm[n]) = "partial"
            /\ Condition(vm'[n]) = "whole"
            /\ Stage' = "idle" \/ (Stage' = Stage /\ job' = job)
         \/ /\ Condition(vm'[n]) = "none"
            /\ Stage' = "idle" \/ (Stage' = Stage /\ job' = job)
  PROVE  [Lifecycle!Next]_(Lifecycle!vars)
<1> DEFINE life == [x \in Name |-> Life(x)]
<1>1. /\ life = [x \in Name |-> Condition(vm[x])]
      /\ life' = [x \in Name |-> Condition(vm'[x])]
  BY DEF Life, Condition, Exists
<1> HIDE DEF life
<1>2. life[n] = Condition(vm[n]) /\ life' = [life EXCEPT ![n] = Condition(vm'[n])]
  BY <1>1
<1>3. CASE /\ Stage = "idle" /\ Condition(vm[n]) = "none"
           /\ Condition(vm'[n]) = "partial"
           /\ Stage' = "idle" \/ (Stage' = "making" /\ job'.name = n)
  <2>1. Lifecycle!Register(n)
    BY <1>2, <1>3 DEF Lifecycle!Register, Lifecycle!Stop, life
  <2> QED
    BY <2>1 DEF Lifecycle!Next
<1>4. CASE /\ Stage = "making" /\ job.name = n /\ Condition(vm[n]) = "partial"
           /\ Condition(vm'[n]) = "whole"
           /\ Stage' = "idle" \/ (Stage' = Stage /\ job' = job)
  <2>1. Lifecycle!Complete(n)
    BY <1>2, <1>4 DEF Lifecycle!Complete, Lifecycle!Stop, life
  <2> QED
    BY <2>1 DEF Lifecycle!Next
<1>5. CASE /\ Condition(vm'[n]) = "none"
           /\ Stage' = "idle" \/ (Stage' = Stage /\ job' = job)
  <2>1. Lifecycle!Remove(n)
    BY <1>2, <1>5 DEF Lifecycle!Remove, Lifecycle!Stop, life
  <2> QED
    BY <2>1 DEF Lifecycle!Next
<1> QED
  BY <1>3, <1>4, <1>5

-----------------------------------------------------------------------------
(* The steps before the registration and those that end a run.             *)
LEMMA StoppingLives ==
  ASSUME LifeInv,
         \/ Begin \/ RenderFails \/ BuildMedium \/ NameIsTaken \/ DiskRefused
         \/ ModificationRefused \/ CallFails \/ InterfaceFails
         \/ MachineIsGone \/ FetchTimesOut \/ Close
  PROVE  AskedHere' /\ [Lifecycle!Next]_(Lifecycle!vars)
<1>0. /\ job.name \in Name /\ vm \in [Name -> Machine \cup {NoMachine}]
  BY JobAssumption DEF LifeInv, RunInv, TypeOK
<1>1. pc' \in {"idle", "medium", "create", "failed"}
  BY DEF Begin, RenderFails, BuildMedium, NameIsTaken, DiskRefused,
     ModificationRefused, CallFails, InterfaceFails, MachineIsGone,
     FetchTimesOut, Close, Fault, NoFault
<1>2. AskedHere' /\ Stage' = "idle"
  BY <1>1 DEF AskedHere, Working, Stage
<1>3. \/ UNCHANGED vm
      \/ /\ Exists(job.name)
         /\ \/ vm' = [vm EXCEPT ![job.name].power = "poweroff"]
            \/ vm' = [vm EXCEPT ![job.name] = NoMachine]
  BY DEF Begin, RenderFails, BuildMedium, NameIsTaken, DiskRefused,
     ModificationRefused, CallFails, InterfaceFails, MachineIsGone,
     FetchTimesOut, Close, RollBack
<1>4. CASE UNCHANGED vm
  BY <1>2, <1>4, QuietStep
<1>5. CASE Exists(job.name) /\ vm' = [vm EXCEPT ![job.name].power = "poweroff"]
  <2> DEFINE e == [vm[job.name] EXCEPT !.power = "poweroff"]
  <2>1. vm' = [vm EXCEPT ![job.name] = e]
    BY <1>5
  <2>2. Condition(e) = Condition(vm[job.name])
    BY <1>0, <1>5, ExistsIsMachine, ConditionOfPower
  <2> HIDE DEF e
  <2>3. \A n \in Name : Condition(vm'[n]) = Condition(vm[n])
    BY <1>0, <2>1, <2>2
  <2> QED
    BY <1>2, <2>3, QuietStep
<1>6. CASE vm' = [vm EXCEPT ![job.name] = NoMachine]
  <2>1. vm'[job.name] = NoMachine /\ \A x \in Name \ {job.name} : vm'[x] = vm[x]
    BY <1>0, <1>6
  <2> QED
    BY <1>0, <1>2, <2>1, ConditionOfNone, LifeStep
<1> QED
  BY <1>2, <1>3, <1>4, <1>5, <1>6

(* A machine is registered, and is partial.                                *)
LEMMA CreateLives ==
  ASSUME LifeInv, CreateVm
  PROVE  AskedHere' /\ [Lifecycle!Next]_(Lifecycle!vars)
<1> DEFINE n == job.name
           e == NewMachine(run, job)
<1>0. /\ n \in Name /\ job \in Job /\ run \in 1 .. MaxRuns
      /\ vm \in [Name -> Machine \cup {NoMachine}]
  BY JobAssumption DEF LifeInv, RunInv, TypeOK, Phase, CreateVm
<1>1. /\ pc = "create" /\ vm[n] = NoMachine /\ UNCHANGED <<job, todo>>
      /\ vm' = [vm EXCEPT ![n] = e] /\ pc' \in {"configure", "failed"}
  BY <1>0, ExistsIsMachine DEF CreateVm, Fault
<1>2. e \in Machine /\ e.asked = job /\ Lacking(e, job)
  BY <1>0, NewMachineType, NewIsLacking DEF NewMachine
<1> HIDE DEF e
<1>3. vm'[n] = e /\ \A x \in Name \ {n} : vm'[x] = vm[x]
  BY <1>0, <1>1
<1>4. AskedHere'
  BY <1>1, <1>2, <1>3 DEF AskedHere, Working
<1>5. Condition(e) = "partial"
  <2>1. e.run # 0
    BY <1>2 DEF Machine
  <2> QED
    BY <1>0, <1>2, <2>1, LackingIsPartial DEF Condition
<1>6. Stage = "idle" /\ Stage' = IF pc' = "failed" THEN "idle" ELSE "making"
  BY <1>1 DEF Stage
<1>7. Condition(vm[n]) = "none" /\ Condition(vm'[n]) = "partial"
  BY <1>1, <1>3, <1>5, ConditionOfNone
<1>8. Stage' = "idle" \/ (Stage' = "making" /\ job'.name = n)
  BY <1>1, <1>6
<1> QED
  BY <1>0, <1>3, <1>4, <1>6, <1>7, <1>8, LifeStep

(* A step of the plan. The machine is whole with the last of them, and not *)
(* before.                                                                 *)
LEMMA ConfigureLives ==
  ASSUME LifeInv, Configure
  PROVE  AskedHere' /\ [Lifecycle!Next]_(Lifecycle!vars)
<1> DEFINE n == job.name
           m == vm[n]
           e == Effect(m, Head(todo))
           F == Plan[job]
<1>0. /\ job \in Job /\ n \in Name /\ TypeOK
      /\ vm \in [Name -> Machine \cup {NoMachine}]
      /\ chosen \in Iface \cup {NoIface}
  BY JobAssumption DEF LifeInv, RunInv, TypeOK, NetTypeOK
<1>1. /\ UNCHANGED job /\ pc \in {"configure", "attach"} /\ todo # <<>>
      /\ InPlan /\ Exists(n) /\ m \in Machine
  BY <1>0, ExistsIsMachine
  DEF Configure, AtModification, MayModify, LifeInv, RunInv, Phase
<1>2. /\ Head(todo) = F[Behind + 1] /\ Head(todo) \in Step
      /\ Behind \in Nat /\ Behind + 1 \in 1 .. Len(F)
      /\ Len(Tail(todo)) = Len(todo) - 1
  BY <1>0, <1>1, HeadOfPlan
<1>3. \/ vm' = [vm EXCEPT ![n] = e] /\ pc' = "configure" /\ todo' = Tail(todo)
      \/ pc' = "failed" /\ (vm' = [vm EXCEPT ![n] = e]
                            \/ vm' = [vm EXCEPT ![n] = NoMachine])
  BY DEF Configure, Fault
<1>4. m.asked = job /\ Lacking(m, job)
  BY <1>1 DEF LifeInv, AskedHere, Working
<1>5. \A i \in 1 .. Behind : InEffect(m, F[i])
  BY <1>1 DEF LifeInv, RunInv, BehindIsInEffect, Working
<1>6. Condition(m) = "partial"
  <2>1. m.run # 0
    BY <1>1 DEF Machine
  <2> QED
    BY <1>0, <1>1, <1>4, <2>1, LackingIsPartial DEF Condition
<1>7. PICK k \in 1 .. Len(F) : k = Behind + 1
  BY <1>2
<1>8. e = Effect(m, F[k]) /\ \A i \in 1 .. k - 1 : InEffect(m, F[i])
  BY <1>2, <1>5, <1>7
<1>9. e.asked = job
  BY <1>1, <1>4, EffectKeepsAsked
<1> HIDE DEF e
<1>10. e \in Machine /\ e.run # 0 /\ \A i \in 1 .. k : InEffect(e, F[i])
  <2>1. e \in Machine /\ \A i \in 1 .. k : InEffect(e, F[i])
    BY <1>0, <1>1, <1>8, StepsStay
  <2> QED
    BY <2>1 DEF Machine
<1>11. k # Len(F) => Lacking(e, job)
  <2> SUFFICES ASSUME k # Len(F) PROVE Lacking(e, job)
    OBVIOUS
  <2>1. k \in 1 .. Len(F) - 1
    BY <1>0, LastIsNew
  <2> QED
    BY <1>0, <1>1, <1>4, <1>8, <2>1, LackingStays
<1>12. Condition(e) = IF k = Len(F) THEN "whole" ELSE "partial"
  <2>1. CASE k = Len(F)
    <3>1. DOMAIN F = 1 .. Len(F)
      BY <1>0, PlanIsSound, LenProperties
    <3> QED
      BY <1>9, <1>10, <2>1, <3>1 DEF Condition, Equipped
  <2>2. CASE k # Len(F)
    BY <1>0, <1>9, <1>10, <1>11, <2>2, LackingIsPartial DEF Condition
  <2> QED
    BY <2>1, <2>2
<1>13. Stage = "making" /\ Stage' = IF pc' = "failed" THEN "idle" ELSE "making"
  BY <1>1, <1>3 DEF Stage
<1>14. CASE vm' = [vm EXCEPT ![n] = e]
  <2>1. vm'[n] = e /\ \A x \in Name \ {n} : vm'[x] = vm[x]
    BY <1>0, <1>14
  <2>2. AskedHere'
    <3>1. CASE pc' = "failed"
      BY <3>1 DEF AskedHere, Working
    <3>2. CASE todo' = Tail(todo)
      <4>1. Len(F) \in Nat /\ Len(todo) \in Nat
        BY <1>0, <1>1, LastIsNew, LenProperties DEF InPlan
      <4>2. Tail(todo) # <<>> => k # Len(F)
        <5>1. k = Len(F) => Len(Tail(todo)) = 0
          <6> DEFINE all == Len(F)
                     left == Len(todo)
                     then == Len(Tail(todo))
          <6>1. then = left - 1 /\ k = Behind + 1 /\ Behind \in Nat
            BY <1>2, <1>7
          <6>2. Behind = all - left /\ all \in Nat /\ left \in Nat
            BY <4>1 DEF Behind
          <6> HIDE DEF all, left, then
          <6>3. k = all => then = 0
            BY <6>1, <6>2
          <6> QED
            BY <6>3 DEF all, then
        <5>2. Tail(todo) \in Seq(Step)
          BY <1>0, <1>1, HeadOfPlan
        <5> QED
          BY <5>1, <5>2, EmptySeq
      <4> QED
        BY <1>1, <1>9, <1>11, <2>1, <3>2, <4>2 DEF AskedHere
    <3> QED
      BY <1>3, <3>1, <3>2
  <2>3. CASE k = Len(F)
    <3>1. Condition(vm[n]) = "partial" /\ Condition(vm'[n]) = "whole"
      BY <1>6, <1>12, <2>1, <2>3
    <3>2. Stage' = "idle" \/ (Stage' = Stage /\ job' = job)
      BY <1>1, <1>13
    <3> QED
      BY <1>0, <1>13, <2>1, <2>2, <3>1, <3>2, LifeStep
  <2>4. CASE k # Len(F)
    <3>1. \A x \in Name : Condition(vm'[x]) = Condition(vm[x])
      BY <1>6, <1>12, <2>1, <2>4
    <3> QED
      BY <1>1, <1>13, <2>2, <3>1, QuietStep
  <2> QED
    BY <2>3, <2>4
<1>15. CASE pc' = "failed" /\ vm' = [vm EXCEPT ![n] = NoMachine]
  <2>1. vm'[n] = NoMachine /\ \A x \in Name \ {n} : vm'[x] = vm[x]
    BY <1>0, <1>15
  <2>2. AskedHere'
    BY <1>15 DEF AskedHere, Working
  <2> QED
    BY <1>0, <1>13, <1>15, <2>1, <2>2, ConditionOfNone, LifeStep
<1> QED
  BY <1>3, <1>14, <1>15

(* What the machine of a run behind its configuration is.                  *)
LEMMA ConfiguredIsWhole ==
  ASSUME LifeInv, job.name \in Name, Working, pc \notin {"configure", "attach"}
  PROVE  Condition(vm[job.name]) # "partial"
<1>1. CASE Exists(job.name)
  BY <1>1 DEF LifeInv, RunInv, BehindIsInEffect, AskedHere, Condition
<1>2. CASE ~Exists(job.name)
  BY <1>2 DEF Exists, Condition
<1> QED
  BY <1>1, <1>2

(* The machine is handed over, and used.                                   *)
LEMMA StartLives ==
  ASSUME LifeInv, RunInv',
         FinishConfiguration \/ StartVm \/ PressKey \/ KeysAreSent \/ Fetch
  PROVE  AskedHere' /\ [Lifecycle!Next]_(Lifecycle!vars)
<1>0. /\ job.name \in Name /\ UNCHANGED job
      /\ vm \in [Name -> Machine \cup {NoMachine}]
  BY JobAssumption DEF LifeInv, RunInv, TypeOK, FinishConfiguration, StartVm,
     PressKey, KeysAreSent, Fetch
<1>1. CASE FinishConfiguration
  <2>1. UNCHANGED vm /\ pc = "configure" /\ pc' \in {"start", "done"}
    BY <1>1 DEF FinishConfiguration
  <2>2. AskedHere'
    BY <1>0, <2>1 DEF LifeInv, AskedHere, Working, Exists
  <2>3. Condition(vm[job.name]) # "partial"
    <3>1. Exists(job.name) => /\ Equipped(vm[job.name], job)
                              /\ vm[job.name].asked = job
      BY <1>0, <2>1 DEF RunInv, BehindIsInEffect, LifeInv, AskedHere, Working,
         Exists
    <3> QED
      BY <3>1 DEF Exists, Condition
  <2>4. Stage = "making" /\ Stage' \in {"making", "ready"}
    BY <2>1 DEF Stage
  <2>5. \A n \in Name : Condition(vm'[n]) = Condition(vm[n])
    BY <2>1
  <2> QED
    BY <1>0, <2>2, <2>3, <2>4, <2>5, QuietStep
<1>2. CASE StartVm
  <2> DEFINE m == vm[job.name]
             e == [m EXCEPT !.power = "running"]
  <2>1. /\ pc = "start" /\ pc' \in {"keys", "failed"} /\ Exists(job.name)
        /\ vm' = [vm EXCEPT ![job.name] = e]
    BY <1>2 DEF StartVm, Fault
  <2>2. Condition(e) = Condition(m) /\ e.asked = m.asked
    BY <1>0, <2>1, ExistsIsMachine, ConditionOfPower
  <2>3. Condition(m) # "partial" /\ m.asked = job
    BY <1>0, <2>1, ConfiguredIsWhole DEF LifeInv, AskedHere, Working
  <2> HIDE DEF e
  <2>4. vm'[job.name] = e /\ \A n \in Name : Condition(vm'[n]) = Condition(vm[n])
    BY <1>0, <2>1, <2>2
  <2>5. AskedHere'
    BY <1>0, <2>1, <2>2, <2>3, <2>4 DEF AskedHere
  <2>6. Stage = "making" /\ Stage' \in {"ready", "idle"}
    BY <2>1 DEF Stage
  <2> QED
    BY <1>0, <2>3, <2>4, <2>5, <2>6, QuietStep
<1>3. CASE PressKey \/ KeysAreSent \/ Fetch
  <2>1. /\ UNCHANGED vm /\ pc \in {"keys", "fetch"}
        /\ pc' \in {"keys", "fetch", "done"}
    BY <1>3 DEF PressKey, KeysAreSent, Fetch
  <2>2. AskedHere'
    BY <1>0, <2>1 DEF LifeInv, AskedHere, Working, Exists
  <2>3. Stage' = Stage
    BY <2>1 DEF Stage
  <2> QED
    BY <1>0, <2>1, <2>2, <2>3, QuietStep
<1> QED
  BY <1>1, <1>2, <1>3

(* The disk, the search and the operator.                                  *)
LEMMA BesidesLive ==
  ASSUME LifeInv,
         \/ CreateDisk \/ EnsureInterface \/ Operator
         \/ UNCHANGED vars
  PROVE  AskedHere' /\ [Lifecycle!Next]_(Lifecycle!vars)
<1>0. /\ job \in Job /\ job.name \in Name
      /\ vm \in [Name -> Machine \cup {NoMachine}]
  BY JobAssumption DEF LifeInv, RunInv, TypeOK
<1>1. CASE CreateDisk
  <2>1. /\ UNCHANGED <<vm, job, todo>> /\ pc = "configure"
        /\ pc' \in {"attach", "failed"}
    BY <1>1 DEF CreateDisk, Fault
  <2>2. AskedHere'
    BY <2>1 DEF LifeInv, AskedHere, Working, Exists
  <2>3. Stage' = "idle" \/ (Stage' = Stage /\ job' = job)
    BY <2>1 DEF Stage
  <2> QED
    BY <2>1, <2>2, <2>3, QuietStep
<1>2. CASE EnsureInterface \/ ChangeInterfaces \/ UNCHANGED vars
  <2>1. UNCHANGED <<vm, pc, job, todo>>
    BY <1>2, Zenon DEF EnsureInterface, ChangeInterfaces, vars,
       machineVars
  <2>2. AskedHere'
    BY <2>1 DEF LifeInv, AskedHere, Working, Exists
  <2>3. Stage' = Stage /\ job' = job
    BY <2>1 DEF Stage
  <2> QED
    BY <2>1, <2>2, <2>3, QuietStep
<1>3. CASE SwitchPower \/ RemoveMachine
  <2>1. UNCHANGED <<pc, job, todo>> /\ Stage' = Stage
    BY <1>3 DEF SwitchPower, RemoveMachine, Stage
  <2>2. CASE SwitchPower
    <3>1. PICK n \in Name, p \in {"poweroff", "running", "saved"} :
            Exists(n) /\ vm' = [vm EXCEPT ![n] = [vm[n] EXCEPT !.power = p]]
      BY <1>0, <2>2 DEF SwitchPower
    <3> DEFINE e == [vm[n] EXCEPT !.power = p]
    <3>2. /\ Condition(e) = Condition(vm[n]) /\ e.asked = vm[n].asked
          /\ Lacking(vm[n], job) => Lacking(e, job)
      BY <1>0, <3>1, ExistsIsMachine, ConditionOfPower
    <3>3. vm' = [vm EXCEPT ![n] = e]
      BY <3>1
    <3> HIDE DEF e
    <3>4. /\ vm'[n] = e /\ \A x \in Name \ {n} : vm'[x] = vm[x]
      BY <1>0, <3>3
    <3>5. \A x \in Name : Condition(vm'[x]) = Condition(vm[x])
      BY <3>2, <3>4
    <3>6. AskedHere'
      BY <1>0, <2>1, <3>1, <3>2, <3>4 DEF LifeInv, AskedHere, Working, Exists
    <3> QED
      BY <2>1, <3>5, <3>6, QuietStep
  <2>3. CASE RemoveMachine
    <3>1. PICK n \in Name : vm' = [vm EXCEPT ![n] = NoMachine]
      BY <2>3 DEF RemoveMachine
    <3>2. vm'[n] = NoMachine /\ \A x \in Name \ {n} : vm'[x] = vm[x]
      BY <1>0, <3>1
    <3>3. AskedHere'
      BY <1>0, <2>1, <3>2 DEF LifeInv, AskedHere, Working, Exists, NoMachine
    <3> QED
      BY <2>1, <3>2, <3>3, ConditionOfNone, LifeStep
  <2> QED
    BY <1>3, <2>2, <2>3
<1> QED
  BY <1>1, <1>2, <1>3 DEF Operator

(* Whatever a run does, whatever fails and whoever interferes, a machine   *)
(* lives the life MachineLifecycle promises it: only the run that          *)
(* registered it works on it, and it is handed over whole or not at all,   *)
(* unless it was removed meanwhile.                                        *)
THEOREM LifeIsKept == Spec => ImplementsLifecycle
<1>1. Init => LifeInv /\ Lifecycle!Init
  <2> SUFFICES ASSUME Init PROVE LifeInv /\ Lifecycle!Init
    OBVIOUS
  <2>1. pc = "idle" /\ vm = [n \in Name |-> NoMachine]
    BY DEF Init, MachineInit
  <2>2. RunInv /\ AskedHere
    BY <2>1, RunInitially DEF AskedHere, Working
  <2>3. Stage = "idle" /\ \A n \in Name : Life(n) = "none"
    BY <2>1 DEF Stage, Life, Exists, NoMachine
  <2> QED
    BY <2>2, <2>3 DEF LifeInv, Lifecycle!Init
<1>2. LifeInv /\ [Next]_vars => LifeInv' /\ [Lifecycle!Next]_(Lifecycle!vars)
  <2> SUFFICES ASSUME LifeInv, [Next]_vars
               PROVE  LifeInv' /\ [Lifecycle!Next]_(Lifecycle!vars)
    OBVIOUS
  <2>1. RunInv'
    BY RunInductive DEF LifeInv
  <2>2. AskedHere' /\ [Lifecycle!Next]_(Lifecycle!vars)
    BY <2>1, StoppingLives, CreateLives, ConfigureLives, StartLives, BesidesLive
    DEF Next, Rest
  <2> QED
    BY <2>1, <2>2 DEF LifeInv
<1> QED
  BY <1>1, <1>2, PTL DEF Spec, ImplementsLifecycle, Lifecycle!Spec

=============================================================================
