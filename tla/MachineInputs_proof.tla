------------------------- MODULE MachineInputs_proof -------------------------
(***************************************************************************)
(* What machine creation is given: the image an installer is booted from   *)
(* (ImageDetector, for any scanners, files and contents), the answer file  *)
(* it fetches (PreseedServer, for any clients) and the manifest            *)
(* (MachineManifest, for any profiles, answers and number of slots).       *)
(***************************************************************************)
EXTENDS ImageDetector, PreseedServer, MachineManifest, FiniteSetTheorems, TLAPS

-----------------------------------------------------------------------------
Entry == [stat : Nat, hash : Nat]

Verdict == Image \cup {"none", "unknown", "ambiguous"}

Progress ==
  [pc : {"idle", "file", "look", "hash", "read", "record", "write", "resolve",
         "chosen"},
   todo : SUBSET File, file : File \cup {""}, stat : Nat, hash : Nat,
   cached : [File -> Entry], found : [File -> Verdict], next : [File -> Entry]]

TypeOK ==
  /\ content \in [File -> Content \cup {NoFile}]
  /\ mtime \in [File -> Nat \ {0}]
  /\ changes \in Nat
  /\ index \in [File -> Entry]
  /\ scan \in [Scanner -> Progress]
  /\ scans \in Nat

(***************************************************************************)
(* An entry that carries a file's modification time carries the hash of    *)
(* that version; an entry is never of a version still to come, so that a   *)
(* later change makes it stale and not wrong.                              *)
(***************************************************************************)
IsTrue(entry, f) ==
  /\ entry.stat <= mtime[f]
  /\ entry.hash # 0 /\ entry.stat = mtime[f] => entry.hash = mtime[f]

(* What a scanner holds in its hands between two looks at the file.        *)
InHand(s) ==
  /\ scan[s].pc \in {"look", "hash", "read", "record"} => scan[s].file \in File
  /\ scan[s].pc \in {"look", "hash"} => scan[s].stat <= mtime[scan[s].file]
  /\ scan[s].pc = "read" =>
       scan[s].stat <= scan[s].hash /\ scan[s].hash <= mtime[scan[s].file]
  /\ scan[s].pc = "record" => IsTrue(NewEntry(s), scan[s].file)

CacheInv ==
  /\ TypeOK
  /\ \A f \in File : mtime[f] <= changes /\ IsTrue(index[f], f)
  /\ \A s \in Scanner :
       /\ InHand(s)
       /\ \A f \in File :
            IsTrue(scan[s].cached[f], f) /\ IsTrue(scan[s].next[f], f)

(* What a scanner is before its scan and after its end.                    *)
LEMMA IdleIsProgress ==
  /\ NoIndex \in [File -> Entry] /\ Torn \in [File -> Entry]
  /\ Idle \in Progress
  /\ Idle.cached = NoIndex /\ Idle.next = NoIndex /\ Idle.pc = "idle"
  /\ \A f \in File : NoIndex[f] = NoEntry /\ Torn[f].stat = 0
  /\ NoEntry.stat = 0 /\ NoEntry.hash = 0
<1>1. NoEntry \in Entry /\ [stat |-> 0, hash |-> Mixed] \in Entry
  BY DetectorAssumption DEF NoEntry, Entry, Mixed
<1>2. NoIndex \in [File -> Entry] /\ Torn \in [File -> Entry]
  BY <1>1 DEF NoIndex, Torn
<1>3. [f \in File |-> "none"] \in [File -> Verdict]
  BY DEF Verdict
<1> QED
  BY <1>1, <1>2, <1>3 DEF Idle, Progress, NoIndex, Torn, NoEntry

(* One scanner moves and the files stay: only its own entries are in       *)
(* question.                                                               *)
LEMMA ScannerKeeps ==
  ASSUME CacheInv, NEW s \in Scanner, NEW r \in Progress, Step(s, r), NoChange,
         scans' \in Nat,
         index' \in [File -> Entry], \A f \in File : IsTrue(index'[f], f),
         \A f \in File : IsTrue(r.cached[f], f) /\ IsTrue(r.next[f], f),
         r.pc \in {"look", "hash", "read", "record"} => r.file \in File,
         r.pc \in {"look", "hash"} => r.stat <= mtime[r.file],
         r.pc = "read" => r.stat <= r.hash /\ r.hash <= mtime[r.file],
         r.pc = "record" => IsTrue([stat |-> r.stat, hash |-> r.hash], r.file)
  PROVE  CacheInv'
<1>1. /\ scan' \in [Scanner -> Progress] /\ scan'[s] = r
      /\ \A t \in Scanner \ {s} : scan'[t] = scan[t]
  BY DEF CacheInv, TypeOK, Step
<1>2. UNCHANGED <<content, mtime, changes>>
  BY DEF NoChange
<1>3. TypeOK'
  BY <1>1, <1>2 DEF CacheInv, TypeOK
<1>4. \A f \in File : (mtime[f] <= changes)' /\ IsTrue(index[f], f)'
  BY <1>2 DEF CacheInv, IsTrue
<1>5. ASSUME NEW t \in Scanner
      PROVE  /\ InHand(t)'
             /\ \A f \in File : IsTrue(scan[t].cached[f], f)'
                                  /\ IsTrue(scan[t].next[f], f)'
  <2>1. CASE t = s
    BY <1>1, <1>2, <2>1 DEF InHand, IsTrue, NewEntry
  <2>2. CASE t # s
    <3>1. scan'[t] = scan[t]
      BY <1>1, <2>2
    <3> QED
      BY <1>2, <3>1 DEF CacheInv, InHand, IsTrue, NewEntry
  <2> QED
    BY <2>1, <2>2
<1> QED
  BY <1>3, <1>4, <1>5 DEF CacheInv

(* A verdict is the name of an image or says that there is none.           *)
LEMMA VerdictIsVerdict ==
  ASSUME NEW names, NEW labels, NEW hints
  PROVE  ClassifyImage(names, labels, hints) \in Verdict \ {"none"}
         \/ ClassifyImage(names, labels, hints) \in Image
  BY DEF ClassifyImage, Verdict

(* The steps of one scanner.                                               *)
LEMMA ScanKeeps ==
  ASSUME CacheInv, NEW s \in Scanner,
         \/ Begin(s) \/ Stat(s) \/ Look(s) \/ OpenFile(s) \/ ReadFile(s)
         \/ Record(s) \/ FileVanished(s) \/ OpenIndex(s) \/ WriteIndex(s)
         \/ Resolve(s) \/ Close(s) \/ Crash(s)
  PROVE  CacheInv'
<1> DEFINE r == scan[s]
           f == r.file
<1>0. /\ r \in Progress /\ index \in [File -> Entry] /\ scans \in Nat
      /\ mtime \in [File -> Nat \ {0}] /\ MaxChanges \in Nat
      /\ r.stat \in Nat /\ r.hash \in Nat
      /\ \A g \in File : IsTrue(index[g], g)
      /\ \A g \in File : IsTrue(r.cached[g], g) /\ IsTrue(r.next[g], g)
      /\ r.cached \in [File -> Entry] /\ r.next \in [File -> Entry]
  BY DetectorAssumption DEF CacheInv, TypeOK, Progress
<1>i. /\ r.pc \in {"look", "hash", "read", "record"} => f \in File
      /\ r.pc \in {"look", "hash"} => r.stat <= mtime[f]
      /\ r.pc = "read" => r.stat <= r.hash /\ r.hash <= mtime[f]
      /\ r.pc = "record" => IsTrue([stat |-> r.stat, hash |-> r.hash], f)
  BY DEF CacheInv, InHand, NewEntry
<1>n. /\ \A g \in File : IsTrue(NoIndex[g], g) /\ IsTrue(Torn[g], g)
      /\ NoEntry \in Entry /\ \A g \in File : IsTrue(NoEntry, g)
  BY <1>0, IdleIsProgress DEF IsTrue, NoEntry, Entry
<1>1. CASE Begin(s)
  <2>1. PICK c \in {Loaded, NoIndex} :
          Step(s, [Idle EXCEPT !.pc = "file", !.todo = Present, !.cached = c])
    BY <1>1 DEF Begin
  <2> DEFINE q == [Idle EXCEPT !.pc = "file", !.todo = Present, !.cached = c]
  <2>2. c \in [File -> Entry] /\ \A g \in File : IsTrue(c[g], g)
    BY <1>0, <1>n, IdleIsProgress DEF Loaded
  <2>3. /\ q \in Progress /\ q.pc = "file" /\ q.cached = c
        /\ q.next = NoIndex
    BY <2>2, IdleIsProgress DEF Progress, Present
  <2>4. NoChange /\ UNCHANGED index /\ scans' \in Nat
    BY <1>0, <1>1 DEF Begin
  <2> HIDE DEF q
  <2> QED
    BY <1>0, <1>n, <2>1, <2>2, <2>3, <2>4, ScannerKeeps DEF q
<1>2. CASE Stat(s)
  <2>1. PICK g \in r.todo :
          Step(s, [r EXCEPT !.pc = "look", !.file = g, !.todo = @ \ {g},
                     !.stat = mtime[g]])
    BY <1>2 DEF Stat
  <2> DEFINE q == [r EXCEPT !.pc = "look", !.file = g, !.todo = @ \ {g},
                     !.stat = mtime[g]]
  <2>2. g \in File /\ mtime[g] \in Nat
    BY <1>0 DEF Progress
  <2>3. /\ q \in Progress /\ q.pc = "look" /\ q.cached = r.cached
        /\ q.next = r.next /\ q.file = g /\ q.stat = mtime[g]
    BY <1>0, <2>2 DEF Progress
  <2>4. NoChange /\ UNCHANGED <<index, scans>>
    BY <1>2 DEF Stat
  <2>5. Step(s, q)
    BY <2>1
  <2> HIDE DEF q
  <2>6. q.stat <= mtime[q.file] /\ q.file \in File
    BY <2>2, <2>3
  <2>7. \A h \in File : IsTrue(q.cached[h], h) /\ IsTrue(q.next[h], h)
    BY <1>0, <2>3
  <2> QED
    BY <1>0, <2>3, <2>4, <2>5, <2>6, <2>7, ScannerKeeps
<1>3. CASE Look(s)
  <2>1. PICK labels, hints :
          LET what == ClassifyImage(NameMatch[f], labels, hints)
          IN Step(s, [r EXCEPT !.found[f] = what, !.hash = CachedHash(s),
               !.pc = IF what \notin Image THEN "file"
                      ELSE IF CachedHash(s) = 0 THEN "hash" ELSE "record"])
    BY <1>3 DEF Look
  <2> DEFINE what == ClassifyImage(NameMatch[f], labels, hints)
             pos == IF what \notin Image THEN "file"
                    ELSE IF CachedHash(s) = 0 THEN "hash" ELSE "record"
             q == [r EXCEPT !.found[f] = what, !.hash = CachedHash(s),
                     !.pc = pos]
  <2>2. what \in Verdict
    BY VerdictIsVerdict DEF Verdict
  <2>3. r.pc = "look" /\ f \in File /\ r.stat <= mtime[f]
    BY <1>3, <1>i DEF Look
  <2>4. /\ CachedHash(s) \in Nat
        /\ CachedHash(s) # 0 =>
             IsTrue([stat |-> r.stat, hash |-> CachedHash(s)], f)
    <3>1. r.cached[f] \in Entry /\ IsTrue(r.cached[f], f)
      BY <1>0, <2>3
    <3> QED
      BY <3>1 DEF CachedHash, Entry, IsTrue
  <2>5. pos \in {"file", "hash", "record"}
        /\ (pos = "record" => CachedHash(s) # 0)
    OBVIOUS
  <2>6. Step(s, q)
    BY <2>1
  <2> HIDE DEF what, pos
  <2>7. /\ q \in Progress /\ q.pc = pos /\ q.cached = r.cached
        /\ q.next = r.next /\ q.file = f /\ q.stat = r.stat
        /\ q.hash = CachedHash(s)
    <3>1. [r.found EXCEPT ![f] = what] \in [File -> Verdict]
      BY <1>0, <2>2 DEF Progress
    <3> QED
      BY <1>0, <2>4, <2>5, <3>1 DEF Progress
  <2>8. NoChange /\ UNCHANGED <<index, scans>>
    BY <1>3 DEF Look
  <2> HIDE DEF q
  <2> QED
    BY <1>0, <2>3, <2>4, <2>5, <2>6, <2>7, <2>8, ScannerKeeps
<1>4. CASE OpenFile(s)
  <2> DEFINE q == [r EXCEPT !.pc = "read", !.hash = mtime[f]]
  <2>1. /\ r.pc = "hash" /\ Step(s, q) /\ NoChange /\ UNCHANGED <<index, scans>>
    BY <1>4 DEF OpenFile
  <2>2. f \in File /\ mtime[f] \in Nat /\ r.stat <= mtime[f]
    BY <1>0, <1>i, <2>1
  <2>3. /\ q \in Progress /\ q.pc = "read" /\ q.cached = r.cached
        /\ q.next = r.next /\ q.file = f /\ q.stat = r.stat /\ q.hash = mtime[f]
    BY <1>0, <2>2 DEF Progress
  <2> HIDE DEF q
  <2>4. /\ q.stat <= q.hash /\ q.hash <= mtime[q.file] /\ q.file \in File
        /\ \A h \in File : IsTrue(q.cached[h], h) /\ IsTrue(q.next[h], h)
    BY <1>0, <2>2, <2>3
  <2> QED
    BY <1>0, <2>1, <2>3, <2>4, ScannerKeeps
<1>5. CASE ReadFile(s)
  <2>1. PICK hash \in IF mtime[f] = r.hash THEN {r.hash} ELSE {r.hash, Mixed} :
          Step(s, [r EXCEPT !.pc = "record", !.hash = hash])
    BY <1>5 DEF ReadFile
  <2> DEFINE q == [r EXCEPT !.pc = "record", !.hash = hash]
  <2>2. /\ r.pc = "read" /\ NoChange /\ UNCHANGED <<index, scans>>
    BY <1>5 DEF ReadFile
  <2>3. /\ f \in File /\ mtime[f] \in Nat /\ hash \in Nat
        /\ r.stat <= r.hash /\ r.hash <= mtime[f]
    BY <1>0, <1>i, <2>2 DEF Mixed
  <2>4. IsTrue([stat |-> r.stat, hash |-> hash], f)
    <3>1. r.stat \in Nat /\ r.hash \in Nat
      BY <1>0
    <3>2. CASE mtime[f] = r.hash
      BY <2>1, <2>3, <3>1, <3>2 DEF IsTrue
    <3>3. CASE mtime[f] # r.hash
      <4>1. r.stat < mtime[f]
        BY <2>3, <3>1, <3>3
      <4> QED
        BY <2>3, <3>1, <4>1 DEF IsTrue
    <3> QED
      BY <3>2, <3>3
  <2>5. /\ q \in Progress /\ q.pc = "record" /\ q.cached = r.cached
        /\ q.next = r.next /\ q.file = f /\ q.stat = r.stat /\ q.hash = hash
    BY <1>0, <2>3 DEF Progress
  <2>6. Step(s, q)
    BY <2>1
  <2> HIDE DEF q
  <2> QED
    BY <1>0, <2>2, <2>3, <2>4, <2>5, <2>6, ScannerKeeps
<1>6. CASE Record(s)
  <2> DEFINE e == NewEntry(s)
             q == [r EXCEPT !.pc = "file", !.next[f] = e, !.stat = 0,
                     !.hash = 0, !.cached[f] = NoEntry]
  <2>1. /\ r.pc = "record" /\ Step(s, q) /\ NoChange /\ UNCHANGED <<index, scans>>
    BY <1>6 DEF Record
  <2>2. f \in File /\ e \in Entry /\ IsTrue(e, f)
    BY <1>0, <1>i, <2>1 DEF NewEntry, Entry
  <2> DEFINE n == [r.next EXCEPT ![f] = e]
             c == [r.cached EXCEPT ![f] = NoEntry]
  <2> HIDE DEF e
  <2>3. /\ n \in [File -> Entry] /\ c \in [File -> Entry]
        /\ \A g \in File : IsTrue(c[g], g) /\ IsTrue(n[g], g)
    BY <1>0, <1>n, <2>2
  <2>4. /\ q \in Progress /\ q.pc = "file" /\ q.cached = c /\ q.next = n
    <3>1. q = [r EXCEPT !.pc = "file", !.next = n, !.stat = 0, !.hash = 0,
                        !.cached = c]
      OBVIOUS
    <3> HIDE DEF q, c, n
    <3> QED
      BY <1>0, <2>3, <3>1 DEF Progress
  <2> HIDE DEF q, n, c
  <2> QED
    BY <1>0, <2>1, <2>3, <2>4, ScannerKeeps
<1>7. CASE FileVanished(s) \/ Close(s) \/ Crash(s)
  <2>1. Step(s, Idle) /\ NoChange /\ UNCHANGED <<index, scans>>
    BY <1>7 DEF FileVanished, Close, Crash
  <2> QED
    BY <1>0, <1>n, <2>1, IdleIsProgress, ScannerKeeps
<1>8. CASE OpenIndex(s)
  <2> DEFINE q == [r EXCEPT !.pc = "write", !.file = "", !.cached = NoIndex]
  <2>1. /\ Step(s, q) /\ NoChange /\ index' = Torn /\ UNCHANGED scans
    BY <1>8 DEF OpenIndex
  <2>2. q \in Progress /\ q.pc = "write" /\ q.cached = NoIndex /\ q.next = r.next
    BY <1>0, IdleIsProgress DEF Progress
  <2> HIDE DEF q
  <2> QED
    BY <1>0, <1>n, <2>1, <2>2, IdleIsProgress, ScannerKeeps
<1>9. CASE WriteIndex(s)
  <2> DEFINE q == [r EXCEPT !.pc = "resolve"]
  <2>1. /\ Step(s, q) /\ NoChange /\ index' \in {r.next, Torn} /\ UNCHANGED scans
    BY <1>9 DEF WriteIndex
  <2>2. q \in Progress /\ q.pc = "resolve" /\ q.cached = r.cached
        /\ q.next = r.next
    BY <1>0 DEF Progress
  <2> HIDE DEF q
  <2> QED
    BY <1>0, <1>n, <2>1, <2>2, IdleIsProgress, ScannerKeeps
<1>10. CASE Resolve(s)
  <2>1. PICK g \in Present : Step(s, [r EXCEPT !.pc = "chosen", !.file = g])
    BY <1>10 DEF Resolve
  <2> DEFINE q == [r EXCEPT !.pc = "chosen", !.file = g]
  <2>2. NoChange /\ UNCHANGED <<index, scans>>
    BY <1>10 DEF Resolve
  <2>3. q \in Progress /\ q.pc = "chosen" /\ q.cached = r.cached
        /\ q.next = r.next
    BY <1>0 DEF Progress, Present
  <2>4. Step(s, q)
    BY <2>1
  <2> HIDE DEF q
  <2> QED
    BY <1>0, <2>2, <2>3, <2>4, ScannerKeeps
<1> QED
  BY <1>1, <1>2, <1>3, <1>4, <1>5, <1>6, <1>7, <1>8, <1>9, <1>10

(* The cache stays true, also when the operator changes a file: the new    *)
(* version has a number no entry has.                                      *)
LEMMA CacheInductive == CacheInv /\ [Next]_vars => CacheInv'
<1> SUFFICES ASSUME CacheInv, [Next]_vars PROVE CacheInv'
  OBVIOUS
<1>1. CASE ChangeFile
  <2>1. PICK f \in File, c \in Content \cup {NoFile} :
          /\ content' = [content EXCEPT ![f] = c]
          /\ mtime' = [mtime EXCEPT ![f] = changes']
    BY <1>1 DEF ChangeFile
  <2>2. changes' = changes + 1 /\ UNCHANGED <<index, scan, scans>>
    BY <1>1 DEF ChangeFile
  <2>3. /\ mtime \in [File -> Nat \ {0}] /\ changes \in Nat
        /\ \A g \in File : mtime[g] <= changes
        /\ index \in [File -> Entry] /\ scan \in [Scanner -> Progress]
    BY DEF CacheInv, TypeOK
  <2>4. /\ mtime' \in [File -> Nat \ {0}] /\ changes' \in Nat
        /\ \A g \in File : mtime[g] <= mtime'[g] /\ mtime'[g] <= changes'
        /\ \A g \in File : mtime'[g] = mtime[g] \/ mtime[g] < mtime'[g]
    BY <2>1, <2>2, <2>3
  <2>5. TypeOK'
    BY <2>1, <2>2, <2>4 DEF CacheInv, TypeOK
  <2>6. ASSUME NEW g \in File, NEW e \in Entry, IsTrue(e, g)
        PROVE  IsTrue(e, g)'
    <3>1. e.stat \in Nat /\ mtime[g] \in Nat /\ mtime'[g] \in Nat
      BY <2>3, <2>4 DEF Entry
    <3> QED
      BY <2>4, <2>6, <3>1 DEF IsTrue
  <2>7. \A g \in File : IsTrue(index[g], g)'
    BY <2>2, <2>3, <2>6 DEF CacheInv, IsTrue
  <2>8. ASSUME NEW s \in Scanner
        PROVE  /\ InHand(s)'
               /\ \A g \in File : IsTrue(scan[s].cached[g], g)'
                                    /\ IsTrue(scan[s].next[g], g)'
    <3> DEFINE r == scan[s]
    <3>1. /\ r.stat \in Nat /\ r.hash \in Nat /\ InHand(s)
          /\ r.cached \in [File -> Entry] /\ r.next \in [File -> Entry]
          /\ \A g \in File : IsTrue(r.cached[g], g) /\ IsTrue(r.next[g], g)
          /\ UNCHANGED r
      BY <2>2, <2>3 DEF CacheInv, Progress
    <3>2. r.pc \in {"look", "hash", "read", "record"} =>
            /\ r.file \in File /\ mtime[r.file] \in Nat
            /\ mtime'[r.file] \in Nat /\ mtime[r.file] <= mtime'[r.file]
      BY <2>3, <2>4, <3>1 DEF InHand
    <3>3. NewEntry(s) \in Entry /\ UNCHANGED NewEntry(s)
      BY <3>1 DEF NewEntry, Entry
    <3>4. InHand(s)'
      <4>1. r.pc = "record" => IsTrue(NewEntry(s), r.file)'
        BY <2>6, <3>1, <3>2, <3>3 DEF InHand, IsTrue
      <4>2. /\ r.pc \in {"look", "hash"} => r.stat <= mtime'[r.file]
            /\ r.pc = "read" => r.stat <= r.hash /\ r.hash <= mtime'[r.file]
        BY <3>1, <3>2 DEF InHand
      <4> QED
        BY <3>1, <3>2, <4>1, <4>2 DEF InHand
    <3>5. \A g \in File : IsTrue(r.cached[g], g)' /\ IsTrue(r.next[g], g)'
      BY <2>6, <3>1 DEF IsTrue
    <3> QED
      BY <3>4, <3>5
  <2> QED
    BY <2>4, <2>5, <2>7, <2>8 DEF CacheInv
<1>2. CASE UNCHANGED vars
  BY <1>2 DEF vars, CacheInv, TypeOK, IsTrue, InHand, NewEntry
<1> QED
  BY <1>1, <1>2, ScanKeeps DEF Next, Rest

(* The cache is empty at first.                                            *)
LEMMA CacheInitially == Init => CacheInv
<1> SUFFICES ASSUME Init PROVE CacheInv
  OBVIOUS
<1>1. TypeOK
  BY IdleIsProgress DEF Init, TypeOK
<1>2. \A f \in File : mtime[f] = 1 /\ changes = 1 /\ index[f] = NoEntry
  BY IdleIsProgress DEF Init
<1>3. \A s \in Scanner : scan[s] = Idle
  BY DEF Init
<1>4. \A f \in File : IsTrue(NoEntry, f)
  BY <1>2, IdleIsProgress DEF IsTrue
<1>5. \A s \in Scanner :
        /\ InHand(s)
        /\ \A f \in File : IsTrue(scan[s].cached[f], f) /\ IsTrue(scan[s].next[f], f)
  BY <1>3, <1>4, IdleIsProgress DEF InHand
<1> QED
  BY <1>1, <1>2, <1>4, <1>5 DEF CacheInv

(* Every variable of the detector holds a value of its kind.               *)
THEOREM TypeCorrect == Spec => []TypeOK
<1>1. CacheInv => TypeOK
  BY DEF CacheInv
<1> QED
  BY <1>1, CacheInitially, CacheInductive, PTL DEF Spec

(* A checksum taken from the cache is that of the file: for any number of  *)
(* scanners that read, tear and rewrite the cache beside one another, and  *)
(* files that are replaced between any two of their steps.                 *)
THEOREM CacheIsTrue == Spec => []HashIsCurrent
<1>1. CacheInv => HashIsCurrent
  BY DEF CacheInv, IsTrue, HashIsCurrent
<1> QED
  BY <1>1, CacheInitially, CacheInductive, PTL DEF Spec

-----------------------------------------------------------------------------
(* A name outweighs all that the tools say together.                       *)
LEMMA NameOutweighs ==
  ASSUME NEW names \in SUBSET Image, NEW labels, NEW hints,
         Cardinality(names) = 1
  PROVE  ClassifyImage(names, labels, hints) \in names
<1>1. PICK x \in names : names = {x}
  <2>1. IsFiniteSet(names)
    BY DetectorAssumption, FS_Subset
  <2> QED
    BY <2>1, FS_Singleton
<1> DEFINE score == [i \in Image |-> Weigh(i, names, labels, hints)]
           winner == {i \in Image : score[i] > 0
                                      /\ \A j \in Image : score[j] <= score[i]}
<1>2. /\ x \in Image /\ score[x] >= 100 /\ score[x] \in Nat
      /\ \A i \in Image \ {x} : score[i] <= 60 /\ score[i] \in Nat
  BY <1>1 DEF Weigh
<1> HIDE DEF score
<1>3. winner = {x}
  BY <1>2
<1>4. Cardinality(winner) = 1
  BY <1>3, FS_Singleton
<1>5. ClassifyImage(names, labels, hints) =
        IF winner = {} THEN "unknown"
        ELSE IF Cardinality(winner) > 1 THEN "ambiguous"
        ELSE CHOOSE i \in winner : TRUE
  BY DEF ClassifyImage, score
<1> HIDE DEF winner
<1>6. winner # {} /\ ~(Cardinality(winner) > 1)
  BY <1>3, <1>4
<1>7. ClassifyImage(names, labels, hints) = CHOOSE i \in winner : TRUE
  BY <1>5, <1>6, Zenon
<1> QED
  BY <1>1, <1>3, <1>7

(* Nobody but the operator decides what a file is taken for, and he does   *)
(* by its name: for any patterns, and whatever the tools answer or fail    *)
(* to, a file whose name is that of one image is never taken for another.  *)
THEOREM NamesDecide == Spec => []NameDecides
<1> DEFINE Inv == CacheInv /\ NameDecides
<1>1. Init => NameDecides
  <2>1. Init => \A s \in Scanner : scan[s] = Idle
    BY DEF Init
  <2>2. \A f \in File : Idle.found[f] = "none"
    BY DEF Idle
  <2> QED
    BY <2>1, <2>2 DEF NameDecides
<1>2. ASSUME CacheInv, NameDecides, [Next]_vars
      PROVE  NameDecides'
  <2> SUFFICES ASSUME NEW s \in Scanner, NEW f \in File,
                      scan'[s].found[f] # "none", Cardinality(NameMatch[f]) = 1
               PROVE  scan'[s].found[f] \in NameMatch[f]
    BY DEF NameDecides
  <2>1. scan[s] \in Progress /\ scan \in [Scanner -> Progress]
    BY <1>2 DEF CacheInv, TypeOK
  <2>2. CASE scan'[s] = scan[s] \/ scan'[s].found = scan[s].found
    BY <1>2, <2>2 DEF NameDecides
  <2>3. CASE scan'[s] = Idle \/ Begin(s)
    <3>1. scan'[s].found = Idle.found
      BY <2>1, <2>3 DEF Begin, Step, Idle
    <3> QED
      BY <3>1 DEF Idle
  <2>4. CASE Look(s)
    <3> DEFINE r == scan[s]
    <3>0. PICK labels, hints :
            LET what == ClassifyImage(NameMatch[r.file], labels, hints)
            IN Step(s, [r EXCEPT !.found[r.file] = what, !.hash = CachedHash(s),
                 !.pc = IF what \notin Image THEN "file"
                        ELSE IF CachedHash(s) = 0 THEN "hash" ELSE "record"])
      BY <2>4 DEF Look
    <3> DEFINE v == ClassifyImage(NameMatch[r.file], labels, hints)
               found == [r.found EXCEPT ![r.file] = v]
               pos == IF v \notin Image THEN "file"
                      ELSE IF CachedHash(s) = 0 THEN "hash" ELSE "record"
    <3>a. scan'[s] = [r EXCEPT !.found = found, !.hash = CachedHash(s), !.pc = pos]
      BY <2>1, <3>0 DEF Step
    <3> HIDE DEF v, pos, found
    <3>b. scan'[s].found = found
      BY <2>1, <3>a DEF Progress
    <3>1. scan'[s].found = [scan[s].found EXCEPT ![scan[s].file] =
              ClassifyImage(NameMatch[scan[s].file], labels, hints)]
      BY <3>b DEF v, found
    <3>2. NameMatch[f] \in SUBSET Image
      BY DetectorAssumption
    <3>3. CASE scan[s].file = f
      <4>1. ClassifyImage(NameMatch[f], labels, hints) \in NameMatch[f]
        BY <3>2, NameOutweighs
      <4>2. scan[s].found \in [File -> Verdict]
        BY <2>1 DEF Progress
      <4> QED
        BY <3>1, <3>3, <4>1, <4>2
    <3>4. CASE scan[s].file # f
      BY <1>2, <2>1, <3>1, <3>4 DEF Progress, NameDecides
    <3> QED
      BY <3>3, <3>4
  <2>5. CASE \/ Stat(s) \/ OpenFile(s) \/ ReadFile(s) \/ Record(s)
             \/ FileVanished(s) \/ OpenIndex(s) \/ WriteIndex(s)
             \/ Resolve(s) \/ Close(s) \/ Crash(s)
    <3>1. CASE Stat(s) \/ OpenFile(s) \/ ReadFile(s) \/ OpenIndex(s)
                 \/ WriteIndex(s) \/ Resolve(s)
      <4>1. CASE Stat(s) \/ Resolve(s)
        <5>1. \E g \in File :
                \/ scan'[s] = [scan[s] EXCEPT !.pc = "look", !.file = g,
                                  !.todo = @ \ {g}, !.stat = mtime[g]]
                \/ scan'[s] = [scan[s] EXCEPT !.pc = "chosen", !.file = g]
          BY <2>1, <4>1 DEF Stat, Resolve, Step, Present
        <5> QED
          BY <2>1, <2>2, <5>1 DEF Progress
      <4>2. CASE OpenFile(s) \/ ReadFile(s)
        <5>1. \E h :
                \/ scan'[s] = [scan[s] EXCEPT !.pc = "read", !.hash = h]
                \/ scan'[s] = [scan[s] EXCEPT !.pc = "record", !.hash = h]
          BY <2>1, <4>2 DEF OpenFile, ReadFile, Step
        <5> QED
          BY <2>1, <2>2, <5>1 DEF Progress
      <4>3. CASE OpenIndex(s) \/ WriteIndex(s)
        <5>1. \/ scan'[s] = [scan[s] EXCEPT !.pc = "write", !.file = "",
                                !.cached = NoIndex]
              \/ scan'[s] = [scan[s] EXCEPT !.pc = "resolve"]
          BY <2>1, <4>3 DEF OpenIndex, WriteIndex, Step
        <5> QED
          BY <2>1, <2>2, <5>1 DEF Progress
      <4> QED
        BY <3>1, <4>1, <4>2, <4>3
    <3>2. CASE Record(s)
      <4> DEFINE n == [scan[s].next EXCEPT ![scan[s].file] = NewEntry(s)]
                 c == [scan[s].cached EXCEPT ![scan[s].file] = NoEntry]
      <4>1. scan'[s] = [scan[s] EXCEPT !.pc = "file", !.next = n, !.stat = 0,
                          !.hash = 0, !.cached = c]
        BY <2>1, <3>2 DEF Record, Step
      <4> HIDE DEF n, c
      <4>2. scan'[s].found = scan[s].found
        BY <2>1, <4>1 DEF Progress
      <4> QED
        BY <2>2, <4>2
    <3>3. CASE FileVanished(s) \/ Close(s) \/ Crash(s)
      BY <2>1, <2>3, <3>3 DEF FileVanished, Close, Crash, Step
    <3> QED
      BY <2>5, <3>1, <3>2, <3>3
  <2>6. ASSUME NEW t \in Scanner, t # s,
               \/ Begin(t) \/ Stat(t) \/ Look(t) \/ OpenFile(t) \/ ReadFile(t)
               \/ Record(t) \/ FileVanished(t) \/ OpenIndex(t) \/ WriteIndex(t)
               \/ Resolve(t) \/ Close(t) \/ Crash(t)
        PROVE  scan'[s] = scan[s]
    BY <2>1, <2>6 DEF Begin, Stat, Look, OpenFile, ReadFile, Record,
       FileVanished, OpenIndex, WriteIndex, Resolve, Close, Crash, Step
  <2>7. CASE ChangeFile \/ UNCHANGED vars
    BY <2>7, <2>2 DEF ChangeFile, vars
  <2> QED
    BY <1>2, <2>2, <2>3, <2>4, <2>5, <2>6, <2>7 DEF Next, Rest
<1>3. Init => Inv
  BY <1>1, CacheInitially
<1>4. Inv /\ [Next]_vars => Inv'
  BY <1>2, CacheInductive
<1>5. Inv => NameDecides
  OBVIOUS
<1> QED
  BY <1>3, <1>4, <1>5, PTL DEF Spec

-----------------------------------------------------------------------------
(***************************************************************************)
(* Where the event comes from: a handler sets it only behind its write,    *)
(* and the block trusts nothing but the event.                             *)
(***************************************************************************)
EventIsEarned ==
  /\ \A c \in Client : conn[c] = "written" => c \in handed
  /\ fetched => handed # {}
  /\ verdict = "fetched" => fetched

ServerInv == ServerTypeOK /\ EventIsEarned

(* The steps of the with block.                                            *)
LEMMA BlockKeeps == ServerInv /\ Block => ServerInv'
  BY DEF ServerInv, ServerTypeOK, EventIsEarned, Block, Start,
     StartFails, BootInstaller, FetchSeen, FetchTimesOut, Stop, server, clients

(* The steps of one connection's handler and client.                       *)
LEMMA ConnectionKeeps ==
  ASSUME NEW c \in Client, ServerInv,
         Accept(c) \/ Handler(c) \/ Connect(c) \/ Ask(c) \/ BreakOff(c)
  PROVE  ServerInv'
<1>1. CASE Accept(c) \/ Connect(c) \/ Ask(c) \/ BreakOff(c)
  BY <1>1, SMT DEF ServerInv, ServerTypeOK, EventIsEarned, Accept,
     Connect, Ask, BreakOff, server
<1>2. CASE Refuse(c) \/ ReadPayload(c) \/ WriteFails(c) \/ GiveUp(c)
  BY <1>2, SMT DEF ServerInv, ServerTypeOK, EventIsEarned, Refuse,
     ReadPayload, WriteFails, GiveUp, server
<1>3. CASE WritePayload(c)
  BY <1>3, SMT DEF ServerInv, ServerTypeOK, EventIsEarned, WritePayload, server
<1>4. CASE SetEvent(c)
  BY <1>4, SMT DEF ServerInv, ServerTypeOK, EventIsEarned, SetEvent
<1> QED
  BY <1>1, <1>2, <1>3, <1>4 DEF Handler

(* The inductive invariant holds throughout.                               *)
LEMMA ServerAlways == ServerSpec => []ServerInv
<1>1. ServerInit => ServerInv
  BY DEF ServerInit, ServerInv, ServerTypeOK, EventIsEarned
<1>2. ServerInv /\ [ServerNext]_serverVars => ServerInv'
  <2> SUFFICES ASSUME ServerInv, [ServerNext]_serverVars PROVE ServerInv'
    OBVIOUS
  <2>1. CASE FileGoes
    BY <2>1 DEF ServerInv, ServerTypeOK, EventIsEarned, FileGoes, server,
       clients
  <2>2. CASE UNCHANGED serverVars
    BY <2>2 DEF ServerInv, ServerTypeOK, EventIsEarned, serverVars, server,
       clients
  <2> QED
    BY <2>1, <2>2, BlockKeeps, ConnectionKeeps DEF ServerNext, ServerRests
<1> QED
  BY <1>1, <1>2, PTL DEF ServerSpec

(* Every variable keeps its type.                                          *)
THEOREM ServerTypeCorrect == ServerSpec => []ServerTypeOK
<1>1. ServerInv => ServerTypeOK
  BY DEF ServerInv
<1> QED
  BY <1>1, ServerAlways, PTL

(* The Forge goes on only after the file was served, for any clients.      *)
THEOREM ServedBeforeGoingOn == ServerSpec => []FetchedMeansServed
<1>1. ServerInv => FetchedMeansServed
  BY DEF ServerInv, EventIsEarned, FetchedMeansServed
<1> QED
  BY <1>1, ServerAlways, PTL

-----------------------------------------------------------------------------
(***************************************************************************)
(* The manifest, for every profile, number of slots and set of answers.    *)
(***************************************************************************)
LEMMA SlotsAreNumbers == MaxSlots \in Nat /\ MaxTopology \in Nat
BY SlotAssumption DEF MaxTopology

(* What the layout and the validation agree on leaves each adapter its     *)
(* own slot, whether the manifest names the slots or leaves them out.      *)
ManifestShape(m) ==
  /\ Len(m.topology) \in Nat /\ DOMAIN m.topology = 1 .. Len(m.topology)
  /\ m.internet.enabled \in BOOLEAN /\ m.management.enabled \in BOOLEAN

LEMMA AcceptedSlots ==
  ASSUME NEW m, NEW p, ManifestShape(m), Accepts(m, p)
  PROVE  LET t == Len(m.topology)
             c == Count(m.internet.enabled)
         IN  /\ t \in Nat /\ c \in {0, 1}
             /\ t + c <= MaxSlots
             /\ m.management.enabled => t + c + 1 <= MaxSlots
             /\ \A i \in 1 .. t : Given(m.topology[i].slot, i) = i
             /\ m.internet.enabled =>
                  /\ c = 1
                  /\ Given(m.internet.slot, InternetSlot(t, TRUE)) = t + 1
             /\ m.management.enabled =>
                  Given(m.management.slot,
                        ManagementSlot(t, m.internet.enabled, TRUE)) = t + c + 1
<1> DEFINE t == Len(m.topology)
           c == Count(m.internet.enabled)
           d == Count(m.management.enabled)
<1>1. t \in Nat /\ DOMAIN m.topology = 1 .. t
  BY DEF ManifestShape
<1>2. /\ c \in {0, 1} /\ (m.internet.enabled => c = 1)
      /\ d \in {0, 1} /\ (m.management.enabled => d = 1)
  BY DEF Count, ManifestShape
<1>3. t + c + d <= MaxSlots
  BY DEF Accepts, FitsLayout, LayoutFits
<1>4. \A i \in 1 .. t : Given(m.topology[i].slot, i) = i
  BY <1>1 DEF Accepts, ValidTopology, IsSlot, Given
<1>5. m.internet.enabled =>
        Given(m.internet.slot, InternetSlot(t, TRUE)) = t + 1
  BY DEF Accepts, ValidInfrastructure, IsSlot, Given, InternetSlot
<1>6. m.management.enabled =>
        Given(m.management.slot,
              ManagementSlot(t, m.internet.enabled, TRUE)) = t + c + 1
  BY DEF Accepts, ValidInfrastructure, IsSlot, Given, ManagementSlot
<1>7. t + c <= MaxSlots /\ (m.management.enabled => t + c + 1 <= MaxSlots)
  <2> HIDE DEF t, c, d
  <2> QED
    BY <1>1, <1>2, <1>3, SlotsAreNumbers
<1> QED
  BY <1>1, <1>2, <1>4, <1>5, <1>6, <1>7

LEMMA AcceptedNeverCollides ==
  ASSUME NEW m, NEW p, ManifestShape(m), Accepts(m, p)
  PROVE  /\ \A a, b \in Adapters(m) : a[3] = b[3] => a = b
         /\ \A a \in Adapters(m) : a[3] \in Slot
<1> DEFINE t == Len(m.topology)
           c == Count(m.internet.enabled)
           Top == {<<"topology", i, i>> : i \in 1 .. t}
           Out == {<<"internet", 0, t + 1>> : x \in {y \in {1} : m.internet.enabled}}
           Own == {<<"management", 0, t + c + 1>> :
                     x \in {y \in {1} : m.management.enabled}}
<1>1. /\ t \in Nat /\ c \in {0, 1} /\ t + c <= MaxSlots
      /\ m.management.enabled => t + c + 1 <= MaxSlots
      /\ m.internet.enabled => c = 1
  BY AcceptedSlots
<1>2. Adapters(m) = Top \cup Out \cup Own
  <2>1. {<<"topology", i, Given(m.topology[i].slot, i)>> : i \in 1 .. t} = Top
    BY AcceptedSlots
  <2>2. {<<"internet", 0, Given(m.internet.slot, InternetSlot(t, TRUE))>> :
            x \in {y \in {1} : m.internet.enabled}} = Out
    BY AcceptedSlots
  <2>3. {<<"management", 0, Given(m.management.slot,
                   ManagementSlot(t, m.internet.enabled, TRUE))>> :
            x \in {y \in {1} : m.management.enabled}} = Own
    BY AcceptedSlots
  <2> QED
    BY <2>1, <2>2, <2>3 DEF Adapters
<1>3. \A a \in Adapters(m) :
        \/ \E i \in 1 .. t : a = <<"topology", i, i>>
        \/ m.internet.enabled /\ a = <<"internet", 0, t + 1>>
        \/ m.management.enabled /\ a = <<"management", 0, t + c + 1>>
  BY <1>2
<1> HIDE DEF t, c
<1>4. ASSUME NEW a \in Adapters(m), NEW b \in Adapters(m), a[3] = b[3]
      PROVE  a = b
  <2>1. CASE \E i \in 1 .. t : a = <<"topology", i, i>>
    BY <1>1, <1>3, <1>4, <2>1
  <2>2. CASE m.internet.enabled /\ a = <<"internet", 0, t + 1>>
    BY <1>1, <1>3, <1>4, <2>2
  <2>3. CASE m.management.enabled /\ a = <<"management", 0, t + c + 1>>
    BY <1>1, <1>3, <1>4, <2>3
  <2> QED
    BY <1>3, <2>1, <2>2, <2>3
<1>5. ASSUME NEW a \in Adapters(m)
      PROVE  a[3] \in Slot
  <2>1. \A n \in Nat : 1 <= n /\ n <= MaxSlots => n \in Slot
    BY SlotsAreNumbers DEF Slot
  <2>2. CASE \E i \in 1 .. t : a = <<"topology", i, i>>
    BY <1>1, <2>1, <2>2, SlotsAreNumbers
  <2>3. CASE m.internet.enabled /\ a = <<"internet", 0, t + 1>>
    BY <1>1, <2>1, <2>3, SlotsAreNumbers
  <2>4. CASE m.management.enabled /\ a = <<"management", 0, t + c + 1>>
    BY <1>1, <2>1, <2>4, SlotsAreNumbers
  <2> QED
    BY <1>3, <2>2, <2>3, <2>4
<1> QED
  BY <1>4, <1>5

LEMMA InstallerFindsInternet ==
  ASSUME NEW m, NEW p, ManifestShape(m), Accepts(m, p),
         Shape[p].preseed, m.unattended
  PROVE  \E a \in Adapters(m) :
           a[1] = "internet" /\
             InstallerInterface(a[3]) = InstallerInterface(m.internet.slot)
<1>1. m.internet.enabled /\ m.internet.slot \in Slot
  BY DEF Accepts, InstallerResolves
<1>2. m.internet.slot # 0
  BY <1>1, SlotsAreNumbers DEF Slot
<1> DEFINE a == <<"internet", 0, Given(m.internet.slot,
                                       InternetSlot(Len(m.topology), TRUE))>>
<1>3. a \in Adapters(m)
  BY <1>1 DEF Adapters
<1>4. a[1] = "internet" /\ a[3] = m.internet.slot
  BY <1>2 DEF Given
<1> QED
  BY <1>3, <1>4

-----------------------------------------------------------------------------
(* What the questions gathered is fit for a manifest at every step.        *)
AskedInterface ==
  [label : Label, type : {"intnet", "bridged"}, network : Network \cup Adapter,
   ipv4 : AskIpv4]

ManifestPhase ==
  {"hardware", "count", "interfaces", "manifest", "accepted", "refused",
   "stopped"}

QuestionTypes ==
  /\ phase \in ManifestPhase
  /\ profile \in Profile
  /\ hardware \in {Shape[profile].hardware} \cup CustomHardware(profile)
  /\ count \in 0 .. MaxTopology
  /\ topology \in Seq(AskedInterface)
  /\ origin \in {"asked", "written"}

(* No two interfaces repeat one another, and there are never more than     *)
(* were counted.                                                           *)
InterfacesAreFit ==
  /\ Len(topology) <= count
  /\ phase \in {"hardware", "count"} => topology = <<>>
  /\ \A i, j \in DOMAIN topology :
       i # j =>
         /\ topology[i].label # topology[j].label
         /\ topology[i].type = "intnet" /\ topology[j].type = "intnet" =>
              topology[i].network # topology[j].network

(* The manifest is the one built of the answers, or a written one, about   *)
(* which nothing is asked.                                                 *)
ManifestIsBuilt ==
  /\ phase \in {"hardware", "count", "interfaces"} => origin = "asked"
  /\ phase \in {"manifest", "accepted", "refused"} =>
       \/ origin = "asked" /\ manifest = Built /\ Len(topology) = count
       \/ origin = "written" /\ manifest \in Written

AcceptedIsValid == phase = "accepted" => Accepts(manifest, profile)

RefusedIsInvalid == phase = "refused" => ~ Accepts(manifest, profile)

ManifestInv ==
  /\ QuestionTypes
  /\ InterfacesAreFit
  /\ ManifestIsBuilt
  /\ AcceptedIsValid
  /\ RefusedIsInvalid

LEMMA ManifestStarts == ManifestInit => ManifestInv
<1> SUFFICES ASSUME ManifestInit  PROVE ManifestInv
  OBVIOUS
<1> USE DEF ManifestInit
<1>1. QuestionTypes
  BY SlotsAreNumbers DEF QuestionTypes, ManifestPhase
<1>2. InterfacesAreFit
  BY DEF InterfacesAreFit
<1> QED
  BY <1>1, <1>2 DEF ManifestInv, ManifestIsBuilt, AcceptedIsValid,
                    RefusedIsInvalid

(* One round of the interface questions keeps the list fit.                *)
LEMMA RoundKeepsFit ==
  ASSUME ManifestInv, AskInterface
  PROVE  /\ topology' \in Seq(AskedInterface)
         /\ InterfacesAreFit'
<1> USE DEF ManifestInv, QuestionTypes, InterfacesAreFit
<1>1. PICK label \in Label \ Labels(topology), a \in AskAttachment(topology),
           ip \in AskIpv4 :
        topology' = Append(topology,
                      [label |-> label, type |-> a.type, network |-> a.network,
                       ipv4 |-> ip])
  BY DEF AskInterface
<1> DEFINE new == [label |-> label, type |-> a.type, network |-> a.network,
                   ipv4 |-> ip]
           n == Len(topology)
<1>2. /\ a.type \in {"intnet", "bridged"} /\ a.network \in Network \cup Adapter
      /\ a.type = "intnet" => a.network \notin Networks(topology)
  BY DEF AskAttachment
<1>3. new \in AskedInterface
  BY <1>2 DEF AskedInterface
<1>4. /\ new.label \notin Labels(topology)
      /\ new.type = "intnet" => new.network \notin Networks(topology)
  BY <1>2
<1> HIDE DEF new
<1>5. topology' = Append(topology, new)
  BY <1>1 DEF new
<1>6. /\ n \in Nat /\ DOMAIN topology = 1 .. n
      /\ DOMAIN topology' = 1 .. n + 1 /\ Len(topology') = n + 1
      /\ topology'[n + 1] = new
      /\ \A i \in 1 .. n : topology'[i] = topology[i]
  BY <1>3, <1>5
<1>7. topology' \in Seq(AskedInterface)
  BY <1>3, <1>5
<1>8. \A i \in 1 .. n :
        /\ topology[i].label # new.label
        /\ topology[i].type = "intnet" /\ new.type = "intnet" =>
             topology[i].network # new.network
  BY <1>4, <1>6 DEF Labels, Networks
<1> HIDE DEF n
<1>9. \A i, j \in 1 .. n + 1 :
         i # j =>
           /\ topology'[i].label # topology'[j].label
           /\ topology'[i].type = "intnet" /\ topology'[j].type = "intnet" =>
                topology'[i].network # topology'[j].network
  <2> TAKE i \in 1 .. n + 1, j \in 1 .. n + 1
  <2> HAVE i # j
  <2>1. /\ i \in 1 .. n \/ i = n + 1
        /\ j \in 1 .. n \/ j = n + 1
    BY <1>6
  <2>2. CASE i \in 1 .. n /\ j \in 1 .. n
    BY <1>6, <2>2
  <2>3. CASE i \in 1 .. n /\ j = n + 1
    BY <1>6, <1>8, <2>3
  <2>4. CASE j \in 1 .. n /\ i = n + 1
    BY <1>6, <1>8, <2>4
  <2> QED
    BY <2>1, <2>2, <2>3, <2>4
<1>10. Len(topology') <= count'
  <2>1. n < count /\ count' = count
    BY DEF AskInterface, n
  <2> QED
    BY <1>6, <2>1
<1>11. phase' = "interfaces"
  BY DEF AskInterface
<1> QED
  BY <1>6, <1>7, <1>9, <1>10, <1>11

LEMMA ManifestStays ==
  ManifestInv /\ [ManifestNext]_manifestVars => ManifestInv'
<1> SUFFICES ASSUME ManifestInv, [ManifestNext]_manifestVars
             PROVE  ManifestInv'
  OBVIOUS
<1> USE DEF ManifestInv
<1>1. CASE AskHardware
  BY <1>1 DEF AskHardware, QuestionTypes, InterfacesAreFit, ManifestIsBuilt,
              AcceptedIsValid, RefusedIsInvalid, ManifestPhase
<1>2. CASE AskCount
  <2>1. count' \in 0 .. MaxTopology /\ Len(topology) <= count'
    <3>1. PICK least \in 0 .. MaxTopology :
            count' \in AskInt(least, least, MaxTopology)
      BY <1>2 DEF AskCount
    <3>2. count' \in 0 .. MaxTopology
      BY <3>1, SlotsAreNumbers DEF AskInt
    <3>3. topology = <<>>
      BY <1>2 DEF AskCount, InterfacesAreFit
    <3> QED
      BY <3>2, <3>3
  <2> QED
    BY <1>2, <2>1 DEF AskCount, QuestionTypes, InterfacesAreFit,
                      ManifestIsBuilt, AcceptedIsValid, RefusedIsInvalid,
                      ManifestPhase
<1>3. CASE AskInterface
  <2>1. topology' \in Seq(AskedInterface) /\ InterfacesAreFit'
    BY <1>3, RoundKeepsFit
  <2> QED
    BY <1>3, <2>1 DEF AskInterface, QuestionTypes, ManifestIsBuilt,
                      AcceptedIsValid, RefusedIsInvalid, ManifestPhase
<1>4. CASE NoBridgedAdapter
  BY <1>4 DEF NoBridgedAdapter, QuestionTypes, InterfacesAreFit,
              ManifestIsBuilt, AcceptedIsValid, RefusedIsInvalid, ManifestPhase
<1>5. CASE AskInterfacesAgain
  <2>1. topology' = <<>> /\ count' = count /\ count \in Nat
    BY <1>5 DEF AskInterfacesAgain, QuestionTypes
  <2>2. InterfacesAreFit'
    BY <2>1 DEF InterfacesAreFit
  <2>3. topology' \in Seq(AskedInterface)
    BY <2>1
  <2> QED
    BY <1>5, <2>2, <2>3 DEF AskInterfacesAgain, QuestionTypes, ManifestIsBuilt,
                      AcceptedIsValid, RefusedIsInvalid, ManifestPhase
<1>6. CASE BuildManifest
  <2>1. Built' = Built
    BY <1>6 DEF BuildManifest, Built
  <2> QED
    BY <1>6, <2>1 DEF BuildManifest, QuestionTypes, InterfacesAreFit,
                      ManifestIsBuilt, AcceptedIsValid, RefusedIsInvalid,
                      ManifestPhase
<1>7. CASE LoadManifest
  <2>1. Built' = Built
    BY <1>7 DEF LoadManifest, Built
  <2>2. Accepts(manifest, profile)' <=> Accepts(manifest, profile)
    BY <1>7, Zenon DEF LoadManifest
  <2>3. AcceptedIsValid' /\ RefusedIsInvalid'
    BY <1>7, <2>2 DEF LoadManifest, AcceptedIsValid, RefusedIsInvalid
  <2> QED
    BY <1>7, <2>1, <2>3 DEF LoadManifest, QuestionTypes, InterfacesAreFit,
                      ManifestIsBuilt, ManifestPhase
<1>8. CASE UNCHANGED manifestVars
  <2>1. Built' = Built /\ (Accepts(manifest, profile)' <=> Accepts(manifest, profile))
    BY <1>8, Zenon DEF manifestVars, Built
  <2> QED
    BY <1>8, <2>1 DEF manifestVars, QuestionTypes, InterfacesAreFit,
              ManifestIsBuilt, AcceptedIsValid, RefusedIsInvalid, ManifestPhase
<1> QED
  BY <1>1, <1>2, <1>3, <1>4, <1>5, <1>6, <1>7, <1>8 DEF ManifestNext, Done

LEMMA ManifestInductive == ManifestSpec => []ManifestInv
BY ManifestStarts, ManifestStays, PTL DEF ManifestSpec

-----------------------------------------------------------------------------
(* What the questions accept of one field, the validation accepts.         *)
LEMMA AskedHardwareIsValid ==
  ASSUME ProfilesFit, NEW p \in Profile,
         NEW h \in {Shape[p].hardware} \cup CustomHardware(p)
  PROVE  /\ ValidHardware(h)
         /\ \A r \in Resource : h.amount[r] \in Nat /\ h.amount[r] >= Shape[p].least[r]
         /\ Shape[p].firmware \in {"any", h.firmware}
<1>1. CASE h = Shape[p].hardware
  BY <1>1, ShapeAssumption DEF ProfilesFit
<1>2. CASE h \in CustomHardware(p)
  <2>1. PICK a \in [Resource -> UNION {AskAmount(p, r) : r \in Resource}],
             f \in AskFirmware(p), g \in Graphics :
          /\ \A r \in Resource : a[r] \in AskAmount(p, r)
          /\ h = [amount |-> a, firmware |-> f, graphics |-> g]
    BY <1>2 DEF CustomHardware
  <2>2. ASSUME NEW r \in Resource
        PROVE  /\ a[r] \in Nat /\ a[r] >= Shape[p].least[r]
               /\ a[r] = 0 \/ a[r] \in Limit[r].least .. Limit[r].largest
    <3> DEFINE d == Shape[p].hardware.amount[r]
               q == Shape[p].least[r]
               lo == Limit[r].least
               hi == Limit[r].largest
    <3>1. d \in Nat /\ q \in Nat /\ lo \in Nat /\ hi \in Nat
      BY ShapeAssumption
    <3>2. d >= q /\ (d = 0 \/ d \in lo .. hi)
      BY DEF ProfilesFit, ValidHardware
    <3>3. a[r] = d \/ a[r] \in Larger(lo, q) .. hi
      BY <2>1 DEF AskAmount, AskInt
    <3>4. Larger(lo, q) \in Nat /\ Larger(lo, q) >= lo /\ Larger(lo, q) >= q
      BY <3>1 DEF Larger
    <3> HIDE DEF d, q, lo, hi
    <3>5. /\ a[r] \in Nat /\ a[r] >= q
          /\ a[r] = 0 \/ a[r] \in lo .. hi
      BY <3>1, <3>2, <3>3, <3>4
    <3> QED
      BY <3>5 DEF q, lo, hi
  <2>3. f \in Firmware /\ Shape[p].firmware \in {"any", f}
    BY DEF AskFirmware, Firmware, ProfilesFit, ValidHardware
  <2>4. h.amount = a /\ h.firmware = f /\ h.graphics = g
    BY <2>1
  <2>5. ValidHardware(h)
    BY <2>2, <2>3, <2>4 DEF ValidHardware
  <2> QED
    BY <2>2, <2>3, <2>4, <2>5
<1> QED
  BY <1>1, <1>2

LEMMA AskedAddressIsValid ==
  ASSUME NEW ip \in AskIpv4
  PROVE  ValidIpv4(ip)
BY AnswerAssumption DEF AskIpv4, BuildAccepts, ValidIpv4

LEMMA BuiltIsAccepted ==
  ASSUME ProfilesFit, ManifestInv, Len(topology) = count
  PROVE  Accepts(Built, profile)
<1> DEFINE m == Built
           t == Len(topology)
<1>1. /\ m.hardware = hardware /\ m.unattended = TRUE
      /\ m.internet = [enabled |-> TRUE, slot |-> InternetSlot(t, TRUE)]
      /\ m.management = [enabled |-> TRUE, slot |-> ManagementSlot(t, TRUE, TRUE)]
      /\ m.topology = [i \in DOMAIN topology |->
                     [slot |-> i, mac |-> TopologyMac(i),
                      label |-> topology[i].label, type |-> topology[i].type,
                      network |-> topology[i].network,
                      ipv4 |-> topology[i].ipv4]]
  BY DEF Built
<1>2. /\ topology \in Seq(AskedInterface) /\ t \in Nat
      /\ DOMAIN topology = 1 .. t /\ t <= MaxTopology
  BY SlotsAreNumbers DEF ManifestInv, QuestionTypes
<1>3. /\ DOMAIN m.topology = 1 .. t /\ Len(m.topology) = t
      /\ \A i \in 1 .. t :
           /\ m.topology[i].slot = i /\ m.topology[i].mac = i
           /\ m.topology[i].label = topology[i].label
           /\ m.topology[i].type = topology[i].type
           /\ m.topology[i].network = topology[i].network
           /\ m.topology[i].ipv4 = topology[i].ipv4
           /\ topology[i].ipv4 \in AskIpv4
  <2> DEFINE T == [i \in DOMAIN topology |->
                     [slot |-> i, mac |-> TopologyMac(i),
                      label |-> topology[i].label, type |-> topology[i].type,
                      network |-> topology[i].network,
                      ipv4 |-> topology[i].ipv4]]
  <2>1. DOMAIN T = 1 .. t /\ Len(T) = t
    BY <1>2
  <2>2. \A i \in 1 .. t : topology[i] \in AskedInterface
    BY <1>2
  <2>3. \A i \in 1 .. t : topology[i].ipv4 \in AskIpv4
    BY <2>2 DEF AskedInterface
  <2>4. \A i \in 1 .. t :
           /\ T[i].slot = i /\ T[i].mac = i
           /\ T[i].label = topology[i].label
           /\ T[i].type = topology[i].type
           /\ T[i].network = topology[i].network
           /\ T[i].ipv4 = topology[i].ipv4
    BY <1>2 DEF TopologyMac
  <2>5. m.topology = T
    BY <1>1
  <2> HIDE DEF T, m
  <2> QED
    BY <2>1, <2>3, <2>4, <2>5
<1>4. /\ m.internet.enabled = TRUE /\ m.internet.slot = t + 1
      /\ m.management.enabled = TRUE /\ m.management.slot = t + 2
  BY <1>1, <1>2 DEF InternetSlot, ManagementSlot, Count
<1> HIDE DEF m
<1>5. ValidHardware(m.hardware) /\ MeetsProfile(m, profile)
  <2>1. /\ ValidHardware(hardware)
        /\ \A r \in Resource :
             hardware.amount[r] >= Shape[profile].least[r]
        /\ Shape[profile].firmware \in {"any", hardware.firmware}
    BY AskedHardwareIsValid DEF ManifestInv, QuestionTypes
  <2>2. \A r \in Resource :
          Shape[profile].hardware.amount[r] >= Shape[profile].least[r]
    BY DEF ProfilesFit, ManifestInv, QuestionTypes
  <2> QED
    BY <1>1, <2>1, <2>2 DEF MeetsProfile
<1>6. FitsLayout(m)
  BY <1>2, <1>3, <1>4, SlotsAreNumbers
     DEF FitsLayout, LayoutFits, Count, MaxTopology
<1>7. ValidTopology(m)
  <2>1. \A i \in 1 .. t :
          IsSlot(m.topology[i].slot, i) /\ ValidIpv4(m.topology[i].ipv4)
    BY <1>3, AskedAddressIsValid DEF IsSlot
  <2>2. ASSUME NEW i \in 1 .. t, NEW j \in 1 .. t, i # j
        PROVE  ~ Repeats(m.topology[i], m.topology[j])
    BY <1>2, <1>3, <2>2 DEF Repeats, ManifestInv, InterfacesAreFit
  <2> QED
    BY <1>3, <2>1, <2>2 DEF ValidTopology
<1>8. ValidInfrastructure(m)
  BY <1>2, <1>3, <1>4
     DEF ValidInfrastructure, IsSlot, InternetSlot, ManagementSlot, Count
<1>9. InstallerResolves(m, profile)
  BY <1>2, <1>4, SlotsAreNumbers DEF InstallerResolves, Slot, MaxTopology
<1>10. Accepts(m, profile)
  BY <1>5, <1>6, <1>7, <1>8, <1>9 DEF Accepts
<1> QED
  BY <1>10 DEF m

(* What the questions of the Forge accepted, the validation before machine *)
(* creation accepts, if the defaults of the profiles meet the profiles' own *)
(* requirements: the two are separate code for the same rules.             *)
THEOREM AnswersMakeMachines ==
  ProfilesFit => (ManifestSpec => []AnswersSurviveHardwareValidation)
<1> SUFFICES ASSUME ProfilesFit
             PROVE  ManifestSpec => []AnswersSurviveHardwareValidation
  OBVIOUS
<1>1. ManifestInv => AnswersSurviveHardwareValidation
  <2> SUFFICES ASSUME ManifestInv, origin = "asked", phase = "refused"
               PROVE  FALSE
    BY DEF AnswersSurviveHardwareValidation
  <2>1. manifest = Built /\ Len(topology) = count
    BY DEF ManifestInv, ManifestIsBuilt
  <2>2. ~ Accepts(Built, profile)
    BY <2>1 DEF ManifestInv, RefusedIsInvalid
  <2> QED
    BY <2>1, <2>2, BuiltIsAccepted
<1> QED
  BY <1>1, ManifestInductive, PTL

(* Built or written by hand, with slots named or left out: no two adapters *)
(* of an accepted manifest share a slot, none lies beyond the last, and    *)
(* the installer of Kali looks for its network where it is.                *)
THEOREM SlotsAreOwn == ManifestSpec => []AdaptersNeverCollide
<1>1. ManifestInv => AdaptersNeverCollide
  <2> SUFFICES ASSUME ManifestInv, phase = "accepted"
               PROVE  /\ \A a, b \in Adapters(manifest) : a[3] = b[3] => a = b
                      /\ \A a \in Adapters(manifest) : a[3] \in Slot
                      /\ Shape[profile].preseed /\ manifest.unattended =>
                           \E a \in Adapters(manifest) :
                             a[1] = "internet" /\
                               InstallerInterface(a[3])
                                 = InstallerInterface(manifest.internet.slot)
    BY DEF AdaptersNeverCollide
  <2>1. Accepts(manifest, profile)
    BY DEF ManifestInv, AcceptedIsValid
  <2>2. ManifestShape(manifest)
    <3>1. CASE manifest \in Written
      BY <3>1, WrittenAssumption DEF ManifestShape
    <3>2. CASE manifest = Built /\ Len(topology) = count
      <4>1. /\ Len(topology) \in Nat /\ DOMAIN topology = 1 .. Len(topology)
        BY DEF ManifestInv, QuestionTypes
      <4>2. /\ DOMAIN Built.topology = 1 .. Len(topology)
            /\ Len(Built.topology) = Len(topology)
        BY <4>1 DEF Built
      <4>3. Built.internet.enabled = TRUE /\ Built.management.enabled = TRUE
        BY DEF Built
      <4> QED
        <5> DEFINE m == Built
        <5>1. ManifestShape(m)
          <6> HIDE DEF m
          <6>1. /\ Len(m.topology) \in Nat
                /\ DOMAIN m.topology = 1 .. Len(m.topology)
            BY <4>1, <4>2 DEF m
          <6>2. /\ m.internet.enabled \in BOOLEAN
                /\ m.management.enabled \in BOOLEAN
            BY <4>3 DEF m
          <6> QED
            BY <6>1, <6>2 DEF ManifestShape
        <5> QED
          BY <3>2, <5>1
    <3> QED
      BY <3>1, <3>2 DEF ManifestInv, ManifestIsBuilt
  <2> QED
    BY <2>1, <2>2, AcceptedNeverCollides, InstallerFindsInternet
<1> QED
  BY <1>1, ManifestInductive, PTL

=============================================================================
