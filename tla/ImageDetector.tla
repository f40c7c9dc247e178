--------------------------- MODULE ImageDetector ---------------------------
(***************************************************************************)
(* The detection of installation images: a scan of the ISO directory with  *)
(* a hash cache that is read at its start and rewritten at its end, and    *)
(* the choice of a machine's vendor image from it. Each machine creation   *)
(* scans, and so does the detector's own command, while the operator       *)
(* copies, replaces and deletes images. Sizes are left out: two images may *)
(* have the same. Every change of a file gives it a new modification time. *)
(***************************************************************************)
EXTENDS Naturals, FiniteSets

CONSTANTS
  Scanner,
  File,       \* names of ISO files
  Image,      \* image ids of images.yml
  Content,    \* what can be in a file
  NoFile,
  NameMatch,  \* per file: images whose filename patterns match
  LabelMatch, \* per content: images whose patterns match the volume label
  HintMatch,  \* per content: and those that match what libosinfo says
  Media,      \* per image and file: the media type
  Wish,       \* image and media type a manifest may ask for
  MaxChanges, \* bound: changes of files
  MaxScans    \* bound: scans

ASSUME DetectorAssumption ==
  /\ NoFile \notin Content
  /\ IsFiniteSet(Image)
  /\ NameMatch \in [File -> SUBSET Image]
  /\ LabelMatch \in [Content -> SUBSET Image]
  /\ HintMatch \in [Content -> SUBSET Image]
  /\ \A w \in Wish : w.image \in Image
  /\ MaxChanges \in Nat /\ MaxScans \in Nat

VARIABLES
  content,  \* what is in each file
  mtime,    \* the number of the last change of each file
  changes,
  index,    \* the cache file: per file an entry, or torn
  scan,     \* per scanner: its progress
  scans

vars == <<content, mtime, changes, index, scan, scans>>

-----------------------------------------------------------------------------
(* An index entry. Versions begin with one, and the hash of a version is   *)
(* that version; the hash of a file that changed under the reader is Mixed.*)
NoEntry == [stat |-> 0, hash |-> 0]

Mixed == MaxChanges + 1

NoIndex == [f \in File |-> NoEntry]

Torn == [f \in File |-> [stat |-> 0, hash |-> Mixed]]

(* load_existing_cache: what cannot be parsed counts as empty.             *)
Loaded == IF index = Torn THEN NoIndex ELSE index

Idle ==
  [pc |-> "idle", todo |-> {}, file |-> "", stat |-> 0, hash |-> 0,
   cached |-> NoIndex, found |-> [f \in File |-> "none"], next |-> NoIndex]

-----------------------------------------------------------------------------
(* classify_image: the evidence is weighed, and equal best scores decide   *)
(* nothing.                                                                *)
(* The three kinds of evidence count alike.                                *)
WeighMutant(image, names, labels, hints) ==
  (IF image \in names THEN 40 ELSE 0)
    + (IF image \in labels THEN 40 ELSE 0)
    + (IF image \in hints THEN 20 ELSE 0)

Weigh(image, names, labels, hints) ==
  (IF image \in names THEN 100 ELSE 0)
    + (IF image \in labels THEN 40 ELSE 0)
    + (IF image \in hints THEN 20 ELSE 0)

ClassifyImage(names, labels, hints) ==
  LET score  == [i \in Image |-> Weigh(i, names, labels, hints)]
      winner == {i \in Image : score[i] > 0 /\ \A j \in Image : score[j] <= score[i]}
  IN IF winner = {} THEN "unknown"
     ELSE IF Cardinality(winner) > 1 THEN "ambiguous"
     ELSE CHOOSE i \in winner : TRUE

-----------------------------------------------------------------------------
Init ==
  /\ content \in [File -> Content \cup {NoFile}]
  /\ mtime = [f \in File |-> 1]
  /\ changes = 1
  /\ index = NoIndex
  /\ scan = [s \in Scanner |-> Idle]
  /\ scans = 0

Present == {f \in File : content[f] # NoFile}

Step(s, record) == scan' = [scan EXCEPT ![s] = record]

NoChange == UNCHANGED <<content, mtime, changes>>

(* The cache is loaded unless everything is to be hashed again, then the   *)
(* directory listed.                                                       *)
Begin(s) ==
  /\ scan[s].pc = "idle"
  /\ scans < MaxScans
  /\ scans' = scans + 1
  /\ \E cached \in {Loaded, NoIndex} :
       Step(s, [Idle EXCEPT !.pc = "file", !.todo = Present, !.cached = cached])
  /\ UNCHANGED index
  /\ NoChange

Stat(s) ==
  /\ scan[s].pc = "file"
  /\ \E f \in scan[s].todo :
       /\ f \in Present
       /\ Step(s, [scan[s] EXCEPT !.pc = "look", !.file = f,
                     !.todo = @ \ {f}, !.stat = mtime[f]])
  /\ UNCHANGED <<index, scans>>
  /\ NoChange

(* The tools may be missing, fail or take too long; each is evidence less. *)
Answers(f, table) == {{}} \cup {table[c] : c \in {content[f]} \ {NoFile}}

CachedHash(s) ==
  LET entry == scan[s].cached[scan[s].file]
  IN IF entry.stat = scan[s].stat THEN entry.hash ELSE 0

(* Only a recognised file is hashed, unless the cache has its hash.        *)
Look(s) ==
  /\ scan[s].pc = "look"
  /\ LET f == scan[s].file
     IN \E labels \in Answers(f, LabelMatch), hints \in Answers(f, HintMatch) :
          LET verdict == ClassifyImage(NameMatch[f], labels, hints)
          IN Step(s, [scan[s] EXCEPT
               !.found[f] = verdict,
               !.hash = CachedHash(s),
               !.pc = IF verdict \notin Image THEN "file"
                      ELSE IF CachedHash(s) = 0 THEN "hash" ELSE "record"])
  /\ UNCHANGED <<index, scans>>
  /\ NoChange

OpenFile(s) ==
  /\ scan[s].pc = "hash"
  /\ scan[s].file \in Present
  /\ Step(s, [scan[s] EXCEPT !.pc = "read", !.hash = mtime[scan[s].file]])
  /\ UNCHANGED <<index, scans>>
  /\ NoChange

(* A file that was replaced while it was read is hashed in its old version *)
(* if it was moved away, in a mixture if it was overwritten.               *)
ReadFile(s) ==
  /\ scan[s].pc = "read"
  /\ \E hash \in IF mtime[scan[s].file] = scan[s].hash THEN {scan[s].hash}
                 ELSE {scan[s].hash, Mixed} :
       Step(s, [scan[s] EXCEPT !.pc = "record", !.hash = hash])
  /\ UNCHANGED <<index, scans>>
  /\ NoChange

(* The entry carries what a new look at the file says.                     *)
NewEntryMutant(s) == [stat |-> mtime[scan[s].file], hash |-> scan[s].hash]

(* The entry carries the modification time from before the hash.           *)
NewEntry(s) == [stat |-> scan[s].stat, hash |-> scan[s].hash]

Record(s) ==
  /\ scan[s].pc = "record"
  /\ Step(s, [scan[s] EXCEPT !.pc = "file", !.next[scan[s].file] = NewEntry(s),
                !.stat = 0, !.hash = 0, !.cached[scan[s].file] = NoEntry])
  /\ UNCHANGED <<index, scans>>
  /\ NoChange

(* A file that vanished between listing and stat, or stat and hash, ends   *)
(* the scan; the cache stays as it was.                                    *)
FileVanished(s) ==
  /\ \/ scan[s].pc = "file" /\ scan[s].todo \ Present # {}
     \/ scan[s].pc = "hash" /\ scan[s].file \notin Present
  /\ Step(s, Idle)
  /\ UNCHANGED <<index, scans>>
  /\ NoChange

(* The cache is truncated, then written; two scanners that write at the    *)
(* same time, or a full disk, may leave what is no JSON.                   *)
OpenIndex(s) ==
  /\ scan[s].pc = "file" /\ scan[s].todo = {}
  /\ index' = Torn
  /\ Step(s, [scan[s] EXCEPT !.pc = "write", !.file = "", !.cached = NoIndex])
  /\ UNCHANGED scans
  /\ NoChange

WriteIndex(s) ==
  /\ scan[s].pc = "write"
  /\ index' \in {scan[s].next, Torn}
  /\ Step(s, [scan[s] EXCEPT !.pc = "resolve"])
  /\ UNCHANGED scans
  /\ NoChange

-----------------------------------------------------------------------------
(* resolve_iso: exactly one file of the scan is the wanted image.          *)
Candidates(s, wish) ==
  {f \in File : scan[s].found[f] = wish.image /\ Media[wish.image][f] = wish.media}

Resolve(s) ==
  /\ scan[s].pc = "resolve"
  /\ \E wish \in Wish, f \in Present :
       /\ Candidates(s, wish) = {f}
       /\ Step(s, [scan[s] EXCEPT !.pc = "chosen", !.file = f])
  /\ UNCHANGED <<index, scans>>
  /\ NoChange

(* None or several, or the file is gone; or the detector was run by hand.  *)
Close(s) ==
  /\ scan[s].pc \in {"resolve", "chosen"}
  /\ Step(s, Idle)
  /\ UNCHANGED <<index, scans>>
  /\ NoChange

(* The controller is killed, or the power fails.                           *)
Crash(s) ==
  /\ scan[s].pc # "idle"
  /\ Step(s, Idle)
  /\ UNCHANGED <<index, scans>>
  /\ NoChange

-----------------------------------------------------------------------------
(* The operator copies, replaces or deletes an image.                      *)
ChangeFile ==
  /\ changes < MaxChanges
  /\ changes' = changes + 1
  /\ \E f \in File, c \in Content \cup {NoFile} :
       /\ content' = [content EXCEPT ![f] = c]
       /\ mtime' = [mtime EXCEPT ![f] = changes']
  /\ UNCHANGED <<index, scan, scans>>

Rest ==
  /\ scans = MaxScans /\ \A s \in Scanner : scan[s].pc = "idle"
  /\ UNCHANGED vars

Next ==
  \/ \E s \in Scanner :
       \/ Begin(s) \/ Stat(s) \/ Look(s) \/ OpenFile(s) \/ ReadFile(s)
       \/ Record(s) \/ FileVanished(s) \/ OpenIndex(s) \/ WriteIndex(s)
       \/ Resolve(s) \/ Close(s) \/ Crash(s)
  \/ ChangeFile
  \/ Rest

Spec == Init /\ [][Next]_vars

-----------------------------------------------------------------------------
(* An entry of the cache that matches a file has the hash of what is in    *)
(* the file, though files change while they are hashed and a scan that was *)
(* killed or ran beside another left the cache torn: a checksum taken from *)
(* the cache is the checksum of the medium.                                *)
HashIsCurrent ==
  index # Torn =>
    \A f \in File :
      index[f].hash # 0 /\ index[f].stat = mtime[f] => index[f].hash = mtime[f]

(* The name of a file is under the operator's control and decides: a file  *)
(* whose name is that of one image is recognised as this image whatever    *)
(* the tools say of its content, and no machine gets it for another.       *)
NameDecides ==
  \A s \in Scanner, f \in File :
    scan[s].found[f] # "none" /\ Cardinality(NameMatch[f]) = 1 =>
      scan[s].found[f] \in NameMatch[f]

=============================================================================
