-------------------------- MODULE MediaFilesProofs --------------------------
(***************************************************************************)
(* Proofs about MediaFiles.  TypeInv says what is in the variables and     *)
(* whose names it bears; WholeInv where parts of files are; PlayInv where  *)
(* files are as long as nobody has moved one, and what a sweep that found  *)
(* a file missing can still meet there.  Before them, what a step can do   *)
(* to one row, to one file and to one sweep.                               *)
(***************************************************************************)
EXTENDS MediaFiles, TLAPS

(* The originals' places do not change.                                    *)
LayoutOK == layout \in [Media -> Path] /\ \A m \in Media : layout[m].tag = ""

(* A file has the name of the original it was made of, with the tag its    *)
(* audio has; the parts are hidden, or repackaged files.                   *)
FileOK(p) ==
    /\ p \in Path /\ disk[p] \in Content
    /\ p.stem = layout[disk[p].of].stem
    /\ disk[p].audio = IF p.tag = "" THEN "ac3" ELSE "aac"
    /\ disk[p].whole \/ p.tag = "ac3fix" \/ (p.tag = "tr" /\ p.ext = "mp4")
DiskOK == \A p \in DOMAIN disk : FileOK(p)

(* A row, and whatever was read from it, has the name of its own original, *)
(* and a tag only after the first conversion, which sets the audio.        *)
OwnName(m, p) == p \in Path /\ p.stem = layout[m].stem /\ p.tag # "ac3fix"
Unconverted(m) == m \in Rows /\ row[m].audio = "ac3"
RowOK(m) == m \in Rows => OwnName(m, row[m].path)
                          /\ (Unconverted(m) => row[m].path.tag = "")
RowsOK == row \in Table /\ \A m \in Media : RowOK(m)

LoadedOK(s, m) ==
    sweep[s].loaded[m] # None =>
        /\ row[m] # None /\ OwnName(m, sweep[s].loaded[m])
        /\ Unconverted(m) => sweep[s].loaded[m].tag = ""
ChangeOK(s, m) ==
    sweep[s].change[m] # None =>
        /\ sweep[s].loaded[m] # None
        /\ sweep[s].change[m] # Gone => SameName(sweep[s].change[m], sweep[s].loaded[m])
SweepsOK == sweep \in [Sweeps -> Sweeping]
            /\ \A s \in Sweeps, m \in Media : LoadedOK(s, m) /\ ChangeOK(s, m)

(* What a reconcile has written is its own until it commits.               *)
LocksOK ==
    \A s \in Sweeps, m \in Media : LockedBy(s, m) =>
        /\ sweep[s].change[m] # Gone => m \in Rows
        /\ \A r \in Sweeps \ {s} : ~LockedBy(r, m)

AddingOK == adding # None =>
    /\ adding \in Insert /\ row[adding.media] = None
    /\ OwnName(adding.media, adding.path) /\ adding.path.tag = ""

(* The transcode job: the rows it has yet to look at, the file it is at.   *)
AtFile == tr.pc \notin {"idle", "loop"}
Encoding == tr.pc \in {"encode", "commit"}
Remuxing == tr.pc \in {"remux", "remuxing", "swap", "commitWeb"}
TodoOK ==
    \A m \in tr.todo :
       /\ row[m] # None
       /\ tr.snapshot # None => m \in RowsOf(tr.snapshot) /\ OwnName(m, tr.snapshot[m].path)
FileAtOK ==
    AtFile => /\ tr.media \in Media /\ row[tr.media] # None
              /\ OwnName(tr.media, tr.path)
              /\ Remuxing => ~Unconverted(tr.media)
SourceOK ==
    tr.pc \in {"encode", "remuxing"} =>
        tr.source \in Content /\ tr.source.whole /\ tr.path.stem = layout[tr.source.of].stem
TagsOK ==
    /\ Encoding => tr.path.tag = ""
    /\ Remuxing => tr.path.tag = "tr" /\ tr.snapshot = None
    /\ Remuxing /\ tr.pc # "remux" => tr.path.ext = "mkv"
    /\ tr.pc = "remuxing" => tr.source.audio = "aac"
TranscodeOK == tr \in Transcoding /\ TodoOK /\ FileAtOK /\ SourceOK /\ TagsOK

SetsOK == /\ editions \subseteq Editions /\ flagged \subseteq Films
          /\ \A p \in known : p \in Path

TypeInv == /\ LayoutOK /\ DiskOK /\ RowsOK /\ SweepsOK /\ LocksOK
           /\ AddingOK /\ TranscodeOK /\ SetsOK

(***************************************************************************)
(* Parts.  Current: the row of m was not given back an earlier name.       *)
(***************************************************************************)
Current(m) == m \in Rows \ reverted /\ ~Clash(m)
PartOf(m, q) == /\ q \in DOMAIN disk /\ q.tag = "tr" /\ ~disk[q].whole
                /\ q.stem = layout[m].stem

(* A part is left behind only where the row has the name before it.        *)
PartsOK == \A m \in Media : \A q \in DOMAIN disk : PartOf(m, q) /\ ~Clash(m) =>
    /\ row[m] # None
    /\ m \in Rows \ reverted => row[m].path.tag = "tr" /\ row[m].path.ext = "mkv"

(* The row of the file the job is at has the name the job knows, and so    *)
(* have the rows it will come to.                                          *)
NamesOK ==
    /\ AtFile /\ tr.media \in Rows \ reverted => SameName(row[tr.media].path, tr.path)
    /\ \A m \in tr.todo : tr.snapshot # None /\ m \in Rows \ reverted =>
                             SameName(row[m].path, tr.snapshot[m].path)
NoPartsOK ==
    Remuxing /\ Current(tr.media) =>
        \A q \in DOMAIN disk : PartOf(tr.media, q) => tr.pc = "remuxing" /\ q = Web(tr.path)
WholeInv == PartsOK /\ NamesOK /\ NoPartsOK

(***************************************************************************)
(* Places, as long as nobody has moved a file.                             *)
(***************************************************************************)
(* In the folder of m's original.                                          *)
Beside(p, m) == p.root = layout[m].root /\ p.folder = layout[m].folder
                /\ (p.tag = "" => p.ext = layout[m].ext)

FilesBeside == \A p \in DOMAIN disk : Beside(p, disk[p].of)
RowBeside(m) == m \in Rows /\ row[m].path.tag = "tr" => Beside(row[m].path, m)
LoadedBeside(s, m) ==
    /\ sweep[s].loaded[m] # None /\ sweep[s].loaded[m].tag = "tr" => Beside(sweep[s].loaded[m], m)
    /\ sweep[s].change[m] \notin {None, Gone} => sweep[s].change[m] = layout[m]
JobBeside == AtFile /\ ~Clash(tr.media) => Beside(tr.path, tr.media)
SourceBeside == tr.pc \in {"encode", "remuxing"} => Beside(tr.path, tr.source.of)
PlacesInv ==
    ~moved => /\ FilesBeside /\ JobBeside /\ SourceBeside
              /\ \A m \in Media : ~Clash(m) =>
                    RowBeside(m) /\ \A s \in Sweeps : LoadedBeside(s, m)

(* What the transcode job is about to commit is there.                     *)
Made(m, p) == IsFile(p) /\ disk[p].of = m /\ disk[p].whole /\ disk[p].audio = "aac"
MadeInv ==
    ~moved /\ AtFile /\ ~Clash(tr.media) =>
      /\ tr.pc = "commit" => Made(tr.media, Converted(tr.path))
      /\ tr.pc \in {"swap", "commitWeb"} => Made(tr.media, Web(tr.path))

(* How far along its life a row with this path is: at the original, at the *)
(* converted file, at the repackaged one.                                  *)
Stage(p) == IF p.tag = "" THEN 0 ELSE IF p.ext = "mkv" THEN 1 ELSE 2
(* The original is there until a person may ask for its deletion.          *)
OriginalNeeded(m) == row[m] = None \/ (m \in Rows \ reverted /\ row[m].path.tag = "")
OriginalsInv ==
    ~moved => \A m \in Media : ~Clash(m) /\ OriginalNeeded(m) =>
       /\ IsFile(layout[m])
       /\ \A s \in Sweeps : sweep[s].loaded[m] = layout[m] => sweep[s].change[m] = None

(* No sweep knows a later path than the row has.                           *)
StagesInv ==
    \A s \in Sweeps, m \in Media : Current(m) /\ sweep[s].loaded[m] # None =>
       Stage(sweep[s].loaded[m]) <= Stage(row[m].path)
(* A sweep wants to change a row it has as it is only if its file is gone. *)
MissingInv ==
    ~moved => \A s \in Sweeps, m \in Media :
       Current(m) /\ sweep[s].change[m] # None /\ sweep[s].loaded[m] = row[m].path =>
          ~IsFile(row[m].path)
PlayInv == PlacesInv /\ MadeInv /\ OriginalsInv /\ StagesInv /\ MissingInv

-----------------------------------------------------------------------------
(* Names.                                                                  *)

LEMMA Named ==
    ASSUME NEW p \in Path
    PROVE  /\ Temp(p) \in Path /\ Temp(p).tag = "ac3fix" /\ Temp(p).stem = p.stem
           /\ Converted(p) \in Path /\ Converted(p).tag = "tr"
           /\ Converted(p).stem = p.stem /\ Converted(p).ext = p.ext
           /\ Converted(p).root = p.root /\ Converted(p).folder = p.folder
           /\ Web(p) \in Path /\ Web(p).tag = "tr" /\ Web(p).ext = "mp4"
           /\ Web(p).stem = p.stem /\ Web(p).root = p.root /\ Web(p).folder = p.folder
           /\ Temp(p).root = p.root /\ Temp(p).folder = p.folder
  BY DEF Path, Temp, Converted, Web

LEMMA SamePath ==
    ASSUME NEW p \in Path, NEW q \in Path, SameName(p, q),
           p.root = q.root, p.folder = q.folder
    PROVE  p = q
<1> DEFINE fields == {"root", "folder", "stem", "tag", "ext"}
<1>1. p = [f \in fields |-> p[f]] /\ q = [f \in fields |-> q[f]]
  BY DEF Path
<1>2. \A f \in fields : p[f] = q[f]
  BY DEF SameName
<1> QED
  BY <1>1, <1>2

(* A file that is moved keeps its name.                                    *)
LEMMA Moved ==
    ASSUME NEW p \in Path
    PROVE  /\ [p EXCEPT !.root = "elsewhere"] \in Path
           /\ SameName([p EXCEPT !.root = "elsewhere"], p)
           /\ \A d \in Folders : [p EXCEPT !.folder = d] \in Path
                                 /\ SameName([p EXCEPT !.folder = d], p)
  BY DEF Path, SameName

LEMMA Audio ==
    ASSUME NEW c \in Content
    PROVE  /\ [c EXCEPT !.audio = "aac"] \in Content
           /\ [c EXCEPT !.audio = "aac"].of = c.of
           /\ [c EXCEPT !.audio = "aac"].whole = c.whole
           /\ [c EXCEPT !.audio = "aac"].audio = "aac"
           /\ [c EXCEPT !.whole = FALSE, !.audio = "aac"] \in Content
           /\ [c EXCEPT !.whole = FALSE, !.audio = "aac"].of = c.of
           /\ [c EXCEPT !.whole = FALSE, !.audio = "aac"].audio = "aac"
           /\ [c EXCEPT !.whole = FALSE] \in Content
           /\ [c EXCEPT !.whole = FALSE].of = c.of
           /\ [c EXCEPT !.whole = FALSE].whole = FALSE
           /\ [c EXCEPT !.whole = FALSE].audio = c.audio
  BY DEF Content

LEMMA Repathed ==
    ASSUME NEW r \in Row, NEW p \in Path
    PROVE  /\ [r EXCEPT !.path = p] \in Row
           /\ [r EXCEPT !.path = p].path = p
           /\ [r EXCEPT !.path = p].audio = r.audio
  BY DEF Row

LEMMA Fresh ==
    ASSUME NEW p \in Path, NEW a \in {"ac3", "aac"}
    PROVE  /\ [path |-> p, audio |-> a] \in Row
           /\ [path |-> p, audio |-> a].path = p
           /\ [path |-> p, audio |-> a].audio = a
  BY DEF Row

(* What is found for a path is a file and has its name.                    *)
LEMMA Found ==
    ASSUME NEW p, Resolve(p) # None
    PROVE  Resolve(p) \in DOMAIN disk /\ SameName(p, Resolve(p))
<1> DEFINE matches == {q \in DOMAIN disk : q.root = "library" /\ SameName(p, q)}
           found == IF Cardinality(matches) = 1 THEN matches
                    ELSE {q \in matches : q.folder = p.folder}
<1>1. found \subseteq matches
  OBVIOUS
<1>2. found # {}
  BY DEF Resolve
<1>3. (CHOOSE q \in found : TRUE) \in found
  BY <1>2
<1>4. Resolve(p) = CHOOSE q \in found : TRUE
  BY <1>2 DEF Resolve
<1> QED
  BY <1>1, <1>3, <1>4

LEMMA RowsAre ==
    ASSUME row \in Table
    PROVE  \A m \in Rows : m \in Media /\ row[m] \in Row /\ row[m].path \in Path
                           /\ row[m] # None /\ row[m] # Gone
  BY NoneAssumption DEF Rows, RowsOf, Table, Row

-----------------------------------------------------------------------------
(* What a step does to a row.                                              *)
Rewritten(s, m) ==
    /\ Save(s) \/ Cascade(s)
    /\ m \in Rows /\ sweep[s].change[m] \in Path
    /\ row'[m] = [row[m] EXCEPT !.path = sweep[s].change[m]]
RowStep(m) ==
    \/ row'[m] = row[m]
    \/ row[m] # None /\ row'[m] = Gone
    \/ /\ CommitConverted /\ m = tr.media /\ m \in Rows
       /\ row'[m] = [path |-> Converted(tr.path), audio |-> "aac"]
    \/ /\ CommitWeb /\ m = tr.media /\ m \in Rows
       /\ row'[m] = [row[m] EXCEPT !.path = Web(tr.path)]
    \/ /\ ImportCommit /\ m = adding.media
       /\ row'[m] = [path |-> adding.path, audio |-> "ac3"]
    \/ \E s \in Sweeps : Rewritten(s, m)

LEMMA WithoutRows ==
    ASSUME NEW table \in Table, NEW ms
    PROVE  /\ Without(table, ms) \in Table
           /\ \A m \in Media : \/ Without(table, ms)[m] = table[m]
                               \/ table[m] # None /\ Without(table, ms)[m] = Gone
           /\ \A m \in Media \ ms : Without(table, ms)[m] = table[m]
<1>1. Without(table, ms) = [m \in Media |-> IF m \in ms /\ table[m] # None THEN Gone
                                          ELSE table[m]]
  BY DEF Without
<1>2. \A m \in Media : table[m] \in Row \cup {None, Gone}
  BY DEF Table
<1>3. \A m \in Media : Without(table, ms)[m] =
          IF m \in ms /\ table[m] # None THEN Gone ELSE table[m]
  BY <1>1
<1>4. Without(table, ms) \in Table
  BY <1>1, <1>2 DEF Table
<1>5. \A m \in Media : \/ Without(table, ms)[m] = table[m]
                       \/ table[m] # None /\ Without(table, ms)[m] = Gone
  BY <1>3
<1> QED
  BY <1>3, <1>4, <1>5

(* No row has a temporary name, so that the clean-up finds nothing.        *)
LEMMA NoOrphans ==
    ASSUME TypeInv, StartTranscode
    PROVE  /\ row' = row /\ tr' = [NotTranscoding EXCEPT !.pc = "loop", !.snapshot = row,
                                                         !.todo = Rows]
           /\ DOMAIN disk' = DOMAIN disk /\ \A p \in DOMAIN disk : disk'[p] = disk[p]
<1>1. {m \in Rows : row[m].path.tag = "ac3fix"} = {}
  BY DEF TypeInv, RowsOK, RowOK, OwnName, Rows, RowsOf
<1>2. Without(row, {}) = row
  BY DEF TypeInv, RowsOK, Table, Without
<1>3. DOMAIN disk' = DOMAIN disk /\ \A p \in DOMAIN disk : disk'[p] = disk[p]
  BY <1>1 DEF StartTranscode, Drop
<1> QED
  BY <1>1, <1>2, <1>3 DEF StartTranscode, Rows

(* The rows a sweep writes exist: reconcile has them locked.               *)
LEMMA WrittenRows ==
    ASSUME TypeInv, NEW s \in Sweeps,
           sweep[s].pc = "flushed" \/ CanWrite(s)
    PROVE  /\ Written(s) \in Table
           /\ \A m \in Media :
                 \/ Written(s)[m] = row[m]
                 \/ row[m] # None /\ Written(s)[m] = Gone
                 \/ /\ m \in Rows /\ sweep[s].change[m] \in Path
                    /\ Written(s)[m] = [row[m] EXCEPT !.path = sweep[s].change[m]]
<1> DEFINE w(m) == Written(s)[m]
<1>1. \A m \in Media : sweep[s].change[m] \in Path \cup {None, Gone}
  BY DEF TypeInv, SweepsOK, Sweeping
<1>2. \A m \in Media : sweep[s].change[m] \notin {None, Gone} => m \in Rows
  BY DEF TypeInv, LocksOK, LockedBy, CanWrite, Changed, Deleted
<1>3. \A m \in Media : sweep[s].change[m] # None => row[m] # None
  BY DEF TypeInv, SweepsOK, ChangeOK, LoadedOK
<1>4. ASSUME NEW m \in Media
      PROVE  /\ w(m) \in Row \cup {None, Gone}
             /\ \/ w(m) = row[m]
                \/ row[m] # None /\ w(m) = Gone
                \/ /\ m \in Rows /\ sweep[s].change[m] \in Path
                   /\ w(m) = [row[m] EXCEPT !.path = sweep[s].change[m]]
  <2>1. row[m] \in Row \cup {None, Gone}
    BY DEF TypeInv, RowsOK, Table
  <2>2. w(m) = IF sweep[s].change[m] = Gone THEN Gone
               ELSE IF sweep[s].change[m] # None
                    THEN [row[m] EXCEPT !.path = sweep[s].change[m]] ELSE row[m]
    BY NoneAssumption DEF Written, Deleted, Changed
  <2>3. CASE sweep[s].change[m] \in {None, Gone}
    BY <1>3, <2>1, <2>2, <2>3, NoneAssumption
  <2>4. CASE sweep[s].change[m] \notin {None, Gone}
    <3>1. m \in Rows /\ row[m] \in Row /\ sweep[s].change[m] \in Path
      BY <1>1, <1>2, <2>4, RowsAre DEF TypeInv, RowsOK
    <3> QED
      BY <2>2, <2>4, <3>1, Repathed
  <2> QED
    BY <2>3, <2>4
<1>5. Written(s) = [m \in Media |-> w(m)]
  BY DEF Written
<1> QED
  BY <1>4, <1>5 DEF Table

LEMMA RowEffect ==
    ASSUME TypeInv, Next
    PROVE  row' \in Table /\ \A m \in Media : RowStep(m)
<1> USE DEF TypeInv, RowsOK
<1>1. ASSUME row' = row
      PROVE  row' \in Table /\ \A m \in Media : RowStep(m)
  BY <1>1 DEF RowStep
<1>2. ASSUME NEW ms, row' = Without(row, ms)
      PROVE  row' \in Table /\ \A m \in Media : RowStep(m)
  BY <1>2, WithoutRows DEF RowStep
<1>3. CASE StartTranscode
  BY <1>1, <1>3, NoOrphans
<1>4. CASE CommitConverted
  <2>1. tr.media \in Rows /\ tr.path \in Path
    BY <1>4 DEF CommitConverted, CanUpdate, TranscodeOK, FileAtOK, AtFile, OwnName
  <2>2. [path |-> Converted(tr.path), audio |-> "aac"] \in Row
    BY <2>1, Named, Fresh
  <2> QED
    BY <1>4, <2>1, <2>2 DEF CommitConverted, RowStep, Table
<1>5. CASE CommitWeb
  <2>1. tr.media \in Rows /\ tr.path \in Path /\ row[tr.media] \in Row
    BY <1>5, RowsAre DEF CommitWeb, CanUpdate, TranscodeOK, FileAtOK, AtFile, OwnName
  <2>2. [row[tr.media] EXCEPT !.path = Web(tr.path)] \in Row
    BY <2>1, Named, Repathed
  <2>3. row' = [row EXCEPT ![tr.media] = [row[tr.media] EXCEPT !.path = Web(tr.path)]]
    BY <1>5 DEF CommitWeb
  <2> QED
    BY <1>5, <2>1, <2>2, <2>3 DEF RowStep, Table
<1>6. CASE TranscodeStep
  BY <1>1, <1>4, <1>5, <1>6
     DEF TranscodeStep, OnlyTr, db, EndTranscode, TranscodeLosesRow, SkipFile, Encode, Encoded,
         EncodeFails, EncodeTimesOut, TranscodeCommitFails, Remux, Remuxed, RemuxFails, Swap
<1>7. ASSUME NEW s \in Sweeps, Stream(s) \/ Reindex(s) \/ Reconcile(s) \/ SweepStep(s)
      PROVE  row' \in Table /\ \A m \in Media : RowStep(m)
  <2>1. CASE Stream(s) \/ Reindex(s) \/ Reconcile(s) \/ Look(s) \/ Flush(s) \/ SweepFails(s)
    BY <1>1, <2>1 DEF Stream, Reindex, Reconcile, Load, Look, Flush, SweepFails, db
  <2>2. CASE Save(s)
    BY <2>2, WrittenRows DEF Save, RowStep, Rewritten
  <2>3. CASE Cascade(s)
    <3> DEFINE es == {m \in Media : EditionOf[m] \in sweep[s].empty}
    <3>1. row' = Without(Written(s), es) /\ sweep[s].pc = "flushed"
      BY <2>3 DEF Cascade
    <3>2. Written(s) \in Table
      BY <3>1, WrittenRows
    <3> HIDE DEF es
    <3>3. row' \in Table
      BY <3>1, <3>2, WithoutRows
    <3>4. ASSUME NEW m \in Media
          PROVE  RowStep(m)
      <4>1. row'[m] = Written(s)[m] \/ (Written(s)[m] # None /\ row'[m] = Gone)
        BY <3>1, <3>2, WithoutRows
      <4>2. Written(s)[m] # None => row[m] # None
        BY <3>1, WrittenRows, RowsAre
      <4> QED
        BY <2>3, <3>1, <4>1, <4>2, WrittenRows DEF RowStep, Rewritten
    <3> QED
      BY <3>3, <3>4
  <2> QED
    BY <1>7, <2>1, <2>2, <2>3 DEF SweepStep
<1>8. CASE ImportCommit
  <2>1. adding.media \in Media /\ adding.path \in Path
    BY <1>8 DEF ImportCommit, AddingOK, Insert
  <2>2. [path |-> adding.path, audio |-> "ac3"] \in Row
    BY <2>1, Fresh
  <2> QED
    BY <1>8, <2>1, <2>2 DEF ImportCommit, RowStep, Table
<1>9. ASSUME NEW p, ImportInsert(p) \/ ImportDuplicate(p)
      PROVE  row' \in Table /\ \A m \in Media : RowStep(m)
  BY <1>1, <1>9 DEF ImportInsert, ImportDuplicate, db
<1>10. CASE AdminStep
  BY <1>1, <1>2, <1>10 DEF AdminStep, DeleteMedia, ResolveFilm, KeepEdition, DeleteOriginal
<1>11. CASE People \/ Crash
  BY <1>1, <1>11 DEF People, MoveFile, Crash, db
<1> QED
  BY <1>3, <1>6, <1>7, <1>8, <1>9, <1>10, <1>11 DEF Next

-----------------------------------------------------------------------------
(* What a step does to a file that is there after it, and to one that was. *)
FileStep(p) ==
    \/ p \in DOMAIN disk /\ disk'[p] = disk[p]
    \/ /\ Encode /\ tr'.path \in DOMAIN disk /\ p = Temp(tr'.path)
       /\ disk'[p] = [disk[tr'.path] EXCEPT !.whole = FALSE, !.audio = "aac"]
    \/ /\ Encoded /\ p = Converted(tr.path)
       /\ disk'[p] = [tr.source EXCEPT !.audio = "aac"]
    \/ /\ Remux /\ tr.path \in DOMAIN disk /\ Web(tr.path) # tr.path /\ p = Web(tr.path)
       /\ disk'[p] = [disk[tr.path] EXCEPT !.whole = FALSE]
    \/ Remuxed /\ p = Web(tr.path) /\ disk'[p] = tr.source
    \/ /\ People /\ moved'
       /\ \E q \in DOMAIN disk : /\ disk[q].whole /\ q.tag # "ac3fix"
                                 /\ p \in Path /\ SameName(p, q) /\ disk'[p] = disk[q]
FileLost(p) ==
    \/ p.tag = "ac3fix"
    \/ Encoded /\ p = Converted(tr.path)
    \/ Remux /\ Web(tr.path) # tr.path /\ p = Web(tr.path)
    \/ (Remuxed \/ RemuxFails) /\ p = Web(tr.path)
    \/ Swap /\ p = tr.path
    \/ DeleteOriginal(p)
    \/ People

Kept(p) == p \in DOMAIN disk' /\ disk'[p] = disk[p]
FilesStep == /\ \A p \in DOMAIN disk' : FileStep(p)
             /\ \A p \in DOMAIN disk : Kept(p) \/ FileLost(p)

LEMMA PutEffect ==
    ASSUME NEW p, NEW c, disk' = Put(disk, p, c)
    PROVE  /\ disk'[p] = c
           /\ \A q \in DOMAIN disk' : q = p \/ (q \in DOMAIN disk /\ disk'[q] = disk[q])
           /\ \A q \in DOMAIN disk : q = p \/ Kept(q)
  BY DEF Put, Kept

LEMMA DropEffect ==
    ASSUME NEW ps, disk' = Drop(disk, ps)
    PROVE  /\ \A q \in DOMAIN disk' : q \in DOMAIN disk /\ disk'[q] = disk[q]
           /\ \A q \in DOMAIN disk : q \in ps \/ Kept(q)
  BY DEF Drop, Kept

LEMMA RenameEffect ==
    ASSUME NEW p, NEW q, NEW c, disk' = Put(Drop(disk, {p}), q, c)
    PROVE  /\ disk'[q] = c
           /\ \A o \in DOMAIN disk' : o = q \/ (o \in DOMAIN disk /\ disk'[o] = disk[o])
           /\ \A o \in DOMAIN disk : o = q \/ o = p \/ Kept(o)
  BY DEF Put, Drop, Kept

LEMMA FileEffect ==
    ASSUME TypeInv, Next
    PROVE  FilesStep
<1>1. ASSUME disk' = disk
      PROVE  FilesStep
  BY <1>1 DEF FileStep, FilesStep, Kept
<1>2. \A p \in DOMAIN disk : p \in Path /\ disk[p] \in Content
  BY DEF TypeInv, DiskOK, FileOK
<1>3. CASE StartTranscode
  BY <1>3, NoOrphans DEF FileStep, FilesStep, Kept
<1>4. AtFile => tr.path \in Path
  BY DEF TypeInv, TranscodeOK, FileAtOK, OwnName
<1>5. CASE Encode
  <2>1. PICK m \in tr.todo :
           LET p == Seen(m).path IN
              /\ IsFile(p)
              /\ disk' = Put(disk, Temp(p), [disk[p] EXCEPT !.whole = FALSE, !.audio = "aac"])
              /\ tr' = [tr EXCEPT !.pc = "encode", !.todo = @ \ {m}, !.media = m,
                                  !.path = p, !.source = disk[p]]
    BY <1>5 DEF Encode
  <2>2. tr'.path = Seen(m).path /\ tr'.path \in DOMAIN disk
    BY <2>1 DEF IsFile, TypeInv, TranscodeOK, Transcoding
  <2>3. disk' = Put(disk, Temp(tr'.path),
                    [disk[tr'.path] EXCEPT !.whole = FALSE, !.audio = "aac"])
    BY <2>1, <2>2
  <2>4. Temp(tr'.path).tag = "ac3fix"
    BY <1>2, <2>2, Named
  <2> QED
    BY <1>5, <2>2, <2>3, <2>4, PutEffect DEF FileStep, FilesStep, FileLost
<1>6. CASE EncodeFails \/ EncodeTimesOut
  <2>1. disk' = Drop(disk, {Temp(tr.path)}) /\ AtFile
    BY <1>6 DEF EncodeFails, EncodeTimesOut, AtFile
  <2>2. Temp(tr.path).tag = "ac3fix"
    BY <1>4, <2>1, Named
  <2> QED
    BY <2>1, <2>2, DropEffect DEF FileStep, FilesStep, FileLost
<1>7. CASE Encoded
  <2> DEFINE new == [tr.source EXCEPT !.audio = "aac"]
  <2>1. disk' = Put(Drop(disk, {Temp(tr.path)}), Converted(tr.path), new) /\ AtFile
    BY <1>7 DEF Encoded, AtFile
  <2>2. Temp(tr.path).tag = "ac3fix"
    BY <1>4, <2>1, Named
  <2>3. /\ disk'[Converted(tr.path)] = new
        /\ \A o \in DOMAIN disk' :
              o = Converted(tr.path) \/ (o \in DOMAIN disk /\ disk'[o] = disk[o])
        /\ \A o \in DOMAIN disk : o = Converted(tr.path) \/ o = Temp(tr.path) \/ Kept(o)
    BY <2>1, RenameEffect
  <2>4. \A o \in DOMAIN disk' : FileStep(o)
    BY <1>7, <2>3 DEF FileStep
  <2> QED
    BY <1>7, <2>2, <2>3, <2>4 DEF FilesStep, FileLost
<1>8. CASE Remux
  <2>1. CASE Web(tr.path) # tr.path /\ IsFile(tr.path)
    <3>1. disk' = Put(disk, Web(tr.path), [disk[tr.path] EXCEPT !.whole = FALSE])
      BY <1>8, <2>1 DEF Remux
    <3> QED
      BY <1>8, <2>1, <3>1, PutEffect DEF FileStep, FilesStep, FileLost, IsFile
  <2>2. CASE ~(Web(tr.path) # tr.path /\ IsFile(tr.path))
    BY <1>1, <1>8, <2>2 DEF Remux
  <2> QED
    BY <2>1, <2>2
<1>9. CASE Remuxed
  <2>1. disk' = Put(disk, Web(tr.path), tr.source)
    BY <1>9 DEF Remuxed
  <2> QED
    BY <1>9, <2>1, PutEffect DEF FileStep, FilesStep, FileLost
<1>10. CASE RemuxFails
  <2>1. PICK left \in SUBSET {Web(tr.path)} : disk' = Drop(disk, left)
    BY <1>10 DEF RemuxFails
  <2> QED
    BY <1>10, <2>1, DropEffect DEF FileStep, FilesStep, FileLost
<1>11. CASE Swap
  <2>1. disk' = Drop(disk, {tr.path})
    BY <1>11 DEF Swap
  <2> QED
    BY <1>11, <2>1, DropEffect DEF FileStep, FilesStep, FileLost
<1>12. CASE TranscodeStep
  BY <1>1, <1>5, <1>6, <1>7, <1>8, <1>9, <1>10, <1>11, <1>12
     DEF TranscodeStep, EndTranscode, TranscodeLosesRow, SkipFile, CommitConverted,
         TranscodeCommitFails, CommitWeb
<1>13. ASSUME NEW p, DeleteOriginal(p)
       PROVE  FilesStep
  <2>1. disk' = Drop(disk, {p})
    BY <1>13 DEF DeleteOriginal
  <2> QED
    BY <1>13, <2>1, DropEffect DEF FileStep, FilesStep, FileLost
<1>14. CASE AdminStep
  BY <1>1, <1>13, <1>14 DEF AdminStep, DeleteMedia, ResolveFilm, KeepEdition
<1>15. CASE People
  <2>1. PICK p \in DOMAIN disk : \/ MoveFile(p, [p EXCEPT !.root = "elsewhere"])
                                 \/ \E d \in Folders : MoveFile(p, [p EXCEPT !.folder = d])
    BY <1>15 DEF People
  <2>2. PICK q : MoveFile(p, q) /\ q \in Path /\ SameName(q, p)
    BY <1>2, <2>1, Moved
  <2>3. disk' = Put(Drop(disk, {p}), q, disk[p]) /\ moved' /\ disk[p].whole /\ p.tag # "ac3fix"
    BY <2>2 DEF MoveFile
  <2>4. /\ disk'[q] = disk[p]
        /\ \A o \in DOMAIN disk' : o = q \/ (o \in DOMAIN disk /\ disk'[o] = disk[o])
    BY <2>3, RenameEffect
  <2>5. FileStep(q)
    BY <1>15, <2>2, <2>3, <2>4 DEF FileStep
  <2> QED
    BY <1>15, <2>4, <2>5 DEF FileStep, FilesStep, FileLost
<1>16. CASE \E s \in Sweeps : Stream(s) \/ Reindex(s) \/ Reconcile(s) \/ SweepStep(s)
  BY <1>1, <1>16
     DEF Stream, Reindex, Reconcile, Load, SweepStep, Look, Save, Flush, SweepFails, Cascade
<1>17. CASE \/ \E p \in DOMAIN disk : ImportInsert(p) \/ ImportDuplicate(p)
            \/ ImportCommit \/ Crash
  BY <1>1, <1>17 DEF ImportInsert, ImportDuplicate, ImportCommit, Crash
<1> QED
  BY <1>3, <1>12, <1>14, <1>15, <1>16, <1>17 DEF Next

-----------------------------------------------------------------------------
(* What a step does to what a sweep knows of a row, and to the history.    *)
SweepRow(s, m) ==
    LET loaded == sweep[s].loaded[m]
        change == sweep[s].change[m]
    IN  \/ sweep'[s].loaded[m] = loaded /\ sweep'[s].change[m] = change
        \/ sweep'[s].loaded[m] = None /\ sweep'[s].change[m] = None
        \/ /\ UNCHANGED <<row, disk, moved, reverted>>
           /\ m \in Rows
           /\ sweep'[s].loaded[m] = row[m].path /\ sweep'[s].change[m] = None
        \/ /\ UNCHANGED <<row, disk, moved, reverted>>
           /\ loaded # None /\ change = None /\ ~IsFile(loaded)
           /\ sweep'[s].loaded[m] = loaded
           /\ \/ sweep'[s].change[m] = Gone
              \/ Resolve(loaded) # None /\ sweep'[s].change[m] = Resolve(loaded)
SweepEffectOn(s) ==
    /\ \A m \in Media : SweepRow(s, m)
    /\ sweep'[s].pc = "flushed" => sweep'[s] = sweep[s]
                                   \/ (Flush(s) /\ sweep'[s].change = sweep[s].change)

LEMMA SweepEffect ==
    ASSUME TypeInv, Next
    PROVE  sweep' \in [Sweeps -> Sweeping] /\ \A s \in Sweeps : SweepEffectOn(s)
<1> DEFINE Goal == sweep' \in [Sweeps -> Sweeping] /\ \A s \in Sweeps : SweepEffectOn(s)
<1> USE DEF TypeInv, SweepsOK
<1>1. ASSUME sweep' = sweep
      PROVE  Goal
  BY <1>1 DEF SweepEffectOn, SweepRow
<1>2. NotSweeping \in Sweeping
  BY DEF NotSweeping, Sweeping
<1>3. ASSUME NEW s \in Sweeps, NEW new \in Sweeping, sweep' = [sweep EXCEPT ![s] = new],
             SweepEffectOn(s)
      PROVE  Goal
  BY <1>3 DEF SweepEffectOn, SweepRow
<1>4. ASSUME NEW s \in Sweeps, sweep' = [sweep EXCEPT ![s] = NotSweeping]
      PROVE  Goal
  <2>1. SweepEffectOn(s)
    BY <1>4 DEF SweepEffectOn, SweepRow, NotSweeping
  <2> QED
    BY <1>2, <1>3, <1>4, <2>1
<1>5. ASSUME NEW s \in Sweeps, NEW rows \in SUBSET Rows, NEW b \in BOOLEAN, Load(s, rows, b)
      PROVE  Goal
  <2> DEFINE paths == [m \in Media |-> IF m \in rows THEN row[m].path ELSE None]
             new == [NotSweeping EXCEPT !.pc = "look", !.reconcile = b, !.loaded = paths]
  <2>1. sweep' = [sweep EXCEPT ![s] = new] /\ UNCHANGED <<row, disk, moved, reverted>>
    BY <1>5 DEF Load, NoEvent, db
  <2>2. paths \in [Media -> Path \cup {None}]
    BY RowsAre DEF RowsOK
  <2>3. /\ new \in Sweeping /\ new.pc = "look" /\ new.loaded = paths
        /\ new.change = [m \in Media |-> None]
    BY <2>2 DEF NotSweeping, Sweeping
  <2>4. sweep'[s] = new
    BY <2>1
  <2> HIDE DEF new
  <2>5. ASSUME NEW m \in Media
        PROVE  SweepRow(s, m)
    BY <2>1, <2>3, <2>4 DEF SweepRow
  <2>6. SweepEffectOn(s)
    BY <2>3, <2>4, <2>5 DEF SweepEffectOn
  <2> QED
    BY <1>3, <2>1, <2>3, <2>6
<1>6. ASSUME NEW s \in Sweeps, Stream(s) \/ Reindex(s) \/ Reconcile(s)
      PROVE  Goal
  BY <1>5, <1>6 DEF Stream, Reindex, Reconcile
<1>7. ASSUME NEW s \in Sweeps, Look(s)
      PROVE  Goal
  <2>1. PICK m \in Media :
          /\ m \in Unseen(s)
          /\ LET new == Decide(sweep[s].loaded[m], sweep[s].reconcile) IN
               sweep' = [sweep EXCEPT ![s].change[m] = new,
                                      ![s].loaded[m] = IF new = None THEN None ELSE @]
    BY <1>7 DEF Look
  <2> DEFINE p == sweep[s].loaded[m]
             c == Decide(p, sweep[s].reconcile)
             l == IF c = None THEN None ELSE p
             rec == [[sweep[s] EXCEPT !.change[m] = c] EXCEPT !.loaded[m] = l]
  <2>2. p \in Path /\ sweep[s].change[m] = None
    BY <2>1 DEF Unseen, Sweeping
  <2>3. sweep[s].pc = "look" /\ UNCHANGED <<row, disk, moved, reverted>>
    BY <1>7 DEF Look, NoEvent, db
  <2>4. c = None \/ (~IsFile(p) /\ (c = Gone \/ (Resolve(p) # None /\ c = Resolve(p))))
    BY DEF Decide, ReindexResolve
  <2>5. c \in Path \cup {None, Gone}
    BY <2>4, Found DEF DiskOK, FileOK
  <2>6. l \in Path \cup {None}
    BY <2>2
  <2>7. sweep' = [sweep EXCEPT ![s] = [sweep[s] EXCEPT !.change[m] = c, !.loaded[m] = l]]
    BY <2>1 DEF Sweeping
  <2> HIDE DEF p, c, l
  <2>8. /\ sweep'[s] = [sweep[s] EXCEPT !.change[m] = c, !.loaded[m] = l]
        /\ sweep'[s] \in Sweeping /\ sweep'[s].pc = "look"
        /\ sweep'[s].change = [sweep[s].change EXCEPT ![m] = c]
        /\ sweep'[s].loaded = [sweep[s].loaded EXCEPT ![m] = l]
    BY <2>3, <2>5, <2>6, <2>7 DEF Sweeping
  <2>9. /\ sweep[s].change \in [Media -> Path \cup {None, Gone}]
        /\ sweep[s].loaded \in [Media -> Path \cup {None}]
    BY DEF Sweeping
  <2>10. SweepRow(s, m)
    BY <2>2, <2>3, <2>4, <2>8, <2>9, NoneAssumption DEF SweepRow, p, l
  <2>11. ASSUME NEW n \in Media \ {m}
         PROVE  SweepRow(s, n)
    BY <2>8, <2>9 DEF SweepRow
  <2>12. SweepEffectOn(s)
    BY <2>8, <2>10, <2>11 DEF SweepEffectOn
  <2> QED
    BY <1>3, <2>7, <2>8, <2>12
<1>8. ASSUME NEW s \in Sweeps, Flush(s)
      PROVE  Goal
  <2> DEFINE left == editions \ {EditionOf[m] : m \in RowsOf(Written(s))}
             new == [sweep[s] EXCEPT !.pc = "flushed", !.empty = left]
  <2>1. sweep' = [sweep EXCEPT ![s] = new]
    BY <1>8 DEF Flush
  <2>2. left \in SUBSET Editions
    BY DEF SetsOK
  <2> HIDE DEF left
  <2>3. new \in Sweeping /\ new.loaded = sweep[s].loaded /\ new.change = sweep[s].change
    BY <2>2 DEF Sweeping
  <2>4. sweep'[s] = new
    BY <2>1
  <2> HIDE DEF new
  <2>5. SweepEffectOn(s)
    BY <1>8, <2>3, <2>4 DEF SweepEffectOn, SweepRow
  <2> QED
    BY <1>3, <2>1, <2>3, <2>5
<1>9. ASSUME NEW s \in Sweeps, SweepStep(s)
      PROVE  Goal
  BY <1>4, <1>7, <1>8, <1>9 DEF SweepStep, Save, SweepFails, Cascade
<1>10. CASE Crash
  <2>1. sweep' = [s \in Sweeps |-> NotSweeping]
    BY <1>10 DEF Crash
  <2> QED
    BY <1>2, <2>1 DEF SweepEffectOn, SweepRow, NotSweeping
<1>11. CASE StartTranscode \/ TranscodeStep
  BY <1>1, <1>11
     DEF StartTranscode, TranscodeStep, OnlyTr, EndTranscode, TranscodeLosesRow, SkipFile,
         Encode, Encoded, EncodeFails, EncodeTimesOut, CommitConverted, TranscodeCommitFails,
         Remux, Remuxed, RemuxFails, Swap, CommitWeb
<1>12. CASE (\E p \in DOMAIN disk : ImportInsert(p) \/ ImportDuplicate(p)) \/ ImportCommit
  BY <1>1, <1>12 DEF ImportInsert, ImportDuplicate, ImportCommit
<1>13. CASE AdminStep \/ People
  BY <1>1, <1>13 DEF AdminStep, DeleteMedia, KeepEdition, ResolveFilm, DeleteOriginal, Request,
                     People, MoveFile
<1> QED
  BY <1>6, <1>9, <1>10, <1>11, <1>12, <1>13 DEF Next

(* Nothing of the history is taken back; a row that gets another name from *)
(* a sweep is remembered.                                                  *)
HistoryStep ==
    /\ layout' = layout /\ (moved => moved') /\ reverted \subseteq reverted'
    /\ \A s \in Sweeps, m \in Media :
          Rewritten(s, m) /\ m \notin reverted' => SameName(sweep[s].change[m], row[m].path)

LEMMA HistoryEffect ==
    ASSUME TypeInv, Next
    PROVE  HistoryStep
<1>1. NoEvent \/ Event \/ (OneMore /\ moved') \/ \E s \in Sweeps : Write(s)
  <2>1. CASE StartTranscode \/ TranscodeStep
    BY <2>1
       DEF StartTranscode, TranscodeStep, EndTranscode, TranscodeLosesRow, SkipFile,
           Encode, Encoded, EncodeFails, EncodeTimesOut, CommitConverted, TranscodeCommitFails,
           Remux, Remuxed, RemuxFails, Swap, CommitWeb
  <2>2. ASSUME NEW s \in Sweeps, Stream(s) \/ Reindex(s) \/ Reconcile(s) \/ SweepStep(s)
        PROVE  NoEvent \/ Event \/ Write(s)
    BY <2>2 DEF Stream, Reindex, Reconcile, Load, SweepStep, Look, Save, Flush, SweepFails,
                Cascade
  <2>3. CASE (\E p \in DOMAIN disk : ImportInsert(p) \/ ImportDuplicate(p)) \/ ImportCommit
    BY <2>3 DEF ImportInsert, ImportDuplicate, ImportCommit
  <2>4. CASE AdminStep
    BY <2>4 DEF AdminStep, DeleteMedia, KeepEdition, ResolveFilm, DeleteOriginal, Request
  <2>5. CASE People \/ Crash
    BY <2>5 DEF People, MoveFile, Crash
  <2> QED
    BY <2>1, <2>2, <2>3, <2>4, <2>5 DEF Next
<1>2. /\ layout' = layout /\ (moved => moved') /\ reverted \subseteq reverted'
  BY <1>1 DEF NoEvent, Event, OneMore, Write
<1>3. ASSUME NEW s \in Sweeps, NEW m \in Media, Rewritten(s, m), m \notin reverted'
      PROVE  SameName(sweep[s].change[m], row[m].path)
  <2>1. Write(s) /\ sweep[s].change[m] \in Path
    BY <1>3 DEF Rewritten, Save, Cascade
  <2>2. m \in Changed(s) \ Deleted(s)
    BY <2>1, NoneAssumption DEF Changed, Deleted
  <2> QED
    BY <1>3, <2>1, <2>2 DEF Write
<1> QED
  BY <1>2, <1>3 DEF HistoryStep

-----------------------------------------------------------------------------
(* The type invariant holds at first and is kept by every step.            *)
LEMMA InitTyped == Init => TypeInv
<1> SUFFICES ASSUME Init
             PROVE  TypeInv
  OBVIOUS
<1>1. PICK start \in Starts :
        /\ layout = start.files
        /\ row = [m \in Media |->
                    IF m \in Indexed
                    THEN [path |-> [layout[m] EXCEPT !.root = start.root], audio |-> "ac3"]
                    ELSE None]
  BY DEF Init
<1>2. LayoutOK /\ start.root \in {"library", "elsewhere"}
  BY <1>1, StartsAssumption DEF LayoutOK
<1>3. ASSUME NEW m \in Media
      PROVE  /\ [layout[m] EXCEPT !.root = start.root] \in Path
             /\ [layout[m] EXCEPT !.root = start.root].stem = layout[m].stem
             /\ [layout[m] EXCEPT !.root = start.root].tag = ""
  BY <1>2 DEF LayoutOK, Path
<1>4. RowsOK
  <2>1. \A m \in Media : row[m] # None =>
           /\ row[m] = [path |-> [layout[m] EXCEPT !.root = start.root], audio |-> "ac3"]
           /\ row[m] \in Row
           /\ row[m].path = [layout[m] EXCEPT !.root = start.root]
    BY <1>1, <1>3, Fresh
  <2>2. row \in Table
    BY <1>1, <2>1 DEF Table
  <2>3. \A m \in Rows : row[m] # None /\ m \in Media
    BY DEF Rows, RowsOf
  <2> QED
    BY <1>3, <2>1, <2>2, <2>3 DEF RowsOK, RowOK, OwnName
<1>5. DiskOK
  <2>1. ASSUME NEW p \in DOMAIN disk
        PROVE  FileOK(p)
    <3> DEFINE of == CHOOSE m \in Media : layout[m] = p
    <3>1. p \in {layout[m] : m \in Media}
          /\ disk[p] = [of |-> of, whole |-> TRUE, audio |-> "ac3"]
      BY DEF Init
    <3>2. of \in Media /\ layout[of] = p
      BY <3>1
    <3> HIDE DEF of
    <3> QED
      <4>1. disk[p].of = of /\ disk[p].whole /\ disk[p].audio = "ac3" /\ disk[p] \in Content
        BY <3>1, <3>2 DEF Content
      <4>2. p \in Path /\ p.tag = "" /\ p.stem = layout[of].stem
        BY <1>2, <3>2 DEF LayoutOK
      <4> QED
        BY <4>1, <4>2 DEF FileOK
  <2> QED
    BY <2>1 DEF DiskOK
<1>6. SweepsOK /\ LocksOK
  <2>1. sweep = [s \in Sweeps |-> NotSweeping]
    BY DEF Init
  <2>2. NotSweeping \in Sweeping /\ NotSweeping.pc = "idle"
        /\ \A m \in Media : NotSweeping.loaded[m] = None /\ NotSweeping.change[m] = None
    BY DEF NotSweeping, Sweeping
  <2> QED
    BY <2>1, <2>2 DEF SweepsOK, LoadedOK, ChangeOK, LocksOK, LockedBy
<1>7. AddingOK
  BY DEF Init, AddingOK
<1>8. TranscodeOK
  BY LimitAssumption
     DEF Init, TranscodeOK, NotTranscoding, Transcoding, TodoOK, FileAtOK, AtFile, SourceOK,
         TagsOK, Encoding, Remuxing
<1>9. SetsOK
  <2>1. editions \subseteq Editions /\ flagged \subseteq Films
    BY IndexedAssumption DEF Init, Editions
  <2>2. \A p \in known : p \in Path
    <3>1. ASSUME NEW m \in Indexed
          PROVE  row[m].path \in Path
      <4>1. m \in Media /\ row[m] # None
        BY <1>1, IndexedAssumption, <1>3, Fresh, NoneAssumption
      <4>2. row[m] \in Row
        BY <1>1, <1>3, <4>1, Fresh
      <4> QED
        BY <4>2 DEF Row
    <3> QED
      BY <3>1 DEF Init
  <2> QED
    BY <2>1, <2>2 DEF SetsOK
<1> QED
  BY <1>2, <1>4, <1>5, <1>6, <1>7, <1>8, <1>9 DEF TypeInv

LEMMA FilesTyped ==
    ASSUME TypeInv, Next
    PROVE  DiskOK'
<1> SUFFICES ASSUME NEW p \in DOMAIN disk'
             PROVE  FileOK(p)'
  BY DEF DiskOK
<1> USE DEF TypeInv
<1>1. FileStep(p) /\ layout' = layout
  BY FileEffect, HistoryEffect DEF FilesStep, HistoryStep
<1>2. \A q \in DOMAIN disk : FileOK(q)
  BY DEF DiskOK
<1>3. AtFile => tr.path \in Path
  BY DEF TranscodeOK, FileAtOK, OwnName
<1>4. CASE p \in DOMAIN disk /\ disk'[p] = disk[p]
  BY <1>1, <1>2, <1>4 DEF FileOK
<1>5. CASE /\ Encode /\ tr'.path \in DOMAIN disk /\ p = Temp(tr'.path)
           /\ disk'[p] = [disk[tr'.path] EXCEPT !.whole = FALSE, !.audio = "aac"]
  <2>1. FileOK(tr'.path) /\ tr'.path \in Path /\ disk[tr'.path] \in Content
    BY <1>2, <1>5 DEF FileOK
  <2>2. p \in Path /\ p.tag = "ac3fix" /\ p.stem = tr'.path.stem
    BY <1>5, <2>1, Named
  <2>3. disk'[p] \in Content /\ disk'[p].of = disk[tr'.path].of /\ disk'[p].audio = "aac"
    BY <1>5, <2>1, Audio
  <2> QED
    BY <1>1, <2>1, <2>2, <2>3 DEF FileOK
<1>6. CASE Encoded /\ p = Converted(tr.path) /\ disk'[p] = [tr.source EXCEPT !.audio = "aac"]
  <2>1. tr.path \in Path /\ tr.path.stem = layout[tr.source.of].stem
    BY <1>3, <1>6 DEF Encoded, TranscodeOK, SourceOK, AtFile
  <2>2. tr.source \in Content
    BY <1>6 DEF Encoded, TranscodeOK, SourceOK
  <2>3. tr.source.whole
    BY <1>6 DEF Encoded, TranscodeOK, SourceOK
  <2>4. p \in Path /\ p.tag = "tr" /\ p.stem = tr.path.stem
    BY <1>6, <2>1, Named
  <2>5. disk'[p] \in Content /\ disk'[p].of = tr.source.of /\ disk'[p].audio = "aac"
    BY <1>6, <2>2, Audio
  <2>6. disk'[p].whole
    BY <1>6, <2>2, <2>3 DEF Content
  <2> QED
    BY <1>1, <2>1, <2>4, <2>5, <2>6 DEF FileOK
<1>7. CASE /\ Remux /\ tr.path \in DOMAIN disk /\ p = Web(tr.path)
           /\ disk'[p] = [disk[tr.path] EXCEPT !.whole = FALSE]
  <2>1. /\ FileOK(tr.path) /\ tr.path.tag = "tr"
        /\ tr.path \in Path /\ disk[tr.path] \in Content
    BY <1>2, <1>7 DEF Remux, TranscodeOK, TagsOK, Remuxing, FileOK
  <2>2. p \in Path /\ p.tag = "tr" /\ p.ext = "mp4" /\ p.stem = tr.path.stem
    BY <1>7, <2>1, Named
  <2>3. /\ disk'[p] \in Content /\ disk'[p].of = disk[tr.path].of
        /\ disk'[p].audio = disk[tr.path].audio
    BY <1>7, <2>1, Audio
  <2> QED
    BY <1>1, <2>1, <2>2, <2>3 DEF FileOK
<1>8. CASE Remuxed /\ p = Web(tr.path) /\ disk'[p] = tr.source
  <2>1. /\ tr.path \in Path /\ tr.source \in Content /\ tr.source.whole
        /\ tr.source.audio = "aac" /\ tr.path.stem = layout[tr.source.of].stem
    BY <1>3, <1>8 DEF Remuxed, TranscodeOK, SourceOK, AtFile, TagsOK
  <2>2. p \in Path /\ p.tag = "tr" /\ p.ext = "mp4" /\ p.stem = tr.path.stem
    BY <1>8, <2>1, Named
  <2> QED
    BY <1>1, <1>8, <2>1, <2>2 DEF FileOK
<1>9. CASE \E q \in DOMAIN disk : /\ disk[q].whole /\ q.tag # "ac3fix"
                                 /\ p \in Path /\ SameName(p, q) /\ disk'[p] = disk[q]
  BY <1>1, <1>2, <1>9 DEF FileOK, SameName
<1> QED
  BY <1>1, <1>4, <1>5, <1>6, <1>7, <1>8, <1>9 DEF FileStep

(* A row that was there does not come back, nor do its first contents.     *)
LEMMA RowsOnlyGo ==
    ASSUME TypeInv, Next, NEW m \in Media, row[m] # None
    PROVE  /\ row'[m] # None
           /\ m \in Rows' => m \in Rows
           /\ Unconverted(m)' => Unconverted(m)
<1>1. row' \in Table /\ RowStep(m) /\ row \in Table
  BY RowEffect DEF TypeInv, RowsOK
<1>2. ~(ImportCommit /\ m = adding.media)
  BY DEF TypeInv, AddingOK, ImportCommit
<1>3. m \in Rows' <=> row'[m] \notin {None, Gone}
  BY DEF Rows, RowsOf
<1>4. m \in Rows <=> row[m] \notin {None, Gone}
  BY DEF Rows, RowsOf
<1>5. AtFile => tr.path \in Path
  BY DEF TypeInv, TranscodeOK, FileAtOK, OwnName
<1>6. CASE row'[m] = row[m]
  BY <1>3, <1>4, <1>6 DEF Unconverted
<1>7. CASE row'[m] = Gone
  BY <1>3, <1>7, NoneAssumption DEF Unconverted
<1>8. CASE CommitConverted /\ m \in Rows
           /\ row'[m] = [path |-> Converted(tr.path), audio |-> "aac"]
  <2>1. Converted(tr.path) \in Path
    BY <1>5, <1>8, Named DEF CommitConverted, AtFile
  <2>2. row'[m] \in Row /\ row'[m].audio = "aac"
    BY <1>8, <2>1, Fresh
  <2> QED
    BY <1>8, <2>2, NoneAssumption DEF Unconverted
<1>9. ASSUME NEW p \in Path, m \in Rows, row'[m] = [row[m] EXCEPT !.path = p]
      PROVE  row'[m] \in Row /\ row'[m].audio = row[m].audio
  BY <1>1, <1>9, RowsAre, Repathed
<1>10. CASE CommitWeb /\ m \in Rows /\ row'[m] = [row[m] EXCEPT !.path = Web(tr.path)]
  <2>1. Web(tr.path) \in Path
    BY <1>5, <1>10, Named DEF CommitWeb, AtFile
  <2> QED
    BY <1>9, <1>10, <2>1, NoneAssumption DEF Unconverted
<1>11. CASE \E s \in Sweeps : Rewritten(s, m)
  BY <1>9, <1>11, NoneAssumption DEF Unconverted, Rewritten
<1> QED
  BY <1>1, <1>2, <1>6, <1>7, <1>8, <1>10, <1>11 DEF RowStep

LEMMA RowsTyped ==
    ASSUME TypeInv, Next
    PROVE  RowsOK'
<1> SUFFICES ASSUME NEW m \in Media, m \in Rows'
             PROVE  OwnName(m, row[m].path)' /\ (Unconverted(m)' => row'[m].path.tag = "")
  BY RowEffect DEF RowsOK, RowOK
<1> USE DEF TypeInv
<1>1. row' \in Table /\ RowStep(m) /\ row \in Table /\ layout' = layout
  BY RowEffect, HistoryEffect DEF RowsOK, HistoryStep
<1>2. row'[m] \notin {None, Gone}
  BY DEF Rows, RowsOf
<1>3. AtFile => OwnName(tr.media, tr.path) /\ tr.path \in Path
  BY DEF TranscodeOK, FileAtOK, OwnName
<1>4. m \in Rows => OwnName(m, row[m].path) /\ (Unconverted(m) => row[m].path.tag = "")
  BY DEF RowsOK, RowOK
<1>5. CASE row'[m] = row[m]
  BY <1>1, <1>2, <1>4, <1>5 DEF OwnName, Unconverted, Rows, RowsOf
<1>6. CASE row'[m] = Gone
  BY <1>2, <1>6
<1>7. CASE CommitConverted /\ m = tr.media /\ m \in Rows
           /\ row'[m] = [path |-> Converted(tr.path), audio |-> "aac"]
  <2>1. tr.path \in Path /\ OwnName(m, tr.path)
    BY <1>3, <1>7 DEF CommitConverted, AtFile
  <2>2. row'[m].path = Converted(tr.path) /\ row'[m].audio = "aac"
    BY <1>7, <2>1, Named, Fresh
  <2> QED
    BY <1>1, <2>1, <2>2, Named DEF OwnName, Unconverted
<1>8. CASE CommitWeb /\ m = tr.media /\ m \in Rows
           /\ row'[m] = [row[m] EXCEPT !.path = Web(tr.path)]
  <2>1. tr.path \in Path /\ OwnName(m, tr.path) /\ row[m] # None /\ ~Unconverted(m)
    BY <1>3, <1>8, <1>1, RowsAre DEF CommitWeb, AtFile, TranscodeOK, FileAtOK, Remuxing
  <2>2. row'[m].path = Web(tr.path) /\ row'[m].audio = row[m].audio
    BY <1>1, <1>8, <2>1, Named, Repathed, RowsAre
  <2>3. ~Unconverted(m)'
    BY <2>1, RowsOnlyGo
  <2> QED
    <3>1. Web(tr.path) \in Path /\ Web(tr.path).stem = tr.path.stem /\ Web(tr.path).tag = "tr"
      BY <2>1, Named
    <3> QED
      BY <1>1, <2>1, <2>2, <2>3, <3>1 DEF OwnName
<1>9. CASE ImportCommit /\ m = adding.media
           /\ row'[m] = [path |-> adding.path, audio |-> "ac3"]
  <2>1. OwnName(m, adding.path) /\ adding.path.tag = "" /\ adding.path \in Path
    BY <1>9 DEF ImportCommit, AddingOK, OwnName
  <2>2. row'[m].path = adding.path
    BY <1>9
  <2> QED
    BY <1>1, <2>1, <2>2 DEF OwnName
<1>10. CASE \E s \in Sweeps : Rewritten(s, m)
  <2>1. PICK s \in Sweeps : Rewritten(s, m)
    BY <1>10
  <2> DEFINE c == sweep[s].change[m]
             p == sweep[s].loaded[m]
  <2>2. m \in Rows /\ c \in Path /\ row'[m] = [row[m] EXCEPT !.path = c] /\ row[m] # None
    BY <2>1, <1>1, RowsAre DEF Rewritten
  <2>3. c # None /\ c # Gone /\ p # None
    BY <2>2, NoneAssumption DEF SweepsOK, ChangeOK
  <2>4. SameName(c, p) /\ OwnName(m, p) /\ (Unconverted(m) => p.tag = "")
    BY <2>3 DEF SweepsOK, ChangeOK, LoadedOK
  <2>5. row'[m].path = c
    BY <1>1, <2>2, Repathed, RowsAre
  <2>6. Unconverted(m)' => Unconverted(m)
    BY <2>2, RowsOnlyGo
  <2> QED
    BY <1>1, <2>2, <2>4, <2>5, <2>6 DEF OwnName, SameName
<1> QED
  BY <1>1, <1>5, <1>6, <1>7, <1>8, <1>9, <1>10 DEF RowStep

LEMMA SweepsTyped ==
    ASSUME TypeInv, Next
    PROVE  SweepsOK'
<1> SUFFICES ASSUME NEW s \in Sweeps, NEW m \in Media
             PROVE  LoadedOK(s, m)' /\ ChangeOK(s, m)'
  BY SweepEffect DEF SweepsOK
<1> USE DEF TypeInv
<1>1. SweepRow(s, m) /\ layout' = layout
  BY SweepEffect, HistoryEffect DEF SweepEffectOn, HistoryStep
<1>2. LoadedOK(s, m) /\ ChangeOK(s, m)
  BY DEF SweepsOK
<1>3. row[m] # None => row'[m] # None /\ (Unconverted(m)' => Unconverted(m))
  BY RowsOnlyGo
<1>4. CASE sweep'[s].loaded[m] = sweep[s].loaded[m] /\ sweep'[s].change[m] = sweep[s].change[m]
  BY <1>1, <1>2, <1>3, <1>4 DEF LoadedOK, ChangeOK, OwnName
<1>5. CASE sweep'[s].loaded[m] = None /\ sweep'[s].change[m] = None
  BY <1>5 DEF LoadedOK, ChangeOK
<1>6. CASE /\ UNCHANGED <<row, disk, moved, reverted>> /\ m \in Rows
           /\ sweep'[s].loaded[m] = row[m].path /\ sweep'[s].change[m] = None
  <2>1. row[m] # None /\ RowOK(m)
    BY <1>6, RowsAre DEF RowsOK
  <2> QED
    BY <1>1, <1>3, <1>6, <2>1 DEF LoadedOK, ChangeOK, OwnName, RowOK
<1>7. CASE /\ sweep[s].loaded[m] # None /\ sweep'[s].loaded[m] = sweep[s].loaded[m]
           /\ \/ sweep'[s].change[m] = Gone
              \/ /\ Resolve(sweep[s].loaded[m]) # None
                 /\ sweep'[s].change[m] = Resolve(sweep[s].loaded[m])
  <2>1. LoadedOK(s, m)'
    BY <1>1, <1>2, <1>3, <1>7 DEF LoadedOK, OwnName
  <2>2. ChangeOK(s, m)'
    BY <1>7, Found DEF ChangeOK, SameName
  <2> QED
    BY <2>1, <2>2
<1> QED
  BY <1>1, <1>4, <1>5, <1>6, <1>7 DEF SweepRow

(* Who deletes a row.                                                      *)
Deletes(m) ==
    \/ DeleteMedia(m)
    \/ \E e \in Editions \ {EditionOf[m]} : /\ KeepEdition(FilmOf[EditionOf[m]], e)
                                           /\ EditionOf[m] \in editions
    \/ \E s \in Sweeps : /\ Save(s) \/ Cascade(s)
                         /\ sweep[s].change[m] = Gone
                            \/ (Cascade(s) /\ EditionOf[m] \in sweep[s].empty)

LEMMA RowGoes ==
    ASSUME TypeInv, Next, NEW m \in Rows, row'[m] = Gone
    PROVE  Deletes(m)
<1> USE DEF TypeInv
<1>1. /\ m \in Media /\ row' \in Table /\ RowStep(m) /\ row \in Table
      /\ row[m] # None /\ row[m] # Gone /\ row[m] \in Row
  BY RowEffect, RowsAre DEF RowsOK
<1>2. ASSUME row'[m] = row[m]
      PROVE  FALSE
  BY <1>1, <1>2
<1>3. ASSUME NEW ms, row' = Without(row, ms), m \notin ms
      PROVE  FALSE
  BY <1>1, <1>3, WithoutRows
<1>4. CASE StartTranscode
  BY <1>2, <1>4, NoOrphans
<1>5. CASE TranscodeStep
  <2>1. CASE CommitConverted \/ CommitWeb
    <3>1. AtFile /\ tr.path \in Path
      BY <2>1 DEF CommitConverted, CommitWeb, AtFile, TranscodeOK, FileAtOK, OwnName
    <3>2. Converted(tr.path) \in Path /\ Web(tr.path) \in Path
      BY <3>1, Named
    <3>3. CASE m = tr.media
      <4>1. [path |-> Converted(tr.path), audio |-> "aac"] \in Row
            /\ [row[m] EXCEPT !.path = Web(tr.path)] \in Row
        BY <1>1, <3>2, Fresh, Repathed
      <4>2. row'[m] \in Row
        BY <1>1, <2>1, <3>3, <4>1 DEF CommitConverted, CommitWeb, Table
      <4> QED
        BY <4>2, NoneAssumption
    <3>4. CASE m # tr.media
      BY <1>1, <1>2, <2>1, <3>4 DEF CommitConverted, CommitWeb, Table
    <3> QED
      BY <3>3, <3>4
  <2> QED
    BY <1>2, <1>5, <2>1
       DEF TranscodeStep, OnlyTr, db, EndTranscode, TranscodeLosesRow, SkipFile, Encode, Encoded,
           EncodeFails, EncodeTimesOut, TranscodeCommitFails, Remux, Remuxed, RemuxFails, Swap
<1>6. ASSUME NEW s \in Sweeps, Save(s) \/ Cascade(s)
      PROVE  Deletes(m)
  <2>1. Written(s) \in Table
    BY <1>6, WrittenRows DEF Save, Cascade
  <2>2. CASE sweep[s].change[m] = Gone
    BY <1>6, <2>2 DEF Deletes
  <2>3. CASE sweep[s].change[m] # Gone
    <3>1. Written(s)[m] # Gone
      <4>1. CASE sweep[s].change[m] = None
        BY <1>1, <2>3, <4>1 DEF Written, Deleted, Changed
      <4>2. CASE sweep[s].change[m] # None
        <5>1. sweep[s].change[m] \in Path
          BY <1>1, <2>3, <4>2 DEF SweepsOK, Sweeping
        <5>2. Written(s)[m] = [row[m] EXCEPT !.path = sweep[s].change[m]]
          BY <1>1, <2>3, <4>2 DEF Written, Deleted, Changed
        <5> QED
          BY <1>1, <5>1, <5>2, Repathed, NoneAssumption
      <4> QED
        BY <4>1, <4>2
    <3>2. ~Save(s)
      BY <3>1 DEF Save
    <3> DEFINE es == {n \in Media : EditionOf[n] \in sweep[s].empty}
    <3>3. row' = Without(Written(s), es)
      BY <1>6, <3>2 DEF Cascade
    <3>4. m \in es
      <4> HIDE DEF es
      <4> QED
        BY <1>1, <2>1, <3>1, <3>3, WithoutRows
    <3> QED
      BY <1>6, <3>2, <3>4 DEF Deletes
  <2> QED
    BY <2>2, <2>3
<1>7. ASSUME NEW s \in Sweeps, Stream(s) \/ Reindex(s) \/ Reconcile(s) \/ SweepStep(s)
      PROVE  Deletes(m)
  BY <1>2, <1>6, <1>7 DEF SweepStep, Stream, Reindex, Reconcile, Load, Look, Flush, SweepFails, db
<1>8. CASE AdminStep
  <2>1. ASSUME NEW n \in Media, DeleteMedia(n)
        PROVE  Deletes(m)
    <3>1. m = n
      BY <1>3, <2>1 DEF DeleteMedia
    <3> QED
      BY <2>1, <3>1 DEF Deletes
  <2>2. ASSUME NEW f, NEW e \in Editions, KeepEdition(f, e)
        PROVE  Deletes(m)
    <3> DEFINE others == {d \in editions : FilmOf[d] = f /\ d # e}
    <3>1. EditionOf[m] \in others
      BY <1>1, <1>3, <2>2 DEF KeepEdition
    <3> QED
      BY <2>2, <3>1 DEF Deletes
  <2> QED
    BY <1>2, <1>8, <2>1, <2>2 DEF AdminStep, ResolveFilm, DeleteOriginal
<1>9. CASE ImportCommit
  <2>1. m # adding.media
    BY <1>1, <1>9 DEF ImportCommit, AddingOK
  <2> QED
    BY <1>1, <1>2, <1>9, <2>1 DEF ImportCommit, Table
<1>10. CASE (\E p \in DOMAIN disk : ImportInsert(p) \/ ImportDuplicate(p)) \/ People \/ Crash
  BY <1>2, <1>10 DEF ImportInsert, ImportDuplicate, People, MoveFile, Crash, db
<1> QED
  BY <1>4, <1>5, <1>7, <1>8, <1>9, <1>10 DEF Next

(* Nobody deletes a row that a reconcile has written and not committed.    *)
LEMMA LockedRowStays ==
    ASSUME TypeInv, Next, NEW s \in Sweeps, NEW m \in Media, LockedBy(s, m), m \in Rows,
           LockedBy(s, m)', sweep[s].change[m] # Gone
    PROVE  m \in Rows'
<1> USE DEF TypeInv
<1>1. Locked(m) /\ row[m] # None
  BY DEF Locked, Rows, RowsOf
<1>2. SUFFICES row'[m] # Gone
  BY <1>1, RowsOnlyGo DEF Rows, RowsOf
<1>3. ~DeleteMedia(m)
  BY <1>1 DEF DeleteMedia
<1>4. ASSUME NEW e \in Editions \ {EditionOf[m]}, KeepEdition(FilmOf[EditionOf[m]], e),
             EditionOf[m] \in editions
      PROVE  FALSE
  BY <1>1, <1>4 DEF KeepEdition
<1>5. ASSUME NEW r \in Sweeps, Save(r) \/ Cascade(r)
      PROVE  /\ sweep[r].change[m] # Gone
             /\ ~(Cascade(r) /\ EditionOf[m] \in sweep[r].empty)
  <2>1. r # s
    BY <1>5, NoneAssumption DEF Save, Cascade, LockedBy, SweepsOK, NotSweeping
  <2>2. CASE Save(r)
    <3>1. sweep[r].change[m] = None
      BY <1>1, <2>2 DEF Save, MayWrite, Changed
    <3>2. ~Cascade(r)
      BY <2>2 DEF Save, Cascade, Looked
    <3> QED
      BY <3>1, <3>2, NoneAssumption
  <2>3. CASE Cascade(r)
    BY <2>1, <2>3, NoneAssumption DEF Cascade, LocksOK, LockedBy
  <2> QED
    BY <1>5, <2>2, <2>3
<1>6. ~Deletes(m)
  BY <1>3, <1>4, <1>5 DEF Deletes
<1> QED
  BY <1>6, RowGoes

LEMMA LocksKept ==
    ASSUME TypeInv, Next
    PROVE  LocksOK'
<1> SUFFICES ASSUME NEW s \in Sweeps, NEW m \in Media, LockedBy(s, m)'
             PROVE  /\ sweep'[s].change[m] # Gone => m \in Rows'
                    /\ \A r \in Sweeps \ {s} : ~LockedBy(r, m)'
  BY DEF LocksOK
<1>1. \A r \in Sweeps : LockedBy(r, m)' => \/ LockedBy(r, m) /\ sweep'[r] = sweep[r]
                                           \/ Flush(r) /\ sweep'[r].change = sweep[r].change
  BY SweepEffect DEF SweepEffectOn, LockedBy
<1>2. ASSUME NEW r \in Sweeps, Flush(r), LockedBy(r, m)', sweep'[r].change = sweep[r].change
      PROVE  /\ ~Locked(m) /\ \A t \in Sweeps \ {r} : ~Flush(t)
             /\ sweep'[r].change[m] # Gone => m \in Rows'
  <2>1. m \in Changed(r)
    BY <1>2 DEF Changed, LockedBy
  <2>2. ~Locked(m)
    BY <1>2, <2>1 DEF Flush, MayWrite
  <2>3. sweep[r].change[m] # Gone => m \in Rows
    BY <1>2, <2>1 DEF Flush, CanWrite, Deleted
  <2>4. Rows' = Rows
    BY <1>2 DEF Flush, db, Rows, RowsOf
  <2>5. ASSUME NEW t \in Sweeps \ {r}, Flush(t)
        PROVE  FALSE
    <3>1. sweep'[t] = sweep[t]
      BY <1>2, <2>5 DEF Flush, TypeInv, SweepsOK
    <3>2. sweep[t].pc = "look" /\ sweep'[t].pc = "flushed"
      BY <2>5 DEF Flush, Looked, TypeInv, SweepsOK, Sweeping
    <3> QED
      BY <3>1, <3>2
  <2> QED
    BY <1>2, <2>2, <2>3, <2>4, <2>5
<1>3. sweep'[s].change[m] # Gone => m \in Rows'
  <2>1. CASE LockedBy(s, m) /\ sweep'[s] = sweep[s]
    BY <2>1, LockedRowStays DEF TypeInv, LocksOK
  <2> QED
    BY <1>1, <1>2, <2>1
<1>4. ASSUME NEW r \in Sweeps \ {s}, LockedBy(r, m)'
      PROVE  FALSE
  BY <1>1, <1>2, <1>4 DEF Locked, TypeInv, LocksOK
<1> QED
  BY <1>3, <1>4

LEMMA AddingTyped ==
    ASSUME TypeInv, Next
    PROVE  AddingOK'
<1> USE DEF TypeInv
<1>1. layout' = layout /\ \A m \in Media : RowStep(m)
  BY RowEffect, HistoryEffect DEF HistoryStep
<1>2. CASE adding' = None
  BY <1>2 DEF AddingOK
<1>3. CASE adding' = adding /\ adding # None
  <2>1. adding \in Insert /\ adding.media \in Media /\ row[adding.media] = None
    BY <1>3 DEF AddingOK, Insert
  <2>2. ~ImportCommit
    BY <1>3 DEF ImportCommit
  <2>3. row'[adding.media] = None
    BY <1>1, <2>1, <2>2, RowsAre DEF RowStep, Rewritten, RowsOK
  <2> QED
    BY <1>1, <1>3, <2>3 DEF AddingOK, OwnName
<1>4. ASSUME NEW p \in DOMAIN disk, ImportInsert(p)
      PROVE  AddingOK'
  <2>1. FileOK(p) /\ p.tag = "" /\ row[disk[p].of] = None
        /\ adding' = [path |-> p, media |-> disk[p].of] /\ row' = row
    BY <1>4 DEF DiskOK, ImportInsert, New, db
  <2>2. p \in Path /\ disk[p].of \in Media /\ p.stem = layout[disk[p].of].stem
    BY <2>1 DEF FileOK, Content
  <2> QED
    BY <1>1, <2>1, <2>2 DEF AddingOK, Insert, OwnName
<1>5. adding' = adding \/ adding' = None \/ \E p \in DOMAIN disk : ImportInsert(p)
  <2>1. CASE StartTranscode \/ TranscodeStep
    BY <2>1
       DEF StartTranscode, TranscodeStep, OnlyTr, EndTranscode, TranscodeLosesRow, SkipFile,
           Encode, Encoded, EncodeFails, EncodeTimesOut, CommitConverted, TranscodeCommitFails,
           Remux, Remuxed, RemuxFails, Swap, CommitWeb
  <2>2. CASE \E s \in Sweeps : Stream(s) \/ Reindex(s) \/ Reconcile(s) \/ SweepStep(s)
    BY <2>2 DEF Stream, Reindex, Reconcile, Load, SweepStep, Look, Save, Flush, SweepFails,
                Cascade
  <2>3. CASE (\E p \in DOMAIN disk : ImportInsert(p) \/ ImportDuplicate(p)) \/ ImportCommit
    BY <2>3 DEF ImportDuplicate, ImportCommit
  <2>4. CASE AdminStep \/ People \/ Crash
    BY <2>4 DEF AdminStep, DeleteMedia, KeepEdition, ResolveFilm, DeleteOriginal, Request,
                People, MoveFile, Crash
  <2> QED
    BY <2>1, <2>2, <2>3, <2>4 DEF Next
<1> QED
  BY <1>2, <1>3, <1>4, <1>5

LEMMA SetsTyped ==
    ASSUME TypeInv, Next
    PROVE  SetsOK'
<1> USE DEF TypeInv, SetsOK
<1>1. CASE UNCHANGED <<editions, flagged, known>>
  BY <1>1
<1>2. CASE StartTranscode \/ TranscodeStep
  BY <1>1, <1>2
     DEF StartTranscode, TranscodeStep, OnlyTr, db, EndTranscode, TranscodeLosesRow, SkipFile,
         Encode, Encoded, EncodeFails, EncodeTimesOut, CommitConverted, TranscodeCommitFails,
         Remux, Remuxed, RemuxFails, Swap, CommitWeb
<1>3. ASSUME NEW s \in Sweeps, Stream(s) \/ Reindex(s) \/ Reconcile(s) \/ SweepStep(s)
      PROVE  SetsOK'
  <2>1. CASE Cascade(s)
    BY <2>1 DEF Cascade
  <2> QED
    BY <1>1, <1>3, <2>1 DEF Stream, Reindex, Reconcile, Load, SweepStep, Look, Save, Flush,
                            SweepFails, db
<1>4. CASE ImportCommit
  <2>1. adding.media \in Media /\ adding.path \in Path
    BY <1>4 DEF ImportCommit, AddingOK, Insert
  <2>2. EditionOf[adding.media] \in Editions
    BY <2>1 DEF Editions
  <2>3. FilmOf[EditionOf[adding.media]] \in Films
    BY <2>2 DEF Films
  <2>4. /\ editions' = editions \cup {EditionOf[adding.media]}
        /\ known' = known \cup {adding.path}
        /\ flagged' \subseteq flagged \cup {FilmOf[EditionOf[adding.media]]}
    BY <1>4 DEF ImportCommit
  <2> QED
    BY <2>1, <2>2, <2>3, <2>4
<1>5. ASSUME NEW p \in DOMAIN disk, ImportInsert(p) \/ ImportDuplicate(p)
      PROVE  SetsOK'
  BY <1>1, <1>5 DEF ImportInsert, ImportDuplicate, db, DiskOK, FileOK
<1>6. CASE AdminStep
  BY <1>6 DEF AdminStep, DeleteMedia, KeepEdition, ResolveFilm, DeleteOriginal, Request
<1>7. CASE People \/ Crash
  BY <1>1, <1>7 DEF People, MoveFile, Crash, db
<1> QED
  BY <1>2, <1>3, <1>4, <1>5, <1>6, <1>7 DEF Next

(* What stays true of the files to come and of the file the job is at.     *)
LEMMA TodoKept ==
    ASSUME TypeInv, Next, tr'.todo \subseteq tr.todo, tr'.snapshot \in {tr.snapshot, None}
    PROVE  TodoOK'
<1>1. layout' = layout
  BY HistoryEffect DEF HistoryStep
<1>2. \A m \in tr.todo : m \in Media /\ row'[m] # None
  BY RowsOnlyGo DEF TypeInv, TranscodeOK, TodoOK, Transcoding
<1> QED
  BY <1>1, <1>2 DEF TypeInv, TranscodeOK, TodoOK, OwnName, RowsOf

LEMMA FileAtKept ==
    ASSUME TypeInv, Next, AtFile, tr'.media = tr.media, OwnName(tr.media, tr'.path),
           Remuxing' => Remuxing \/ ~Unconverted(tr.media)'
    PROVE  FileAtOK'
<1>1. layout' = layout
  BY HistoryEffect DEF HistoryStep
<1>2. tr.media \in Media /\ row[tr.media] # None
  BY DEF TypeInv, TranscodeOK, FileAtOK
<1>3. row'[tr.media] # None /\ (Unconverted(tr.media)' => Unconverted(tr.media))
  BY <1>2, RowsOnlyGo
<1>4. Remuxing => ~Unconverted(tr.media)
  BY DEF TypeInv, TranscodeOK, FileAtOK
<1>5. Remuxing' => ~Unconverted(tr.media)'
  BY <1>3, <1>4
<1> QED
  BY <1>1, <1>2, <1>3, <1>5 DEF FileAtOK, OwnName, Unconverted

LEMMA IdleTyped ==
    ASSUME tr' = NotTranscoding
    PROVE  TranscodeOK'
  BY LimitAssumption
     DEF TranscodeOK, NotTranscoding, Transcoding, TodoOK, FileAtOK, AtFile, SourceOK, TagsOK,
         Encoding, Remuxing

LEMMA NextFileTyped ==
    ASSUME TypeInv, Next, NEW late \in 0..TimeoutLimit,
           tr' = [NextFile(tr) EXCEPT !.late = late]
    PROVE  TranscodeOK'
<1>1. /\ tr' \in Transcoding /\ tr'.pc = "loop"
      /\ tr'.todo = tr.todo /\ tr'.snapshot = tr.snapshot
  BY DEF TypeInv, TranscodeOK, Transcoding, NextFile
<1> QED
  BY <1>1, TodoKept DEF TranscodeOK, FileAtOK, AtFile, SourceOK, TagsOK, Encoding, Remuxing

LEMMA NextFileIs ==
    ASSUME TypeInv
    PROVE  NextFile(tr) = [NextFile(tr) EXCEPT !.late = tr.late] /\ tr.late \in 0..TimeoutLimit
  BY DEF TypeInv, TranscodeOK, Transcoding, NextFile

LEMMA TranscodeTyped ==
    ASSUME TypeInv, Next
    PROVE  TranscodeOK'
<1> USE DEF TypeInv
<1>1. layout' = layout /\ tr \in Transcoding
  BY HistoryEffect DEF HistoryStep, TranscodeOK
<1>2. AtFile => /\ tr.path \in Path /\ tr.media \in Media /\ OwnName(tr.media, tr.path)
  BY DEF TranscodeOK, FileAtOK, OwnName
<1>3. CASE tr' = tr
  <2>1. TodoOK'
    BY <1>3, TodoKept
  <2>2. FileAtOK'
    <3>1. CASE AtFile
      BY <1>2, <1>3, <3>1, FileAtKept DEF Remuxing
    <3> QED
      BY <1>3, <3>1 DEF FileAtOK, AtFile
  <2> QED
    BY <1>1, <1>3, <2>1, <2>2 DEF TranscodeOK, SourceOK, TagsOK, Encoding, Remuxing
<1>4. CASE StartTranscode
  <2>1. tr' = [NotTranscoding EXCEPT !.pc = "loop", !.snapshot = row, !.todo = Rows]
        /\ row' = row
    BY <1>4, NoOrphans
  <2>2. row \in Table /\ Rows \in SUBSET Media /\ 0 \in 0..TimeoutLimit
    BY LimitAssumption DEF RowsOK, Rows, RowsOf
  <2>3. /\ tr' \in Transcoding /\ tr'.pc = "loop" /\ tr'.todo = Rows /\ tr'.snapshot = row
    BY <2>1, <2>2 DEF NotTranscoding, Transcoding
  <2>4. TodoOK'
    BY <1>1, <2>1, <2>3, RowsAre DEF TodoOK, RowsOK, RowOK, OwnName, Rows
  <2> QED
    BY <2>3, <2>4 DEF TranscodeOK, FileAtOK, AtFile, SourceOK, TagsOK, Encoding, Remuxing
<1>5. CASE EndTranscode \/ TranscodeLosesRow \/ TranscodeCommitFails \/ Crash
  BY <1>5, IdleTyped DEF EndTranscode, TranscodeLosesRow, TranscodeCommitFails, Crash
<1>6. CASE SkipFile
  <2>1. PICK m \in tr.todo : tr' = [tr EXCEPT !.todo = @ \ {m}]
    BY <1>6 DEF SkipFile
  <2>2. /\ tr' \in Transcoding /\ tr'.pc = "loop"
        /\ tr'.todo = tr.todo \ {m} /\ tr'.snapshot = tr.snapshot
    BY <1>1, <1>6, <2>1 DEF Transcoding, SkipFile
  <2>3. TodoOK'
    BY <2>2, TodoKept
  <2> QED
    BY <2>2, <2>3 DEF TranscodeOK, FileAtOK, AtFile, SourceOK, TagsOK, Encoding, Remuxing
<1>7. CASE Encode
  <2>1. PICK m \in tr.todo :
           /\ Seen(m) # Gone
           /\ LET p == Seen(m).path IN
              /\ IsFile(p) /\ disk[p].audio = "ac3"
              /\ tr' = [tr EXCEPT !.pc = "encode", !.todo = @ \ {m}, !.media = m,
                                  !.path = p, !.source = disk[p]]
    BY <1>7 DEF Encode
  <2> DEFINE p == Seen(m).path
  <2>2. FileOK(p) /\ m \in Media
    BY <1>1, <2>1 DEF DiskOK, IsFile, Transcoding
  <2>3. p \in Path /\ disk[p] \in Content /\ p.tag = "" /\ disk[p].whole
        /\ p.stem = layout[disk[p].of].stem
    BY <2>1, <2>2 DEF FileOK
  <2>4. OwnName(m, p) /\ row[m] # None
    <3>1. CASE tr.snapshot = None
      <4>1. m \in Rows
        BY <2>1, <2>2, <3>1 DEF Seen, TranscodeOK, TodoOK, Rows, RowsOf
      <4> QED
        BY <2>1, <2>2, <3>1, <4>1 DEF Seen, TranscodeOK, TodoOK, RowsOK, RowOK
    <3>2. CASE tr.snapshot # None
      BY <2>1, <3>2 DEF Seen, TranscodeOK, TodoOK
    <3> QED
      BY <3>1, <3>2
  <2> HIDE DEF p
  <2>5. /\ tr' = [tr EXCEPT !.pc = "encode", !.todo = @ \ {m}, !.media = m,
                            !.path = p, !.source = disk[p]]
    BY <2>1 DEF p
  <2>6. /\ tr' \in Transcoding /\ tr'.pc = "encode" /\ tr'.todo = tr.todo \ {m}
        /\ tr'.snapshot = tr.snapshot /\ tr'.media = m /\ tr'.path = p /\ tr'.source = disk[p]
    BY <1>1, <2>2, <2>3, <2>5 DEF Transcoding
  <2>7. TodoOK'
    BY <2>6, TodoKept
  <2>8. FileAtOK'
    <3>1. row' = row
      BY <1>7 DEF Encode, OnlyTr, db
    <3> QED
      BY <1>1, <2>2, <2>4, <2>6, <3>1 DEF FileAtOK, OwnName, Remuxing
  <2>9. SourceOK' /\ TagsOK'
    BY <1>1, <2>3, <2>6 DEF SourceOK, TagsOK, Encoding, Remuxing
  <2> QED
    BY <2>6, <2>7, <2>8, <2>9 DEF TranscodeOK
<1>8. CASE EncodeFails \/ RemuxFails \/ CommitWeb
  <2>1. tr' = NextFile(tr)
    BY <1>8 DEF EncodeFails, RemuxFails, CommitWeb
  <2> QED
    BY <2>1, NextFileIs, NextFileTyped
<1>9. CASE EncodeTimesOut
  <2>1. tr.late \in 0..TimeoutLimit
    BY <1>1 DEF Transcoding
  <2>2. CASE tr.late + 1 >= TimeoutLimit
    BY <1>9, <2>2, IdleTyped DEF EncodeTimesOut
  <2>3. CASE ~(tr.late + 1 >= TimeoutLimit)
    <3>1. tr.late + 1 \in 0..TimeoutLimit
      BY <2>1, <2>3, LimitAssumption
    <3>2. tr' = [NextFile(tr) EXCEPT !.late = tr.late + 1]
      BY <1>1, <1>9, <2>3 DEF EncodeTimesOut, NextFile, Transcoding
    <3> QED
      BY <3>1, <3>2, NextFileTyped
  <2> QED
    BY <2>2, <2>3
<1>10. CASE Encoded
  <2>1. /\ tr' \in Transcoding /\ tr.pc = "encode" /\ tr'.pc = "commit" /\ tr'.todo = tr.todo
        /\ tr'.snapshot = tr.snapshot /\ tr'.media = tr.media /\ tr'.path = tr.path
    BY <1>1, <1>10 DEF Encoded, Transcoding
  <2>2. TodoOK'
    BY <2>1, TodoKept
  <2>3. FileAtOK'
    BY <1>2, <2>1, FileAtKept DEF AtFile, Remuxing
  <2> QED
    BY <2>1, <2>2, <2>3 DEF TranscodeOK, SourceOK, TagsOK, Encoding, Remuxing
<1>11. CASE CommitConverted
  <2>1. tr.pc = "commit" /\ tr.path \in Path /\ tr.media \in Media /\ OwnName(tr.media, tr.path)
    BY <1>2, <1>11 DEF CommitConverted, AtFile
  <2>2. /\ Converted(tr.path) \in Path /\ Converted(tr.path).tag = "tr"
        /\ Converted(tr.path).stem = tr.path.stem
    BY <2>1, Named
  <2>3. /\ tr' \in Transcoding /\ tr'.pc = "remux" /\ tr'.todo = tr.todo
        /\ tr'.snapshot = None /\ tr'.media = tr.media /\ tr'.path = Converted(tr.path)
    <3> DEFINE p == Converted(tr.path)
    <3>1. tr' = [tr EXCEPT !.pc = "remux", !.path = p, !.snapshot = None, !.late = 0]
      BY <1>11 DEF CommitConverted
    <3>2. p \in Path /\ 0 \in 0..TimeoutLimit
      BY <2>2, LimitAssumption
    <3> HIDE DEF p
    <3>3. /\ tr' \in Transcoding /\ tr'.pc = "remux" /\ tr'.todo = tr.todo
          /\ tr'.snapshot = None /\ tr'.media = tr.media /\ tr'.path = p
      BY <1>1, <3>1, <3>2 DEF Transcoding
    <3> QED
      BY <3>3 DEF p
  <2>4. row'[tr.media].audio = "aac"
    <3>1. row \in Table
      BY DEF RowsOK
    <3> QED
      BY <1>11, <2>1, <3>1 DEF CommitConverted, Table
  <2>5. TodoOK'
    BY <2>3, TodoKept
  <2>6. FileAtOK'
    BY <2>1, <2>2, <2>3, <2>4, FileAtKept DEF AtFile, Remuxing, OwnName, Unconverted
  <2> QED
    BY <2>2, <2>3, <2>5, <2>6 DEF TranscodeOK, SourceOK, TagsOK, Encoding, Remuxing
<1>12. CASE Remux
  <2>1. CASE Web(tr.path) # tr.path /\ IsFile(tr.path)
    <3>1. FileOK(tr.path) /\ tr.path.tag = "tr" /\ tr.snapshot = None
      BY <1>12, <2>1 DEF Remux, DiskOK, IsFile, TranscodeOK, TagsOK, Remuxing
    <3>2. tr.path \in Path /\ disk[tr.path] \in Content /\ disk[tr.path].audio = "aac"
          /\ tr.path.stem = layout[disk[tr.path].of].stem
      BY <3>1 DEF FileOK
    <3>3. tr.path.ext = "mkv"
      <4>1. tr.path.ext \in {"mkv", "mp4"}
        BY <3>2 DEF Path
      <4>2. ASSUME tr.path.ext = "mp4"
            PROVE  FALSE
        BY <2>1, <3>1, <3>2, <4>2, SamePath, Named DEF SameName
      <4> QED
        BY <4>1, <4>2
    <3>4. disk[tr.path].whole
      BY <3>1, <3>3 DEF FileOK
    <3>5. /\ tr' \in Transcoding /\ tr.pc = "remux" /\ tr'.pc = "remuxing" /\ tr'.todo = tr.todo
          /\ tr'.snapshot = tr.snapshot /\ tr'.media = tr.media /\ tr'.path = tr.path
          /\ tr'.source = disk[tr.path]
      BY <1>1, <1>12, <2>1, <3>2 DEF Remux, Transcoding
    <3>6. TodoOK'
      BY <3>5, TodoKept
    <3>7. FileAtOK'
      BY <1>2, <3>5, FileAtKept DEF AtFile, Remuxing
    <3>8. SourceOK' /\ TagsOK'
      BY <1>1, <3>1, <3>2, <3>3, <3>4, <3>5 DEF SourceOK, TagsOK, Encoding, Remuxing
    <3> QED
      BY <3>5, <3>6, <3>7, <3>8 DEF TranscodeOK
  <2>2. CASE ~(Web(tr.path) # tr.path /\ IsFile(tr.path))
    <3>1. tr' = NextFile(tr)
      BY <1>12, <2>2 DEF Remux
    <3> QED
      BY <3>1, NextFileIs, NextFileTyped
  <2> QED
    BY <2>1, <2>2
<1>13. CASE Remuxed \/ Swap
  <2>1. /\ tr' \in Transcoding /\ Remuxing /\ tr.pc # "remux" /\ tr'.pc \in {"swap", "commitWeb"}
        /\ tr'.todo = tr.todo /\ tr'.snapshot = tr.snapshot
        /\ tr'.media = tr.media /\ tr'.path = tr.path
    BY <1>1, <1>13 DEF Remuxed, Swap, Transcoding, Remuxing
  <2>2. TodoOK'
    BY <2>1, TodoKept
  <2>3. FileAtOK'
    BY <1>2, <2>1, FileAtKept DEF AtFile, Remuxing
  <2>4. tr.path.tag = "tr" /\ tr.path.ext = "mkv" /\ tr.snapshot = None
    BY <2>1 DEF TranscodeOK, TagsOK
  <2> QED
    BY <2>1, <2>2, <2>3, <2>4 DEF TranscodeOK, SourceOK, TagsOK, Encoding, Remuxing
<1>14. CASE TranscodeStep
  BY <1>5, <1>6, <1>7, <1>8, <1>9, <1>10, <1>11, <1>12, <1>13, <1>14 DEF TranscodeStep
<1>15. CASE \/ \E s \in Sweeps : Stream(s) \/ Reindex(s) \/ Reconcile(s) \/ SweepStep(s)
            \/ \E p \in DOMAIN disk : ImportInsert(p) \/ ImportDuplicate(p)
            \/ ImportCommit
  BY <1>3, <1>15
     DEF Stream, Reindex, Reconcile, Load, SweepStep, Look, Save, Flush, SweepFails, Cascade,
         ImportInsert, ImportDuplicate, ImportCommit
<1>16. CASE AdminStep \/ People
  BY <1>3, <1>16 DEF AdminStep, DeleteMedia, KeepEdition, ResolveFilm, DeleteOriginal, Request,
                     People, MoveFile
<1> QED
  BY <1>4, <1>5, <1>14, <1>15, <1>16 DEF Next

LEMMA TypesKept == TypeInv /\ [Next]_vars => TypeInv'
<1>1. ASSUME TypeInv, Next
      PROVE  TypeInv'
  <2>1. LayoutOK'
    BY <1>1, HistoryEffect DEF TypeInv, LayoutOK, HistoryStep
  <2> QED
    BY <1>1, <2>1, FilesTyped, RowsTyped, SweepsTyped, LocksKept, AddingTyped, TranscodeTyped,
       SetsTyped DEF TypeInv
<1>2. ASSUME TypeInv, UNCHANGED vars
      PROVE  TypeInv'
  <2> USE <1>2 DEF vars, db, TypeInv
  <2>1. LayoutOK' /\ DiskOK' /\ RowsOK' /\ AddingOK' /\ SetsOK'
    BY DEF LayoutOK, DiskOK, FileOK, RowsOK, RowOK, OwnName, Unconverted, Rows, RowsOf,
           AddingOK, SetsOK
  <2>2. SweepsOK' /\ LocksOK'
    BY DEF SweepsOK, LoadedOK, ChangeOK, OwnName, Unconverted, Rows, RowsOf, LocksOK, LockedBy
  <2>3. TranscodeOK'
    BY DEF TranscodeOK, TodoOK, FileAtOK, SourceOK, TagsOK, AtFile, Encoding, Remuxing, OwnName,
           Unconverted, Rows, RowsOf
  <2> QED
    BY <2>1, <2>2, <2>3
<1> QED
  BY <1>1, <1>2

LEMMA TypeInvariant == Spec => []TypeInv
  BY InitTyped, TypesKept, PTL DEF Spec

(* The variables have their types; a transcode converts originals only, so *)
(* that the names of the model are all the names there are.                *)
THEOREM TypesCorrect == Spec => []TypeOK
<1>1. TypeInv => TypeOK
  BY DEF TypeInv, TypeOK, DiskOK, FileOK, RowsOK, SetsOK, TranscodeOK, TagsOK, Encoding, SweepsOK
<1> QED
  BY <1>1, TypeInvariant, PTL

(* What _transcode_job, the sweeps and the imports write and delete has a  *)
(* tag: a film file without one is taken away by a person only.            *)
THEOREM OriginalsKept == Spec => OriginalsStay
<1>1. ASSUME TypeInv, [Next]_vars, NEW p \in DOMAIN disk, p.tag = ""
      PROVE  \/ p \in DOMAIN disk' /\ disk'[p] = disk[p]
             \/ DeleteOriginal(p)
             \/ People
  <2>1. CASE Next
    <3>1. Kept(p) \/ FileLost(p)
      BY <1>1, <2>1, FileEffect DEF FilesStep
    <3>2. AtFile => /\ Converted(tr.path).tag = "tr" /\ Web(tr.path).tag = "tr"
                    /\ tr.pc = "swap" => tr.path.tag = "tr"
      BY <1>1, Named DEF TypeInv, TranscodeOK, FileAtOK, OwnName, TagsOK, Remuxing
    <3> QED
      BY <1>1, <3>1, <3>2 DEF Kept, FileLost, AtFile, Encoded, Remux, Remuxed, RemuxFails, Swap
  <2>2. CASE UNCHANGED vars
    BY <2>2 DEF vars
  <2> QED
    BY <1>1, <2>1, <2>2
<1>2. TypeInv /\ [Next]_vars =>
        [\A p \in DOMAIN disk : p.tag = "" =>
           \/ p \in DOMAIN disk' /\ disk'[p] = disk[p]
           \/ DeleteOriginal(p)
           \/ People]_vars
  BY <1>1
<1> QED
  BY <1>2, TypeInvariant, PTL DEF Spec, OriginalsStay

-----------------------------------------------------------------------------
(* What a step does to the file the transcode job is at.                   *)
SameFile ==
    /\ AtFile /\ tr'.media = tr.media /\ tr'.path = tr.path
    /\ ~Encode /\ ~CommitConverted /\ ~CommitWeb /\ ~RemuxFails
    /\ (Remuxing' <=> Remuxing)
    /\ \/ tr' = tr /\ ~Encoded /\ ~Remux /\ ~Remuxed /\ ~Swap
       \/ Encoded /\ tr'.pc = "commit"
       \/ /\ Remux /\ tr.pc = "remux" /\ tr'.pc = "remuxing"
          /\ IsFile(tr.path) /\ tr'.source = disk[tr.path]
       \/ Remuxed /\ tr.pc = "remuxing" /\ tr'.pc = "swap"
       \/ Swap /\ tr.pc = "swap" /\ tr'.pc = "commitWeb"
NextRow ==
    /\ Encode /\ tr'.media \in tr.todo
    /\ tr'.path = Seen(tr'.media).path /\ Seen(tr'.media) # Gone
    /\ tr'.pc = "encode" /\ IsFile(tr'.path) /\ disk[tr'.path].audio = "ac3"
    /\ tr'.source = disk[tr'.path]
RowConverted ==
    /\ CommitConverted /\ tr.pc = "commit" /\ tr'.pc = "remux"
    /\ tr'.media = tr.media /\ tr'.path = Converted(tr.path)
JobStep ==
    /\ AtFile' => SameFile \/ NextRow \/ RowConverted
    /\ StartTranscode \/ (tr'.todo \subseteq tr.todo /\ tr'.snapshot \in {tr.snapshot, None})

LEMMA JobEffect ==
    ASSUME TypeInv, Next
    PROVE  JobStep
<1>1. tr \in Transcoding
  BY DEF TypeInv, TranscodeOK
<1>2. ASSUME tr' = tr
      PROVE  JobStep
  <2>1. ~EncodeFails /\ ~Encode /\ ~Encoded /\ ~CommitConverted /\ ~Remux /\ ~Remuxed
        /\ ~RemuxFails /\ ~Swap /\ ~CommitWeb
    BY <1>1, <1>2 DEF EncodeFails, Encode, Encoded, CommitConverted, Remux, Remuxed, RemuxFails,
                      Swap, CommitWeb, NextFile, Transcoding
  <2> QED
    BY <1>2, <2>1 DEF JobStep, SameFile, AtFile, Remuxing
<1>3. ASSUME tr'.pc \in {"idle", "loop"}, tr'.todo \subseteq tr.todo,
             tr'.snapshot \in {tr.snapshot, None}
      PROVE  JobStep
  BY <1>3 DEF JobStep, AtFile
<1>4. ASSUME tr' = NotTranscoding
      PROVE  JobStep
  BY <1>3, <1>4 DEF NotTranscoding
<1>5. CASE StartTranscode
  <2>1. tr'.pc = "loop"
    BY <1>5, NoOrphans DEF NotTranscoding
  <2> QED
    BY <1>5, <2>1 DEF JobStep, AtFile
<1>6. ASSUME tr' = NextFile(tr)
      PROVE  JobStep
  BY <1>1, <1>3, <1>6 DEF NextFile, Transcoding
<1>7. CASE SkipFile
  <2>1. PICK m \in tr.todo : tr' = [tr EXCEPT !.todo = @ \ {m}]
    BY <1>7 DEF SkipFile
  <2>2. tr'.pc = "loop" /\ tr'.todo \subseteq tr.todo /\ tr'.snapshot = tr.snapshot
    BY <1>1, <1>7, <2>1 DEF SkipFile, Transcoding
  <2> QED
    BY <1>3, <2>2
<1>8. CASE EncodeTimesOut
  <2>1. CASE tr' = NotTranscoding
    BY <1>4, <2>1
  <2>2. CASE tr' = [NextFile(tr) EXCEPT !.late = tr.late + 1]
    BY <1>1, <1>3, <2>2 DEF NextFile, Transcoding
  <2> QED
    BY <1>1, <1>8, <2>1, <2>2 DEF EncodeTimesOut, NextFile, Transcoding
<1>9. CASE Encode
  <2>1. PICK m \in tr.todo :
           /\ Seen(m) # Gone
           /\ LET p == Seen(m).path IN
              /\ IsFile(p) /\ disk[p].audio = "ac3"
              /\ tr' = [tr EXCEPT !.pc = "encode", !.todo = @ \ {m}, !.media = m,
                                  !.path = p, !.source = disk[p]]
    BY <1>9 DEF Encode
  <2> DEFINE p == Seen(m).path
  <2>2. /\ tr'.pc = "encode" /\ tr'.todo = tr.todo \ {m} /\ tr'.snapshot = tr.snapshot
        /\ tr'.media = m /\ tr'.path = p /\ tr'.source = disk[p]
    BY <1>1, <2>1 DEF Transcoding
  <2> QED
    BY <1>9, <2>1, <2>2 DEF JobStep, NextRow
<1>10. CASE Encoded \/ Remuxed \/ Swap
  <2>1. /\ tr'.media = tr.media /\ tr'.path = tr.path /\ tr'.todo = tr.todo
        /\ tr'.snapshot = tr.snapshot
        /\ \/ Encoded /\ tr.pc = "encode" /\ tr'.pc = "commit"
           \/ Remuxed /\ tr.pc = "remuxing" /\ tr'.pc = "swap"
           \/ Swap /\ tr.pc = "swap" /\ tr'.pc = "commitWeb"
    BY <1>1, <1>10 DEF Encoded, Remuxed, Swap, Transcoding
  <2>2. ~Encode /\ ~CommitConverted /\ ~CommitWeb /\ ~RemuxFails
    BY <1>1, <2>1 DEF Encode, CommitConverted, CommitWeb, RemuxFails, NextFile, Transcoding
  <2> QED
    BY <2>1, <2>2 DEF JobStep, SameFile, AtFile, Remuxing
<1>11. CASE Remux
  <2>1. CASE Web(tr.path) # tr.path /\ IsFile(tr.path)
    <3>1. /\ tr'.media = tr.media /\ tr'.path = tr.path /\ tr'.todo = tr.todo
          /\ tr'.snapshot = tr.snapshot /\ tr'.source = disk[tr.path]
          /\ tr.pc = "remux" /\ tr'.pc = "remuxing"
      BY <1>1, <1>11, <2>1 DEF Remux, Transcoding
    <3>2. ~Encode /\ ~CommitConverted /\ ~CommitWeb /\ ~RemuxFails
      BY <3>1 DEF Encode, CommitConverted, CommitWeb, RemuxFails
    <3> QED
      BY <1>11, <2>1, <3>1, <3>2 DEF JobStep, SameFile, AtFile, Remuxing
  <2>2. CASE ~(Web(tr.path) # tr.path /\ IsFile(tr.path))
    BY <1>6, <1>11, <2>2 DEF Remux
  <2> QED
    BY <2>1, <2>2
<1>12. CASE CommitConverted
  <2>1. /\ tr.pc = "commit" /\ tr'.pc = "remux" /\ tr'.media = tr.media
        /\ tr'.path = Converted(tr.path) /\ tr'.todo = tr.todo /\ tr'.snapshot = None
    BY <1>1, <1>12 DEF CommitConverted, Transcoding
  <2> QED
    BY <1>12, <2>1 DEF JobStep, RowConverted
<1>13. CASE TranscodeStep
  BY <1>4, <1>6, <1>7, <1>8, <1>9, <1>10, <1>11, <1>12, <1>13
     DEF TranscodeStep, EndTranscode, TranscodeLosesRow, EncodeFails, TranscodeCommitFails,
         RemuxFails, CommitWeb
<1>14. CASE Crash
  BY <1>4, <1>14 DEF Crash
<1>15. CASE \/ \E s \in Sweeps : Stream(s) \/ Reindex(s) \/ Reconcile(s) \/ SweepStep(s)
            \/ \E p \in DOMAIN disk : ImportInsert(p) \/ ImportDuplicate(p)
            \/ ImportCommit
  BY <1>2, <1>15
     DEF Stream, Reindex, Reconcile, Load, SweepStep, Look, Save, Flush, SweepFails, Cascade,
         ImportInsert, ImportDuplicate, ImportCommit
<1>16. CASE AdminStep \/ People
  BY <1>2, <1>16 DEF AdminStep, DeleteMedia, KeepEdition, ResolveFilm, DeleteOriginal, Request,
                     People, MoveFile
<1> QED
  BY <1>5, <1>13, <1>14, <1>15, <1>16 DEF Next

(* A row that no sweep gave another name has the name it had, unless the   *)
(* transcode job has just committed one.                                   *)
LEMMA NameStep ==
    ASSUME TypeInv, Next, NEW m \in Media, row[m] # None, m \in Rows' \ reverted'
    PROVE  /\ m \in Rows \ reverted
           /\ \/ SameName(row'[m].path, row[m].path)
              \/ CommitConverted /\ m = tr.media /\ row'[m].path = Converted(tr.path)
              \/ CommitWeb /\ m = tr.media /\ row'[m].path = Web(tr.path)
<1>1. /\ row \in Table /\ RowStep(m) /\ m \in Rows /\ reverted \subseteq reverted'
      /\ row'[m] # Gone
  BY RowEffect, HistoryEffect, RowsOnlyGo DEF TypeInv, RowsOK, HistoryStep, Rows, RowsOf
<1>2. AtFile => tr.path \in Path
  BY DEF TypeInv, TranscodeOK, FileAtOK, OwnName
<1>3. CASE row'[m] = row[m]
  BY <1>1, <1>3 DEF SameName
<1>4. CASE CommitConverted /\ m = tr.media
           /\ row'[m] = [path |-> Converted(tr.path), audio |-> "aac"]
  BY <1>1, <1>4
<1>5. CASE CommitWeb /\ m = tr.media /\ row'[m] = [row[m] EXCEPT !.path = Web(tr.path)]
  <2>1. Web(tr.path) \in Path
    BY <1>2, <1>5, Named DEF CommitWeb, AtFile
  <2> QED
    BY <1>1, <1>5, <2>1, RowsAre, Repathed
<1>6. CASE \E s \in Sweeps : Rewritten(s, m)
  <2>1. PICK s \in Sweeps : Rewritten(s, m)
    BY <1>6
  <2>2. SameName(sweep[s].change[m], row[m].path)
    BY <2>1, HistoryEffect DEF HistoryStep
  <2>3. row'[m].path = sweep[s].change[m]
    BY <1>1, <2>1, RowsAre, Repathed DEF Rewritten
  <2> QED
    BY <1>1, <2>2, <2>3
<1>7. ~(ImportCommit /\ m = adding.media)
  BY DEF TypeInv, AddingOK, ImportCommit
<1> QED
  BY <1>1, <1>3, <1>4, <1>5, <1>6, <1>7 DEF RowStep

(* Names without a clash: only its own file has a row's name.              *)
LEMMA OnlyOwn ==
    ASSUME TypeInv, NEW m \in Media, ~Clash(m)
    PROVE  /\ \A n \in Media : layout[n].stem = layout[m].stem => n = m
           /\ AtFile /\ tr.path.stem = layout[m].stem => tr.media = m
<1>1. \A n \in Media : layout[n].stem = layout[m].stem => n = m
  BY DEF Clash
<1> QED
  BY <1>1 DEF TypeInv, TranscodeOK, FileAtOK, OwnName

(* Only a remux makes a part with a final name.                            *)
LEMMA PartStep ==
    ASSUME TypeInv, Next, NEW m \in Media, NEW q, PartOf(m, q)'
    PROVE  PartOf(m, q) \/ (/\ Remux /\ tr'.pc = "remuxing" /\ q = Web(tr.path)
                            /\ AtFile /\ tr.path.stem = layout[m].stem)
<1>1. /\ q \in DOMAIN disk' /\ q.tag = "tr" /\ ~disk'[q].whole /\ q.stem = layout[m].stem
      /\ FileStep(q)
  BY HistoryEffect, FileEffect DEF PartOf, HistoryStep, FilesStep
<1>2. AtFile => tr.path \in Path
  BY DEF TypeInv, TranscodeOK, FileAtOK, OwnName
<1>3. CASE q \in DOMAIN disk /\ disk'[q] = disk[q]
  BY <1>1, <1>3 DEF PartOf
<1>4. CASE Encode /\ tr'.path \in DOMAIN disk /\ q = Temp(tr'.path)
  BY <1>1, <1>4, Named DEF TypeInv, DiskOK, FileOK
<1>5. CASE Encoded /\ disk'[q] = [tr.source EXCEPT !.audio = "aac"]
  <2>1. tr.source \in Content
    BY <1>5 DEF Encoded, TypeInv, TranscodeOK, SourceOK
  <2>2. tr.source.whole
    BY <1>5 DEF Encoded, TypeInv, TranscodeOK, SourceOK
  <2>3. disk'[q].whole
    BY <1>5, <2>1, <2>2 DEF Content
  <2> QED
    BY <1>1, <2>3
<1>6. CASE Remux /\ tr.path \in DOMAIN disk /\ Web(tr.path) # tr.path /\ q = Web(tr.path)
  <2>1. tr'.pc = "remuxing" /\ AtFile
    BY <1>6 DEF Remux, IsFile, TypeInv, TranscodeOK, Transcoding, AtFile
  <2>2. tr.path.stem = q.stem
    BY <1>2, <1>6, <2>1, Named
  <2> QED
    BY <1>1, <1>6, <2>1, <2>2
<1>7. CASE Remuxed /\ disk'[q] = tr.source
  BY <1>1, <1>7 DEF Remuxed, TypeInv, TranscodeOK, SourceOK
<1>8. CASE \E o \in DOMAIN disk : disk[o].whole /\ disk'[q] = disk[o]
  BY <1>1, <1>8
<1> QED
  BY <1>1, <1>3, <1>4, <1>5, <1>6, <1>7, <1>8 DEF FileStep

-----------------------------------------------------------------------------
(* No row that has the name it was given has the name of a part.           *)
LEMMA ClashStays ==
    ASSUME TypeInv, Next
    PROVE  /\ \A m \in Media : Clash(m)' <=> Clash(m)
           /\ \A m \in Media : Current(m)' /\ row[m] # None => Current(m)
<1>1. layout' = layout /\ reverted \subseteq reverted'
  BY HistoryEffect DEF HistoryStep
<1>2. \A m \in Media : Clash(m)' <=> Clash(m)
  BY <1>1 DEF Clash
<1> QED
  BY <1>1, <1>2, RowsOnlyGo DEF Current

LEMMA PartsKept ==
    ASSUME TypeInv, WholeInv, Next
    PROVE  PartsOK'
<1> SUFFICES ASSUME NEW m \in Media, NEW q, PartOf(m, q)', ~Clash(m)'
             PROVE  /\ row'[m] # None
                    /\ m \in Rows' \ reverted' =>
                         row'[m].path.tag = "tr" /\ row'[m].path.ext = "mkv"
  BY DEF PartsOK
<1>1. ~Clash(m)
  BY ClashStays
<1>2. CASE PartOf(m, q)
  <2>1. row[m] # None
        /\ (m \in Rows \ reverted => row[m].path.tag = "tr" /\ row[m].path.ext = "mkv")
    BY <1>1, <1>2 DEF WholeInv, PartsOK, PartOf
  <2>2. row'[m] # None
    BY <2>1, RowsOnlyGo
  <2>3. ASSUME m \in Rows' \ reverted'
        PROVE  row'[m].path.tag = "tr" /\ row'[m].path.ext = "mkv"
    <3>1. m \in Rows \ reverted
      BY <2>1, <2>3, NameStep
    <3>2. CASE SameName(row'[m].path, row[m].path)
      BY <2>1, <3>1, <3>2 DEF SameName
    <3>3. ~(CommitConverted /\ m = tr.media)
      BY <2>1, <3>1
         DEF CommitConverted, WholeInv, NamesOK, SameName, AtFile, TypeInv, TranscodeOK, TagsOK,
             Encoding
    <3>4. ~(CommitWeb /\ m = tr.media)
      BY <1>1, <1>2, <3>1
         DEF CommitWeb, WholeInv, NoPartsOK, Current, Remuxing, PartOf
    <3> QED
      BY <2>1, <2>3, <3>2, <3>3, <3>4, NameStep
  <2> QED
    BY <2>2, <2>3
<1>3. CASE Remux /\ tr'.pc = "remuxing" /\ AtFile /\ tr.path.stem = layout[m].stem
  <2>1. m = tr.media /\ row[m] # None
    BY <1>1, <1>3, OnlyOwn DEF TypeInv, TranscodeOK, FileAtOK
  <2>2. row' = row /\ tr'.path = tr.path
    BY <1>3 DEF Remux, OnlyTr, db, NextFile, TypeInv, TranscodeOK, Transcoding
  <2>3. tr.path.tag = "tr" /\ tr.path.ext = "mkv"
    <3>1. TagsOK /\ TagsOK'
      BY TranscodeTyped DEF TypeInv, TranscodeOK
    <3> QED
      BY <1>3, <2>2, <3>1 DEF TagsOK, Remuxing, Remux
  <2>4. m \in Rows' \ reverted' => m \in Rows \ reverted
    BY <2>1, NameStep
  <2>5. m \in Rows \ reverted => SameName(row[m].path, tr.path)
    BY <1>3, <2>1 DEF WholeInv, NamesOK
  <2> QED
    BY <2>1, <2>2, <2>3, <2>4, <2>5 DEF SameName
<1> QED
  BY <1>2, <1>3, PartStep

LEMMA NamesKept ==
    ASSUME TypeInv, WholeInv, Next
    PROVE  NamesOK'
<1>1. JobStep
  BY JobEffect
<1>2. ASSUME AtFile', tr'.media \in Rows' \ reverted'
      PROVE  SameName(row'[tr'.media].path, tr'.path)
  <2>1. CASE SameFile
    <3>1. tr'.media = tr.media /\ tr'.path = tr.path /\ AtFile /\ tr.media \in Media
          /\ row[tr.media] # None
      BY <2>1 DEF SameFile, TypeInv, TranscodeOK, FileAtOK
    <3>2. /\ tr.media \in Rows \ reverted
          /\ SameName(row'[tr.media].path, row[tr.media].path)
      BY <1>2, <2>1, <3>1, NameStep DEF SameFile
    <3>3. SameName(row[tr.media].path, tr.path)
      BY <3>1, <3>2 DEF WholeInv, NamesOK
    <3> QED
      BY <3>1, <3>2, <3>3 DEF SameName
  <2>2. CASE NextRow
    <3> DEFINE m == tr'.media
    <3>1. m \in tr.todo /\ tr'.path = Seen(m).path /\ row' = row /\ m \in Media
          /\ row[m] # None
      BY <2>2 DEF NextRow, Encode, OnlyTr, db, TypeInv, TranscodeOK, TodoOK, Transcoding
    <3>2. m \in Rows \ reverted
      BY <1>2, <3>1, NameStep
    <3>3. CASE tr.snapshot = None
      BY <3>1, <3>3 DEF Seen, SameName
    <3>4. CASE tr.snapshot # None
      <4>1. SameName(row[m].path, tr.snapshot[m].path)
        BY <3>1, <3>2, <3>4 DEF WholeInv, NamesOK
      <4> QED
        BY <3>1, <3>4, <4>1 DEF Seen
    <3> QED
      BY <3>3, <3>4
  <2>3. CASE RowConverted
    <3>1. CommitConverted /\ tr'.media = tr.media /\ tr'.path = Converted(tr.path)
          /\ tr.media \in Media /\ row \in Table
      BY <2>3 DEF RowConverted, TypeInv, TranscodeOK, FileAtOK, AtFile, RowsOK
    <3>2. row'[tr.media] = [path |-> Converted(tr.path), audio |-> "aac"]
      BY <3>1 DEF CommitConverted, Table
    <3> QED
      BY <3>1, <3>2 DEF SameName
  <2> QED
    BY <1>1, <1>2, <2>1, <2>2, <2>3 DEF JobStep
<1>3. ASSUME NEW m \in tr'.todo, tr'.snapshot # None, m \in Rows' \ reverted'
      PROVE  SameName(row'[m].path, tr'.snapshot[m].path)
  <2>1. CASE StartTranscode
    <3>1. tr'.snapshot = row /\ row' = row
      BY <2>1, NoOrphans DEF NotTranscoding
    <3> QED
      BY <3>1 DEF SameName
  <2>2. CASE tr'.todo \subseteq tr.todo /\ tr'.snapshot = tr.snapshot
    <3>1. m \in tr.todo /\ m \in Media /\ row[m] # None
      BY <1>3, <2>2 DEF TypeInv, TranscodeOK, TodoOK, Transcoding
    <3>2. ~CommitConverted
      BY <1>3 DEF CommitConverted, TypeInv, TranscodeOK, Transcoding
    <3>3. ~CommitWeb
      BY <1>3, <2>2 DEF CommitWeb, TypeInv, TranscodeOK, TagsOK, Remuxing
    <3>4. m \in Rows \ reverted /\ SameName(row'[m].path, row[m].path)
      BY <1>3, <3>1, <3>2, <3>3, NameStep
    <3>5. SameName(row[m].path, tr.snapshot[m].path)
      BY <1>3, <2>2, <3>1, <3>4 DEF WholeInv, NamesOK
    <3> QED
      BY <2>2, <3>4, <3>5 DEF SameName
  <2> QED
    BY <1>1, <1>3, <2>1, <2>2 DEF JobStep
<1> QED
  BY <1>2, <1>3 DEF NamesOK, SameName

LEMMA NoPartsKept ==
    ASSUME TypeInv, WholeInv, Next
    PROVE  NoPartsOK'
<1> SUFFICES ASSUME Remuxing', Current(tr.media)', NEW q, PartOf(tr.media, q)'
             PROVE  tr'.pc = "remuxing" /\ q = Web(tr'.path)
  BY DEF NoPartsOK
<1>1. SameFile \/ NextRow \/ RowConverted
  BY JobEffect DEF JobStep, Remuxing, AtFile
<1>2. ~NextRow
  BY DEF NextRow, Remuxing
<1>3. /\ AtFile /\ tr'.media = tr.media /\ tr.media \in Media /\ row[tr.media] # None
      /\ PartOf(tr.media, q)'
  <2>1. AtFile /\ tr'.media = tr.media
    BY <1>1, <1>2 DEF SameFile, RowConverted, AtFile
  <2> QED
    BY <2>1 DEF TypeInv, TranscodeOK, FileAtOK, PartOf
<1>4. Current(tr.media)
  BY <1>3, ClashStays DEF Current
<1>5. CASE RowConverted
  <2>1. PartOf(tr.media, q)
    BY <1>3, <1>5, PartStep DEF RowConverted, Remux
  <2>2. row[tr.media].path.tag = "tr"
    BY <1>3, <1>4, <2>1 DEF WholeInv, PartsOK, Current, PartOf
  <2>3. SameName(row[tr.media].path, tr.path) /\ tr.path.tag = ""
    BY <1>3, <1>4, <1>5
       DEF WholeInv, NamesOK, Current, RowConverted, TypeInv, TranscodeOK, TagsOK, Encoding
  <2> QED
    BY <2>2, <2>3 DEF SameName
<1>6. CASE SameFile
  <2>1. Remuxing /\ tr'.path = tr.path
    BY <1>6 DEF SameFile
  <2>2. CASE PartOf(tr.media, q)
    <3>1. tr.pc = "remuxing" /\ q = Web(tr.path)
      BY <1>4, <2>1, <2>2 DEF WholeInv, NoPartsOK, PartOf
    <3>2. ~Remuxed
      <4>1. ASSUME Remuxed
            PROVE  FALSE
        <5>1. disk'[q] = tr.source
          BY <3>1, <4>1, PutEffect DEF Remuxed
        <5> QED
          BY <1>3, <3>1, <5>1 DEF PartOf, TypeInv, TranscodeOK, SourceOK
      <4> QED
        BY <4>1
    <3> QED
      BY <1>6, <2>1, <3>1, <3>2 DEF SameFile, Encoded
  <2>3. CASE Remux /\ tr'.pc = "remuxing" /\ q = Web(tr.path)
    BY <2>1, <2>3
  <2> QED
    BY <1>3, <2>2, <2>3, PartStep
<1> QED
  BY <1>1, <1>2, <1>5, <1>6

LEMMA InitWhole == Init => WholeInv
<1> SUFFICES ASSUME Init
             PROVE  WholeInv
  OBVIOUS
<1>1. \A p \in DOMAIN disk : disk[p].whole
  BY DEF Init
<1>2. PartsOK /\ NoPartsOK
  BY <1>1 DEF PartsOK, NoPartsOK, PartOf
<1>3. NamesOK
  BY DEF Init, NotTranscoding, NamesOK, AtFile
<1> QED
  BY <1>2, <1>3 DEF WholeInv

LEMMA WholeKept == TypeInv /\ WholeInv /\ [Next]_vars => WholeInv'
<1>1. ASSUME TypeInv, WholeInv, Next
      PROVE  WholeInv'
  BY <1>1, PartsKept, NamesKept, NoPartsKept DEF WholeInv
<1>2. ASSUME WholeInv, UNCHANGED vars
      PROVE  WholeInv'
  BY <1>2 DEF vars, db, WholeInv, PartsOK, NamesOK, NoPartsOK, PartOf, Current, Clash, AtFile,
              Remuxing, Rows, RowsOf
<1> QED
  BY <1>1, <1>2

LEMMA WholeInvariant == Spec => [](TypeInv /\ WholeInv)
<1>1. Init => TypeInv /\ WholeInv
  BY InitTyped, InitWhole
<1>2. TypeInv /\ WholeInv /\ [Next]_vars => (TypeInv /\ WholeInv)'
  BY TypesKept, WholeKept
<1> QED
  BY <1>1, <1>2, PTL DEF Spec

(* A part that a failed remux of _transcode_job leaves behind has the name *)
(* the row would have had: the row keeps the one before it, and a sweep    *)
(* finds files by their whole name only.                                   *)
THEOREM PartsAreNotNamed == Spec => []RowsNameWholeFiles
<1>1. TypeInv /\ WholeInv => RowsNameWholeFiles
  <2> SUFFICES ASSUME TypeInv, WholeInv, NEW m \in Rows \ reverted, IsFile(row[m].path),
                      ~Clash(m)
               PROVE  disk[row[m].path].whole
    BY DEF RowsNameWholeFiles
  <2> DEFINE p == row[m].path
  <2>1. m \in Media /\ FileOK(p) /\ OwnName(m, p)
    BY DEF TypeInv, DiskOK, RowsOK, RowOK, IsFile, Rows, RowsOf
  <2>2. ASSUME ~disk[p].whole
        PROVE  FALSE
    <3>1. p.tag = "tr" /\ p.ext = "mp4" /\ PartOf(m, p)
      BY <2>1, <2>2 DEF FileOK, OwnName, PartOf, IsFile
    <3>2. p.ext = "mkv"
      BY <2>1, <3>1 DEF WholeInv, PartsOK, PartOf
    <3> QED
      BY <3>1, <3>2
  <2> QED
    BY <2>2
<1> QED
  BY <1>1, WholeInvariant, PTL

-----------------------------------------------------------------------------
(* As long as nobody has moved a file: where files and rows are.           *)
LEMMA BesideSame ==
    ASSUME TypeInv, NEW p \in Path, NEW q \in Path, NEW m \in Media,
           p.root = q.root, p.folder = q.folder, Beside(p, m), q.tag # ""
    PROVE  Beside(q, m)
  BY DEF Beside

(* A file that is beside m's original, and no conversion, is the original. *)
LEMMA IsOriginal ==
    ASSUME TypeInv, NEW p \in Path, NEW m \in Media, Beside(p, m), p.tag = "",
           p.stem = layout[m].stem
    PROVE  p = layout[m]
  BY SamePath DEF TypeInv, LayoutOK, Beside, SameName

LEMMA FilesBesideKept ==
    ASSUME TypeInv, Next, PlacesInv, ~moved'
    PROVE  FilesBeside'
<1> SUFFICES ASSUME NEW p \in DOMAIN disk'
             PROVE  Beside(p, disk[p].of)'
  BY DEF FilesBeside
<1>1. FileStep(p) /\ layout' = layout /\ FileOK(p)' /\ ~moved /\ p \in Path
  BY FileEffect, HistoryEffect, FilesTyped DEF FilesStep, HistoryStep, DiskOK, FileOK
<1>2. FilesBeside /\ SourceBeside
  BY <1>1 DEF PlacesInv
<1>3. SUFFICES Beside(p, disk'[p].of)
  BY <1>1 DEF Beside
<1>4. disk'[p].of \in Media
  BY <1>1 DEF FileOK, Content
<1>5. AtFile => tr.path \in Path
  BY DEF TypeInv, TranscodeOK, FileAtOK, OwnName
<1>6. CASE p \in DOMAIN disk /\ disk'[p] = disk[p]
  BY <1>2, <1>6 DEF FilesBeside
<1>7. CASE /\ Encode /\ tr'.path \in DOMAIN disk /\ p = Temp(tr'.path)
           /\ disk'[p] = [disk[tr'.path] EXCEPT !.whole = FALSE, !.audio = "aac"]
  <2>1. tr'.path \in Path /\ disk[tr'.path] \in Content /\ Beside(tr'.path, disk[tr'.path].of)
    BY <1>2, <1>7 DEF TypeInv, DiskOK, FileOK, FilesBeside
  <2>2. disk'[p].of = disk[tr'.path].of
    BY <1>7, <2>1, Audio
  <2> QED
    BY <1>1, <1>4, <1>7, <2>1, <2>2, Named, BesideSame
<1>8. CASE Encoded /\ p = Converted(tr.path) /\ disk'[p] = [tr.source EXCEPT !.audio = "aac"]
  <2>1. tr.path \in Path /\ tr.source \in Content /\ Beside(tr.path, tr.source.of)
    BY <1>2, <1>5, <1>8 DEF Encoded, AtFile, TypeInv, TranscodeOK, SourceOK, SourceBeside
  <2>2. disk'[p].of = tr.source.of
    BY <1>8, <2>1, Audio
  <2> QED
    <3>1. /\ Converted(tr.path).root = tr.path.root /\ Converted(tr.path).folder = tr.path.folder
          /\ Converted(tr.path).tag # ""
      BY <2>1, Named
    <3> QED
      BY <1>1, <1>4, <1>8, <2>1, <2>2, <3>1, BesideSame
<1>9. CASE /\ Remux /\ tr.path \in DOMAIN disk /\ p = Web(tr.path)
           /\ disk'[p] = [disk[tr.path] EXCEPT !.whole = FALSE]
  <2>1. tr.path \in Path /\ disk[tr.path] \in Content /\ Beside(tr.path, disk[tr.path].of)
    BY <1>2, <1>9 DEF TypeInv, DiskOK, FileOK, FilesBeside
  <2>2. disk'[p].of = disk[tr.path].of
    BY <1>9, <2>1, Audio
  <2> QED
    <3>1. /\ Web(tr.path).root = tr.path.root /\ Web(tr.path).folder = tr.path.folder
          /\ Web(tr.path).tag # ""
      BY <2>1, Named
    <3> QED
      BY <1>1, <1>4, <1>9, <2>1, <2>2, <3>1, BesideSame
<1>10. CASE Remuxed /\ p = Web(tr.path) /\ disk'[p] = tr.source
  <2>1. tr.path \in Path /\ Beside(tr.path, tr.source.of)
    BY <1>2, <1>5, <1>10 DEF Remuxed, AtFile, SourceBeside
  <2> QED
    <3>1. /\ Web(tr.path).root = tr.path.root /\ Web(tr.path).folder = tr.path.folder
          /\ Web(tr.path).tag # ""
      BY <2>1, Named
    <3> QED
      BY <1>1, <1>4, <1>10, <2>1, <3>1, BesideSame
<1> QED
  BY <1>1, <1>6, <1>7, <1>8, <1>9, <1>10 DEF FileStep

LEMMA JobBesideKept ==
    ASSUME TypeInv, Next, PlacesInv, ~moved'
    PROVE  JobBeside' /\ SourceBeside'
<1>1. layout' = layout /\ ~moved
  BY HistoryEffect DEF HistoryStep
<1>2. FilesBeside /\ JobBeside /\ SourceBeside
  BY <1>1 DEF PlacesInv
<1>3. AtFile' => SameFile \/ NextRow \/ RowConverted
  BY JobEffect DEF JobStep
<1>4. ASSUME AtFile', ~Clash(tr'.media)
      PROVE  Beside(tr'.path, tr'.media)
  <2>1. CASE SameFile
    BY <1>2, <1>4, <2>1 DEF SameFile, JobBeside
  <2>2. CASE NextRow
    <3>1. FileOK(tr'.path) /\ disk[tr'.path].audio = "ac3" /\ Beside(tr'.path, disk[tr'.path].of)
      BY <1>2, <2>2 DEF NextRow, TypeInv, DiskOK, IsFile, FilesBeside
    <3>2. tr'.media \in Media /\ tr'.path.stem = layout[tr'.media].stem
      BY <1>1, <1>4, TranscodeTyped DEF TranscodeOK, FileAtOK, OwnName
    <3>3. disk[tr'.path].of = tr'.media
      BY <1>4, <3>1, <3>2, OnlyOwn DEF FileOK, Content
    <3> QED
      BY <3>1, <3>3
  <2>3. CASE RowConverted
    <3>1. tr.path \in Path /\ tr.media \in Media /\ AtFile
      BY <2>3 DEF RowConverted, AtFile, TypeInv, TranscodeOK, FileAtOK, OwnName
    <3>2. Beside(tr.path, tr.media)
      BY <1>2, <1>4, <2>3, <3>1 DEF JobBeside, RowConverted
    <3> QED
      BY <2>3, <3>1, <3>2, Named, BesideSame DEF RowConverted
  <2> QED
    BY <1>3, <1>4, <2>1, <2>2, <2>3
<1>5. ASSUME tr'.pc \in {"encode", "remuxing"}
      PROVE  Beside(tr'.path, tr'.source.of)
  <2>1. CASE tr' = tr
    BY <1>2, <1>5, <2>1 DEF SourceBeside
  <2>2. CASE NextRow
    BY <1>2, <2>2 DEF NextRow, FilesBeside, IsFile
  <2>3. CASE tr'.path = tr.path /\ IsFile(tr.path) /\ tr'.source = disk[tr.path]
    BY <1>2, <2>3 DEF FilesBeside, IsFile
  <2> QED
    BY <1>3, <1>5, <2>1, <2>2, <2>3 DEF AtFile, SameFile, RowConverted
<1>6. Clash(tr.media)' <=> Clash(tr'.media)
  BY <1>1 DEF Clash
<1> QED
  BY <1>1, <1>4, <1>5, <1>6 DEF JobBeside, SourceBeside, Beside, AtFile

LEMMA RowBesideKept ==
    ASSUME TypeInv, Next, PlacesInv, ~moved', NEW m \in Media, ~Clash(m)
    PROVE  RowBeside(m)'
<1>1. /\ layout' = layout /\ ~moved /\ RowStep(m) /\ RowBeside(m) /\ JobBeside
      /\ row \in Table /\ \A s \in Sweeps : LoadedBeside(s, m)
  BY HistoryEffect, RowEffect DEF HistoryStep, PlacesInv, TypeInv, RowsOK
<1>2. SUFFICES ASSUME m \in Rows', row'[m].path.tag = "tr"
               PROVE  Beside(row'[m].path, m)
  BY <1>1 DEF RowBeside, Beside
<1>3. row'[m] \notin {None, Gone}
  BY <1>2 DEF Rows, RowsOf
<1>4. CASE row'[m] = row[m]
  BY <1>1, <1>2, <1>3, <1>4 DEF RowBeside, Rows, RowsOf
<1>5. CASE m = tr.media /\ m \in Rows /\ tr.pc \in {"commit", "commitWeb"}
           /\ row'[m].path \in {Converted(tr.path), Web(tr.path)}
  <2>1. tr.path \in Path /\ Beside(tr.path, m)
    BY <1>1, <1>5 DEF JobBeside, AtFile, TypeInv, TranscodeOK, FileAtOK, OwnName
  <2> QED
    BY <1>5, <2>1, Named, BesideSame
<1>6. CASE CommitConverted /\ m = tr.media /\ m \in Rows
           /\ row'[m] = [path |-> Converted(tr.path), audio |-> "aac"]
  BY <1>5, <1>6 DEF CommitConverted
<1>7. CASE CommitWeb /\ m = tr.media /\ m \in Rows
           /\ row'[m] = [row[m] EXCEPT !.path = Web(tr.path)]
  <2>1. Web(tr.path) \in Path /\ row[m] \in Row
    BY <1>1, <1>7, Named, RowsAre
       DEF CommitWeb, AtFile, TypeInv, TranscodeOK, FileAtOK, OwnName
  <2>2. row'[m].path = Web(tr.path)
    BY <1>7, <2>1, Repathed
  <2> QED
    BY <1>5, <1>7, <2>2 DEF CommitWeb
<1>8. CASE ImportCommit /\ row'[m] = [path |-> adding.path, audio |-> "ac3"]
  <2>1. adding.path.tag = ""
    BY <1>8 DEF ImportCommit, TypeInv, AddingOK
  <2>2. row'[m].path = adding.path
    BY <1>8
  <2>3. row'[m].path.tag = ""
    BY <2>1, <2>2
  <2> QED
    BY <1>2, <2>3
<1>9. CASE \E s \in Sweeps : Rewritten(s, m)
  <2>1. PICK s \in Sweeps : Rewritten(s, m)
    BY <1>9
  <2>2. row'[m].path = sweep[s].change[m] /\ sweep[s].change[m] \notin {None, Gone}
    BY <1>1, <2>1, RowsAre, Repathed, NoneAssumption DEF Rewritten
  <2>3. row'[m].path = layout[m]
    BY <1>1, <2>2 DEF LoadedBeside
  <2> QED
    BY <1>2, <2>3 DEF TypeInv, LayoutOK
<1> QED
  BY <1>1, <1>3, <1>4, <1>6, <1>7, <1>8, <1>9 DEF RowStep

LEMMA LoadedBesideKept ==
    ASSUME TypeInv, Next, PlacesInv, ~moved', NEW m \in Media, ~Clash(m), NEW s \in Sweeps
    PROVE  LoadedBeside(s, m)'
<1>1. /\ layout' = layout /\ ~moved /\ SweepRow(s, m)
      /\ RowBeside(m) /\ LoadedBeside(s, m) /\ FilesBeside
  BY HistoryEffect, SweepEffect DEF HistoryStep, PlacesInv, SweepEffectOn
<1> DEFINE p == sweep[s].loaded[m]
           q == Resolve(p)
<1>2. CASE sweep'[s].loaded[m] = p /\ sweep'[s].change[m] = sweep[s].change[m]
  BY <1>1, <1>2 DEF LoadedBeside, Beside
<1>3. CASE sweep'[s].loaded[m] = None /\ sweep'[s].change[m] = None
  BY <1>3 DEF LoadedBeside
<1>4. CASE m \in Rows /\ sweep'[s].loaded[m] = row[m].path /\ sweep'[s].change[m] = None
  BY <1>1, <1>4 DEF LoadedBeside, RowBeside, Beside
<1>5. CASE p # None /\ sweep'[s].loaded[m] = p /\ sweep'[s].change[m] = Gone
  BY <1>1, <1>5 DEF LoadedBeside, Beside
<1>6. CASE p # None /\ ~IsFile(p) /\ sweep'[s].loaded[m] = p
           /\ q # None /\ sweep'[s].change[m] = q
  <2>1. OwnName(m, p) /\ p \in Path
    BY <1>6 DEF TypeInv, SweepsOK, LoadedOK, OwnName
  <2>2. q \in DOMAIN disk /\ SameName(p, q)
    BY <1>6, Found
  <2> HIDE DEF q
  <2>3. FileOK(q) /\ Beside(q, disk[q].of)
    BY <1>1, <2>2 DEF TypeInv, DiskOK, FilesBeside
  <2>4. q \in Path /\ disk[q].of = m
    BY <2>1, <2>2, <2>3, OnlyOwn DEF FileOK, Content, OwnName, SameName
  <2>5. p.tag # "tr"
    <3>1. ASSUME p.tag = "tr"
          PROVE  FALSE
      <4>1. Beside(p, m)
        BY <1>1, <1>6, <3>1 DEF LoadedBeside
      <4>2. p = q
        BY <2>1, <2>2, <2>3, <2>4, <4>1, SamePath DEF Beside
      <4> QED
        BY <1>6, <2>2, <4>2 DEF IsFile
    <3> QED
      BY <3>1
  <2>6. p.tag = ""
    BY <2>1, <2>5 DEF OwnName, Path
  <2>7. q = layout[m]
    BY <2>1, <2>2, <2>3, <2>4, <2>6, IsOriginal DEF SameName, OwnName
  <2> QED
    BY <1>1, <1>6, <2>5, <2>7 DEF LoadedBeside
<1> QED
  BY <1>1, <1>2, <1>3, <1>4, <1>5, <1>6 DEF SweepRow

LEMMA PlacesKept ==
    ASSUME TypeInv, Next, PlacesInv
    PROVE  PlacesInv'
<1>1. \A m \in Media : Clash(m)' <=> Clash(m)
  BY ClashStays
<1> QED
  BY <1>1, FilesBesideKept, JobBesideKept, RowBesideKept, LoadedBesideKept DEF PlacesInv

-----------------------------------------------------------------------------
(* As long as nobody has moved a file: what the transcode job has made.    *)

(* What a commit is to name stays, whoever else runs.                      *)
LEMMA MadeStays ==
    ASSUME TypeInv, Next, ~moved', tr' = tr, SameFile, NEW m, NEW p \in Path, p.tag = "tr",
           Made(m, p)
    PROVE  Made(m, p)'
<1>1. Kept(p) \/ FileLost(p)
  BY FileEffect DEF FilesStep, Made, IsFile
<1>2. ~DeleteOriginal(p)
  BY RowsAre DEF DeleteOriginal, ListedOriginals, Path, TypeInv, RowsOK
<1>3. ~People
  BY DEF People, MoveFile
<1>4. /\ ~Encoded /\ ~Remux /\ ~Remuxed /\ ~Swap /\ ~RemuxFails
  BY DEF SameFile, Encoded, Remuxed, Swap, Remux
<1> QED
  BY <1>1, <1>2, <1>3, <1>4 DEF FileLost, Kept, Made, IsFile

LEMMA MadeKept ==
    ASSUME TypeInv, Next, MadeInv
    PROVE  MadeInv'
<1> SUFFICES ASSUME ~moved', AtFile', ~Clash(tr.media)'
             PROVE  /\ tr'.pc = "commit" => Made(tr.media, Converted(tr.path))'
                    /\ tr'.pc \in {"swap", "commitWeb"} => Made(tr.media, Web(tr.path))'
  BY DEF MadeInv
<1>1. ~moved /\ JobStep /\ layout' = layout
  BY HistoryEffect, JobEffect DEF HistoryStep
<1>2. CASE NextRow \/ RowConverted
  BY <1>2 DEF NextRow, RowConverted
<1>3. CASE SameFile
  <2>1. /\ AtFile /\ tr'.media = tr.media /\ tr'.path = tr.path /\ tr.media \in Media
        /\ tr.path \in Path /\ tr.path.stem = layout[tr.media].stem
    BY <1>3 DEF SameFile, TypeInv, TranscodeOK, FileAtOK, OwnName
  <2>2. ~Clash(tr.media)
    BY <2>1, ClashStays
  <2>3. /\ Converted(tr.path) \in Path /\ Converted(tr.path).tag = "tr"
        /\ Web(tr.path) \in Path /\ Web(tr.path).tag = "tr" /\ Web(tr.path).ext = "mp4"
    BY <2>1, Named
  <2>4. tr.pc \in {"encode", "remuxing"} => tr.source \in Content /\ tr.source.of = tr.media
    BY <2>1, <2>2, OnlyOwn DEF TypeInv, TranscodeOK, SourceOK, Content
  <2>5. tr.pc \in {"encode", "remuxing"} => tr.source.whole
    BY DEF TypeInv, TranscodeOK, SourceOK
  <2>6. CASE tr' = tr
    BY <1>1, <1>3, <2>1, <2>2, <2>3, <2>6, MadeStays DEF MadeInv
  <2>7. CASE Encoded /\ tr'.pc = "commit"
    <3> DEFINE new == [tr.source EXCEPT !.audio = "aac"]
    <3>1. disk' = Put(Drop(disk, {Temp(tr.path)}), Converted(tr.path), new) /\ tr.pc = "encode"
      BY <2>7 DEF Encoded
    <3>2. new.of = tr.media /\ new.audio = "aac"
      BY <2>4, <3>1, Audio
    <3>3. new.whole
      BY <2>4, <2>5, <3>1 DEF Content
    <3> HIDE DEF new
    <3>4. Converted(tr.path) \in DOMAIN disk' /\ disk'[Converted(tr.path)] = new
      BY <3>1 DEF Put
    <3> QED
      BY <2>1, <2>7, <3>2, <3>3, <3>4 DEF Made, IsFile, Converted
  <2>8. CASE Remux /\ tr'.pc = "remuxing"
    BY <2>8
  <2>9. CASE Remuxed /\ tr.pc = "remuxing" /\ tr'.pc = "swap"
    <3>1. disk' = Put(disk, Web(tr.path), tr.source)
      BY <2>9 DEF Remuxed
    <3>2. Web(tr.path) \in DOMAIN disk' /\ disk'[Web(tr.path)] = tr.source
      BY <3>1 DEF Put
    <3>3. tr.source.audio = "aac"
      BY <2>9 DEF TypeInv, TranscodeOK, TagsOK
    <3> QED
      BY <2>1, <2>4, <2>5, <2>9, <3>2, <3>3 DEF Made, IsFile, Web
  <2>10. CASE Swap /\ tr.pc = "swap" /\ tr'.pc = "commitWeb"
    <3>1. tr.path.ext = "mkv"
      BY <2>10 DEF TypeInv, TranscodeOK, TagsOK, Remuxing
    <3>2. disk' = Drop(disk, {tr.path}) /\ Web(tr.path) # tr.path
      BY <2>3, <2>10, <3>1 DEF Swap
    <3>3. Made(tr.media, Web(tr.path))
      BY <1>1, <2>1, <2>2, <2>10 DEF MadeInv
    <3>4. Kept(Web(tr.path))
      BY <3>2, <3>3, DropEffect DEF Made, IsFile
    <3> QED
      BY <2>1, <2>10, <3>3, <3>4 DEF Made, IsFile, Kept, Web
  <2> QED
    BY <1>3, <2>6, <2>7, <2>8, <2>9, <2>10 DEF SameFile
<1> QED
  BY <1>1, <1>2, <1>3 DEF JobStep

(* The original stays for as long as the row may need it: people can have  *)
(* it deleted only once the row has another file.                          *)
LEMMA OriginalsKeep ==
    ASSUME TypeInv, WholeInv, OriginalsInv, Next
    PROVE  OriginalsInv'
<1> SUFFICES ASSUME ~moved', NEW m \in Media, ~Clash(m)', OriginalNeeded(m)'
             PROVE  /\ layout[m] \in DOMAIN disk'
                    /\ \A s \in Sweeps :
                          sweep'[s].loaded[m] = layout[m] => sweep'[s].change[m] = None
  BY HistoryEffect DEF OriginalsInv, IsFile, HistoryStep
<1>1. ~moved /\ ~Clash(m) /\ layout' = layout
  BY HistoryEffect, ClashStays DEF HistoryStep
<1>2. AtFile => tr.path \in Path
  BY DEF TypeInv, TranscodeOK, FileAtOK, OwnName
<1>3. OriginalNeeded(m)
  <2>1. CASE row[m] = None
    BY <2>1 DEF OriginalNeeded
  <2>2. CASE row[m] # None
    <3>1. row'[m] # None
      BY <2>2, RowsOnlyGo
    <3>2. m \in Rows' \ reverted' /\ row'[m].path.tag = ""
      BY <3>1 DEF OriginalNeeded
    <3>3. ~(CommitConverted /\ row'[m].path = Converted(tr.path))
      BY <1>2, <3>2, Named DEF CommitConverted, AtFile
    <3>4. ~(CommitWeb /\ row'[m].path = Web(tr.path))
      BY <1>2, <3>2, Named DEF CommitWeb, AtFile
    <3>5. m \in Rows \ reverted /\ SameName(row'[m].path, row[m].path)
      BY <2>2, <3>2, <3>3, <3>4, NameStep
    <3> QED
      BY <3>2, <3>5 DEF OriginalNeeded, SameName
  <2> QED
    BY <2>1, <2>2
<1>4. /\ IsFile(layout[m]) /\ layout[m].tag = "" /\ layout[m] \in Path
      /\ \A s \in Sweeps : sweep[s].loaded[m] = layout[m] => sweep[s].change[m] = None
  BY <1>1, <1>3 DEF OriginalsInv, TypeInv, LayoutOK
<1>5. ~DeleteOriginal(layout[m])
  <2> SUFFICES ASSUME DeleteOriginal(layout[m])
               PROVE  FALSE
    OBVIOUS
  <2>1. PICK n \in Rows : row[n].path.tag = "tr" /\ layout[m] = [row[n].path EXCEPT !.tag = ""]
    BY DEF DeleteOriginal, ListedOriginals
  <2>2. n \in Media /\ row[n].path \in Path /\ OwnName(n, row[n].path) /\ row[n] # None
    BY RowsAre DEF TypeInv, RowsOK, RowOK
  <2>3. layout[m].stem = layout[n].stem
    BY <2>1, <2>2 DEF OwnName, Path
  <2>4. n = m
    BY <1>1, <2>2, <2>3, OnlyOwn
  <2> QED
    BY <1>3, <2>1, <2>2, <2>4 DEF OriginalNeeded
<1>6. ~People
  BY DEF People, MoveFile
<1>7. Kept(layout[m])
  <2>1. Kept(layout[m]) \/ FileLost(layout[m])
    BY <1>4, FileEffect DEF FilesStep, IsFile
  <2>2. /\ ~(Encoded /\ layout[m] = Converted(tr.path))
        /\ ~((Remux \/ Remuxed \/ RemuxFails) /\ layout[m] = Web(tr.path))
    BY <1>2, <1>4, Named DEF Encoded, Remux, Remuxed, RemuxFails, AtFile
  <2>3. ~(Swap /\ layout[m] = tr.path)
    BY <1>4 DEF Swap, TypeInv, TranscodeOK, TagsOK, Remuxing
  <2> QED
    BY <1>4, <1>5, <1>6, <2>1, <2>2, <2>3 DEF FileLost
<1>8. ASSUME NEW s \in Sweeps, sweep'[s].loaded[m] = layout[m]
      PROVE  sweep'[s].change[m] = None
  <2>1. SweepRow(s, m)
    BY SweepEffect DEF SweepEffectOn
  <2> QED
    BY <1>4, <1>8, <2>1 DEF SweepRow
<1> QED
  BY <1>7, <1>8 DEF Kept

-----------------------------------------------------------------------------
(* What a sweep has read is no later than what the row says, and a file it *)
(* found missing does not appear under the row's name.                     *)
LEMMA Stages ==
    /\ \A p : Stage(p) \in 0..2
    /\ \A p, q : SameName(p, q) => Stage(p) = Stage(q)
    /\ \A p \in Path : Stage(Web(p)) = 2 /\ Stage(Converted(p)) \in 1..2
<1>1. ASSUME NEW p
      PROVE  Stage(p) \in 0..2
  <2>1. Stage(p) = 0 \/ Stage(p) = 1 \/ Stage(p) = 2
    BY DEF Stage
  <2> QED
    BY <2>1
<1>2. ASSUME NEW p, NEW q, SameName(p, q)
      PROVE  Stage(p) = Stage(q)
  BY <1>2 DEF Stage, SameName
<1>3. ASSUME NEW p \in Path
      PROVE  Stage(Web(p)) = 2 /\ Stage(Converted(p)) \in 1..2
  <2>1. Web(p).tag = "tr" /\ Web(p).ext = "mp4" /\ Converted(p).tag = "tr"
    BY Named
  <2>2. Stage(Web(p)) = 2 /\ (Stage(Converted(p)) = 1 \/ Stage(Converted(p)) = 2)
    BY <2>1 DEF Stage
  <2> QED
    BY <2>2
<1> QED
  BY <1>1, <1>2, <1>3

(* The transcode job commits what comes next in the row's life.            *)
LEMMA CommitsGoOn ==
    ASSUME TypeInv, WholeInv, tr.media \in Rows \ reverted
    PROVE  /\ tr.pc \in {"encode", "commit"} => row[tr.media].path.tag = ""
           /\ Remuxing => row[tr.media].path.tag = "tr"
           /\ Remuxing /\ tr.pc # "remux" => row[tr.media].path.ext = "mkv"
           /\ Remuxing => row[tr.media].path.ext = tr.path.ext
  BY DEF WholeInv, NamesOK, SameName, AtFile, Remuxing, Encoding, TypeInv, TranscodeOK, TagsOK

LEMMA StagesKept ==
    ASSUME TypeInv, WholeInv, StagesInv, Next
    PROVE  StagesInv'
<1> SUFFICES ASSUME NEW s \in Sweeps, NEW m \in Media, Current(m)', sweep'[s].loaded[m] # None
             PROVE  Stage(sweep'[s].loaded[m]) <= Stage(row'[m].path)
  BY DEF StagesInv, Stage
<1>1. SweepRow(s, m) /\ m \in Rows' \ reverted'
  BY SweepEffect DEF SweepEffectOn, Current
<1> DEFINE p == sweep[s].loaded[m]
<1>2. CASE sweep'[s].loaded[m] = p
  <2>1. p # None /\ row[m] # None
    BY <1>2 DEF TypeInv, SweepsOK, LoadedOK
  <2>2. Current(m) /\ Stage(p) <= Stage(row[m].path)
    BY <2>1, ClashStays DEF StagesInv
  <2>3. CASE SameName(row'[m].path, row[m].path)
    BY <1>2, <2>2, <2>3, Stages
  <2>4. CASE CommitConverted /\ m = tr.media /\ row'[m].path = Converted(tr.path)
    <3>1. tr.path \in Path /\ tr.pc = "commit"
      BY <2>4 DEF CommitConverted, TypeInv, TranscodeOK, FileAtOK, AtFile, OwnName
    <3>2. Stage(row[m].path) = 0
      BY <2>2, <2>4, <3>1, CommitsGoOn DEF Stage, Current
    <3>3. Stage(row'[m].path) \in 1..2 /\ Stage(p) \in 0..2
      BY <2>4, <3>1, Stages
    <3> QED
      BY <1>2, <2>2, <3>2, <3>3
  <2>5. CASE CommitWeb /\ m = tr.media /\ row'[m].path = Web(tr.path)
    <3>1. tr.path \in Path
      BY <2>5 DEF CommitWeb, TypeInv, TranscodeOK, FileAtOK, AtFile, OwnName
    <3>2. Stage(row'[m].path) = 2 /\ Stage(p) \in 0..2
      BY <2>5, <3>1, Stages
    <3> QED
      BY <1>2, <3>2
  <2> QED
    BY <1>1, <2>1, <2>3, <2>4, <2>5, NameStep
<1>3. CASE row' = row /\ sweep'[s].loaded[m] = row[m].path
  <2>1. Stage(row[m].path) \in 0..2
    BY Stages
  <2> QED
    BY <1>3, <2>1
<1> QED
  BY <1>1, <1>2, <1>3 DEF SweepRow

(* No step puts a file where a row's file is missing.                      *)
LEMMA MissingStays ==
    ASSUME TypeInv, WholeInv, Next, ~moved', NEW m \in Media, Current(m),
           ~IsFile(row[m].path)
    PROVE  row[m].path \notin DOMAIN disk'
<1> DEFINE p == row[m].path
<1> SUFFICES ASSUME p \in DOMAIN disk'
             PROVE  FALSE
  OBVIOUS
<1>1. OwnName(m, p) /\ p \in Path /\ m \in Rows \ reverted /\ ~Clash(m) /\ p \notin DOMAIN disk
  BY DEF TypeInv, RowsOK, RowOK, OwnName, Current, IsFile
<1>2. FileStep(p)
  BY FileEffect DEF FilesStep
<1>3. AtFile => tr.path \in Path
  BY DEF TypeInv, TranscodeOK, FileAtOK, OwnName
<1>4. ~(Encode /\ tr'.path \in DOMAIN disk /\ p = Temp(tr'.path))
  <2>1. \A q \in DOMAIN disk : q \in Path
    BY DEF TypeInv, DiskOK, FileOK
  <2>2. p.tag # "ac3fix"
    BY <1>1 DEF OwnName
  <2> HIDE DEF p
  <2> QED
    BY <2>1, <2>2, Named
<1>5. ~(Encoded /\ p = Converted(tr.path))
  <2> SUFFICES ASSUME Encoded, p = Converted(tr.path)
               PROVE  FALSE
    OBVIOUS
  <2>1. AtFile /\ p.tag = "tr" /\ tr.path.stem = layout[m].stem /\ tr.pc = "encode"
    BY <1>1, <1>3, Named DEF Encoded, AtFile, OwnName
  <2>2. tr.media = m
    BY <1>1, <2>1, OnlyOwn
  <2> QED
    BY <1>1, <2>1, <2>2, CommitsGoOn
<1>6. ~((Remux \/ Remuxed) /\ Web(tr.path) # tr.path /\ p = Web(tr.path))
  <2> SUFFICES ASSUME Remux \/ Remuxed, Web(tr.path) # tr.path, p = Web(tr.path)
               PROVE  FALSE
    OBVIOUS
  <2>1. AtFile /\ Remuxing /\ p.tag = "tr" /\ p.ext = "mp4" /\ tr.path.stem = layout[m].stem
    BY <1>1, <1>3, Named DEF Remux, Remuxed, AtFile, OwnName, Remuxing
  <2>2. tr.media = m
    BY <1>1, <2>1, OnlyOwn
  <2>3. tr.path.ext = "mp4" /\ tr.path.tag = "tr"
    BY <1>1, <2>1, <2>2, CommitsGoOn DEF TypeInv, TranscodeOK, TagsOK
  <2>4. Web(tr.path) = tr.path
    BY <1>3, <2>1, <2>3, Named, SamePath DEF SameName
  <2> QED
    BY <2>4
<1>7. Remuxed => Web(tr.path) # tr.path
  BY <1>3, Named DEF Remuxed, AtFile, TypeInv, TranscodeOK, TagsOK, Remuxing
<1> QED
  BY <1>1, <1>2, <1>4, <1>5, <1>6, <1>7 DEF FileStep

LEMMA MissingKept ==
    ASSUME TypeInv, WholeInv, PlayInv, Next
    PROVE  MissingInv'
<1> SUFFICES ASSUME ~moved', NEW s \in Sweeps, NEW m \in Media, Current(m)',
                    sweep'[s].change[m] # None, sweep'[s].loaded[m] = row'[m].path
             PROVE  row'[m].path \notin DOMAIN disk'
  BY DEF MissingInv, IsFile
<1>1. /\ SweepRow(s, m) /\ ~moved /\ row \in Table /\ RowStep(m)
      /\ m \in Rows' \ reverted' /\ row'[m] \notin {None, Gone}
  BY SweepEffect, HistoryEffect, RowEffect
     DEF SweepEffectOn, HistoryStep, Current, TypeInv, RowsOK, Rows, RowsOf
<1> DEFINE p == sweep[s].loaded[m]
<1>2. CASE sweep'[s].loaded[m] = p /\ sweep'[s].change[m] = sweep[s].change[m]
  <2>1. sweep[s].change[m] # None /\ p # None /\ row[m] # None
    BY <1>2 DEF TypeInv, SweepsOK, LoadedOK, ChangeOK
  <2>2. Current(m) /\ m \in Rows \ reverted /\ ~Clash(m)
    BY <2>1, ClashStays DEF Current
  <2>3. CASE row'[m] = row[m]
    <3>1. ~IsFile(row[m].path)
      BY <1>1, <1>2, <2>1, <2>2, <2>3 DEF PlayInv, MissingInv
    <3> QED
      BY <2>2, <2>3, <3>1, MissingStays
  <2>4. Stage(p) <= Stage(row[m].path) /\ Stage(p) = Stage(row'[m].path)
    BY <1>2, <2>1, <2>2 DEF PlayInv, StagesInv
  <2>5. CASE CommitConverted /\ m = tr.media /\ row'[m].path = Converted(tr.path)
    <3>1. tr.path \in Path /\ tr.pc = "commit"
      BY <2>5 DEF CommitConverted, TypeInv, TranscodeOK, FileAtOK, AtFile, OwnName
    <3>2. Stage(row[m].path) = 0
      BY <2>2, <2>5, <3>1, CommitsGoOn DEF Stage
    <3>3. Stage(row'[m].path) \in 1..2
      BY <2>5, <3>1, Stages
    <3> QED
      BY <2>4, <3>2, <3>3
  <2>6. CASE CommitWeb /\ m = tr.media /\ row'[m].path = Web(tr.path)
    <3>1. tr.path \in Path /\ tr.pc = "commitWeb"
      BY <2>6 DEF CommitWeb, TypeInv, TranscodeOK, FileAtOK, AtFile, OwnName
    <3>2. Stage(row[m].path) = 1
      BY <2>2, <2>6, <3>1, CommitsGoOn DEF Stage, Remuxing
    <3>3. Stage(row'[m].path) = 2
      BY <2>6, <3>1, Stages
    <3> QED
      BY <2>4, <3>2, <3>3
  <2>7. CASE \E r \in Sweeps : Rewritten(r, m)
    <3>1. PICK r \in Sweeps : Rewritten(r, m)
      BY <2>7
    <3>2. row'[m].path = sweep[r].change[m] /\ sweep[r].change[m] \notin {None, Gone}
      BY <1>1, <3>1, RowsAre, Repathed, NoneAssumption DEF Rewritten
    <3>3. row'[m].path = layout[m]
      BY <1>1, <2>2, <3>2 DEF PlayInv, PlacesInv, LoadedBeside
    <3>4. SameName(row'[m].path, row[m].path)
      BY <1>1, <3>1, <3>2, HistoryEffect DEF HistoryStep
    <3>5. OriginalNeeded(m)
      BY <2>2, <3>3, <3>4 DEF OriginalNeeded, SameName, TypeInv, LayoutOK
    <3>6. sweep[s].change[m] = None
      BY <1>1, <1>2, <2>2, <3>3, <3>5 DEF PlayInv, OriginalsInv
    <3> QED
      BY <2>1, <3>6
  <2>8. ~(ImportCommit /\ m = adding.media)
    BY <2>1 DEF TypeInv, AddingOK, ImportCommit
  <2>9. \/ row'[m] = row[m]
        \/ CommitConverted /\ m = tr.media /\ row'[m].path = Converted(tr.path)
        \/ CommitWeb /\ m = tr.media /\ row'[m].path = Web(tr.path)
        \/ \E r \in Sweeps : Rewritten(r, m)
    <3>1. AtFile => tr.path \in Path
      BY DEF TypeInv, TranscodeOK, FileAtOK, OwnName
    <3>2. ASSUME CommitWeb, row'[m] = [row[m] EXCEPT !.path = Web(tr.path)]
          PROVE  row'[m].path = Web(tr.path)
      <4>1. Web(tr.path) \in Path /\ row[m] \in Row
        BY <1>1, <2>2, <3>1, <3>2, Named, RowsAre DEF CommitWeb, AtFile
      <4> QED
        BY <3>2, <4>1, Repathed
    <3>3. ASSUME row'[m] = [path |-> Converted(tr.path), audio |-> "aac"]
          PROVE  row'[m].path = Converted(tr.path)
      BY <3>3
    <3> QED
      BY <1>1, <2>8, <3>2, <3>3 DEF RowStep
  <2> QED
    BY <2>3, <2>5, <2>6, <2>7, <2>9
<1>3. CASE UNCHANGED <<row, disk, moved, reverted>> /\ ~IsFile(p) /\ sweep'[s].loaded[m] = p
  BY <1>3 DEF IsFile
<1> QED
  BY <1>1, <1>2, <1>3 DEF SweepRow

LEMMA InitPlay == Init => PlayInv
<1> SUFFICES ASSUME Init
             PROVE  PlayInv
  OBVIOUS
<1>1. \A p \in DOMAIN disk : disk[p].of \in Media /\ layout[disk[p].of] = p
  <2> SUFFICES ASSUME NEW p \in DOMAIN disk
               PROVE  disk[p].of \in Media /\ layout[disk[p].of] = p
    OBVIOUS
  <2> DEFINE of == CHOOSE m \in Media : layout[m] = p
  <2>1. p \in {layout[m] : m \in Media}
        /\ disk[p] = [of |-> of, whole |-> TRUE, audio |-> "ac3"]
    BY DEF Init
  <2>2. of \in Media /\ layout[of] = p
    BY <2>1
  <2> HIDE DEF of
  <2> QED
    BY <2>1, <2>2
<1>2. \A m \in Media : IsFile(layout[m])
  BY DEF Init, IsFile
<1>3. \A s \in Sweeps, m \in Media : sweep[s].loaded[m] = None /\ sweep[s].change[m] = None
  BY DEF Init, NotSweeping
<1>4. tr.pc = "idle"
  BY DEF Init, NotTranscoding
<1>5. FilesBeside
  BY <1>1 DEF FilesBeside, Beside
<1>6. \A m \in Media : RowBeside(m)
  <2>1. \A m \in Rows : Unconverted(m)
    BY DEF Init, Unconverted, Rows, RowsOf
  <2>2. \A m \in Rows : row[m].path.tag = ""
    BY <2>1, InitTyped DEF TypeInv, RowsOK, RowOK, Rows, RowsOf
  <2> QED
    BY <2>2 DEF RowBeside
<1>7. \A m \in Media : \A s \in Sweeps : LoadedBeside(s, m)
  BY <1>3 DEF LoadedBeside
<1>8. PlacesInv /\ MadeInv
  BY <1>4, <1>5, <1>6, <1>7 DEF PlacesInv, MadeInv, JobBeside, SourceBeside, AtFile
<1>9. OriginalsInv /\ StagesInv /\ MissingInv
  BY <1>2, <1>3 DEF OriginalsInv, StagesInv, MissingInv
<1> QED
  BY <1>8, <1>9 DEF PlayInv

LEMMA PlayKept == TypeInv /\ WholeInv /\ PlayInv /\ [Next]_vars => PlayInv'
<1>1. ASSUME TypeInv, WholeInv, PlayInv, Next
      PROVE  PlayInv'
  BY <1>1, PlacesKept, MadeKept, OriginalsKeep, StagesKept, MissingKept DEF PlayInv
<1>2. ASSUME PlayInv, UNCHANGED vars
      PROVE  PlayInv'
  <2> USE <1>2 DEF vars, db, PlayInv
  <2>1. PlacesInv'
    BY DEF PlacesInv, FilesBeside, JobBeside, SourceBeside, RowBeside, LoadedBeside, Beside,
           AtFile, Clash, Rows, RowsOf
  <2>2. MadeInv'
    BY DEF MadeInv, Made, IsFile, AtFile, Clash
  <2>3. OriginalsInv' /\ StagesInv' /\ MissingInv'
    BY DEF OriginalsInv, StagesInv, MissingInv, OriginalNeeded, Stage, Current, Clash, IsFile,
           Rows, RowsOf
  <2> QED
    BY <2>1, <2>2, <2>3
<1> QED
  BY <1>1, <1>2

LEMMA PlayInvariant == Spec => [](TypeInv /\ WholeInv /\ PlayInv)
<1>1. Init => TypeInv /\ WholeInv /\ PlayInv
  BY InitTyped, InitWhole, InitPlay
<1>2. TypeInv /\ WholeInv /\ PlayInv /\ [Next]_vars => (TypeInv /\ WholeInv /\ PlayInv)'
  BY TypesKept, WholeKept, PlayKept
<1> QED
  BY <1>1, <1>2, PTL DEF Spec

(* A sweep that is not outdated leaves a row alone that can be played: it  *)
(* found the file where it is.                                             *)
LEMMA SweepLeavesAlone ==
    ASSUME TypeInv, PlayInv, NEW s \in Sweeps, NEW m \in Media, Playable(m), m \notin reverted,
           ~Clash(m), ~Outdated(s, m)
    PROVE  sweep[s].change[m] = None
<1> SUFFICES ASSUME sweep[s].change[m] # None
             PROVE  FALSE
  OBVIOUS
<1>1. sweep[s].loaded[m] # None
  BY DEF TypeInv, SweepsOK, ChangeOK
<1>2. sweep[s].loaded[m] = row[m].path /\ ~moved
  BY <1>1 DEF Outdated
<1>3. Current(m)
  BY DEF Current, Playable
<1> QED
  BY <1>2, <1>3 DEF PlayInv, MissingInv, Playable

(* What PlayableStaysPlayable allows to end it.                            *)
Excused(m) ==
    \/ tr.media = m /\ tr.pc \in {"swap"} \cup IF moved THEN {"commit", "commitWeb"} ELSE {}
    \/ \E s \in Sweeps : Outdated(s, m) /\ sweep'[s] = NotSweeping
    \/ m \in reverted \/ Clash(m)
    \/ DeleteMedia(m)
    \/ \E e \in Editions \ {EditionOf[m]} : KeepEdition(FilmOf[EditionOf[m]], e)
    \/ row[m].path.tag = "" /\ DeleteOriginal(row[m].path)
    \/ People

(* Where nothing excuses it, neither does the file go                      *)
LEMMA PlayedFileStays ==
    ASSUME TypeInv, WholeInv, Next, NEW m \in Media, Playable(m), ~Excused(m)
    PROVE  Kept(row[m].path)
<1> DEFINE p == row[m].path
<1>1. OwnName(m, p) /\ p \in Path /\ m \in Rows \ reverted /\ ~Clash(m) /\ p \in DOMAIN disk
  BY DEF TypeInv, RowsOK, RowOK, OwnName, Playable, IsFile, Excused
<1>2. Kept(p) \/ FileLost(p)
  BY <1>1, FileEffect DEF FilesStep
<1>3. AtFile => tr.path \in Path
  BY DEF TypeInv, TranscodeOK, FileAtOK, OwnName
<1>4. ~(Encoded /\ p = Converted(tr.path))
  <2> SUFFICES ASSUME Encoded, p = Converted(tr.path)
               PROVE  FALSE
    OBVIOUS
  <2>1. AtFile /\ p.tag = "tr" /\ tr.path.stem = layout[m].stem /\ tr.pc = "encode"
    BY <1>1, <1>3, Named DEF Encoded, AtFile, OwnName
  <2>2. tr.media = m
    BY <1>1, <2>1, OnlyOwn
  <2> QED
    BY <1>1, <2>1, <2>2, CommitsGoOn
<1>5. ~((Remux \/ Remuxed \/ RemuxFails) /\ Web(tr.path) # tr.path /\ p = Web(tr.path))
  <2> SUFFICES ASSUME Remux \/ Remuxed \/ RemuxFails, Web(tr.path) # tr.path, p = Web(tr.path)
               PROVE  FALSE
    OBVIOUS
  <2>1. AtFile /\ Remuxing /\ p.tag = "tr" /\ p.ext = "mp4" /\ tr.path.stem = layout[m].stem
    BY <1>1, <1>3, Named DEF Remux, Remuxed, RemuxFails, AtFile, OwnName, Remuxing
  <2>2. tr.media = m
    BY <1>1, <2>1, OnlyOwn
  <2>3. tr.path.ext = "mp4" /\ tr.path.tag = "tr"
    BY <1>1, <2>1, <2>2, CommitsGoOn DEF TypeInv, TranscodeOK, TagsOK
  <2>4. Web(tr.path) = tr.path
    BY <1>3, <2>1, <2>3, Named, SamePath DEF SameName
  <2> QED
    BY <2>4
<1>6. Remuxed \/ RemuxFails => Web(tr.path) # tr.path
  BY <1>3, Named DEF Remuxed, RemuxFails, AtFile, TypeInv, TranscodeOK, TagsOK, Remuxing
<1>7. ~(Swap /\ p = tr.path)
  <2> SUFFICES ASSUME Swap, p = tr.path
               PROVE  FALSE
    OBVIOUS
  <2>1. AtFile /\ tr.path.stem = layout[m].stem /\ tr.pc = "swap"
    BY <1>1 DEF Swap, AtFile, OwnName
  <2>2. tr.media = m
    BY <1>1, <2>1, OnlyOwn
  <2> QED
    BY <2>1, <2>2 DEF Excused
<1>8. ~DeleteOriginal(p)
  <2>1. ASSUME DeleteOriginal(p)
        PROVE  p.tag = ""
    BY <2>1, RowsAre DEF DeleteOriginal, ListedOriginals, Path, TypeInv, RowsOK
  <2> QED
    BY <2>1 DEF Excused
<1> QED
  BY <1>1, <1>2, <1>4, <1>5, <1>6, <1>7, <1>8 DEF FileLost, OwnName, Excused

(* nor the row that names it, which only a commit of the job changes.      *)
LEMMA PlayedRowStays ==
    ASSUME TypeInv, WholeInv, PlayInv, Next, NEW m \in Media, Playable(m), ~Excused(m)
    PROVE  \/ row'[m] = row[m]
           \/ /\ CommitConverted /\ m = tr.media
              /\ row'[m] = [path |-> Converted(tr.path), audio |-> "aac"]
           \/ /\ CommitWeb /\ m = tr.media
              /\ row'[m] = [row[m] EXCEPT !.path = Web(tr.path)]
<1>1. RowStep(m) /\ m \in Rows /\ m \notin reverted /\ ~Clash(m) /\ row[m] # None
  BY RowEffect, RowsAre DEF Playable, Excused, TypeInv, RowsOK
<1>2. ASSUME NEW s \in Sweeps, Save(s) \/ Cascade(s)
      PROVE  ~Outdated(s, m) /\ sweep[s].change[m] = None
  <2>1. sweep'[s] = NotSweeping
    BY <1>2 DEF Save, Cascade, TypeInv, SweepsOK
  <2>2. ~Outdated(s, m)
    BY <2>1 DEF Excused
  <2> QED
    BY <1>1, <2>2, SweepLeavesAlone
<1>3. \A s \in Sweeps : ~Rewritten(s, m)
  BY <1>2, NoneAssumption DEF Rewritten
<1>4. ~(ImportCommit /\ m = adding.media)
  BY <1>1 DEF TypeInv, AddingOK, ImportCommit
<1>5. row'[m] # Gone
  <2>1. ASSUME NEW s \in Sweeps, Save(s) \/ Cascade(s)
        PROVE  /\ sweep[s].change[m] # Gone
               /\ ~(Cascade(s) /\ EditionOf[m] \in sweep[s].empty)
    BY <1>2, <2>1, NoneAssumption DEF Outdated, Cascade
  <2>2. ~Deletes(m)
    BY <2>1 DEF Deletes, Excused
  <2> QED
    BY <1>1, <2>2, RowGoes
<1> QED
  BY <1>1, <1>3, <1>4, <1>5 DEF RowStep

LEMMA SameContent ==
    ASSUME NEW c \in Content, NEW m, NEW a, c.of = m, c.whole, c.audio = a
    PROVE  c = [of |-> m, whole |-> TRUE, audio |-> a]
<1>1. c = [f \in {"of", "whole", "audio"} |-> c[f]]
  BY DEF Content
<1>2. c.whole = TRUE
  BY DEF Content
<1> QED
  BY <1>1, <1>2

LEMMA PlayedOn ==
    ASSUME TypeInv, WholeInv, PlayInv, Next, NEW m \in Media, Playable(m), ~Excused(m)
    PROVE  Playable(m)'
<1>1. m \in Rows /\ row[m] \in Row /\ ~Clash(m) /\ row \in Table /\ row[m] # None
  BY RowsAre DEF Playable, Excused, TypeInv, RowsOK
<1>2. CASE row'[m] = row[m]
  <2>1. m \in Rows'
    BY <1>1, <1>2 DEF Rows, RowsOf
  <2> QED
    BY <1>2, <2>1, PlayedFileStays DEF Playable, Kept, IsFile
<1>3. ASSUME NEW p \in Path, Made(m, p), disk' = disk, row'[m] \in Row, row'[m].path = p,
             row'[m].audio = "aac"
      PROVE  Playable(m)'
  <2>1. p \in DOMAIN disk /\ disk[p] \in Content
    BY <1>3 DEF Made, IsFile, TypeInv, DiskOK, FileOK
  <2>2. disk[p] = [of |-> m, whole |-> TRUE, audio |-> "aac"]
    BY <1>3, <2>1, SameContent DEF Made
  <2>3. m \in Rows'
    BY <1>3, NoneAssumption DEF Rows, RowsOf
  <2> QED
    BY <1>3, <2>1, <2>2, <2>3 DEF Playable, IsFile
<1>4. AtFile => tr.path \in Path
  BY DEF TypeInv, TranscodeOK, FileAtOK, OwnName
<1>5. CASE CommitConverted /\ m = tr.media
           /\ row'[m] = [path |-> Converted(tr.path), audio |-> "aac"]
  <2>1. tr.pc = "commit" /\ AtFile /\ disk' = disk
    BY <1>5 DEF CommitConverted, AtFile
  <2>2. Converted(tr.path) \in Path
    BY <1>4, <2>1, Named
  <2>3. ~moved
    BY <1>5, <2>1 DEF Excused
  <2>4. Made(m, Converted(tr.path))
    BY <1>1, <1>5, <2>1, <2>3 DEF PlayInv, MadeInv
  <2>5. row'[m] \in Row /\ row'[m].path = Converted(tr.path) /\ row'[m].audio = "aac"
    BY <1>5, <2>2, Fresh
  <2> QED
    BY <1>3, <2>1, <2>2, <2>4, <2>5
<1>6. CASE CommitWeb /\ m = tr.media /\ row'[m] = [row[m] EXCEPT !.path = Web(tr.path)]
  <2>1. tr.pc = "commitWeb" /\ AtFile /\ Remuxing /\ disk' = disk
    BY <1>6 DEF CommitWeb, AtFile, Remuxing
  <2>2. Web(tr.path) \in Path
    BY <1>4, <2>1, Named
  <2>3. ~moved
    BY <1>6, <2>1 DEF Excused
  <2>4. Made(m, Web(tr.path))
    BY <1>1, <1>6, <2>1, <2>3 DEF PlayInv, MadeInv
  <2>5. row'[m] \in Row /\ row'[m].path = Web(tr.path) /\ row'[m].audio = row[m].audio
    BY <1>1, <1>6, <2>2, Repathed
  <2>6. row[m].audio = "aac"
    <3>1. ~Unconverted(m)
      BY <1>6, <2>1 DEF TypeInv, TranscodeOK, FileAtOK
    <3> QED
      BY <1>1, <3>1 DEF Unconverted, Row
  <2> QED
    BY <1>3, <2>1, <2>2, <2>4, <2>5, <2>6
<1> QED
  BY <1>2, <1>5, <1>6, PlayedRowStays

(* _transcode_job commits a name only when the file is there, deletes only *)
(* what it replaces, and reindex, reconcile and stream requests change no  *)
(* row whose file they would find: but for the windows that the property   *)
(* names, a film that can be played can be played after any step.          *)
THEOREM PlayedFilmsStay == Spec => PlayableStaysPlayable
<1>1. ASSUME TypeInv, WholeInv, PlayInv, [Next]_vars, NEW m \in Media, Playable(m)
      PROVE  Playable(m)' \/ Excused(m)
  <2>1. CASE Next
    BY <1>1, <2>1, PlayedOn
  <2>2. CASE UNCHANGED vars
    BY <1>1, <2>2 DEF vars, db, Playable, Rows, RowsOf, IsFile
  <2> QED
    BY <1>1, <2>1, <2>2
<1>2. TypeInv /\ WholeInv /\ PlayInv /\ [Next]_vars =>
        [\A m \in Media : Playable(m) =>
           \/ Playable(m)'
           \/ tr.media = m /\ tr.pc \in {"swap"} \cup IF moved THEN {"commit", "commitWeb"} ELSE {}
           \/ \E s \in Sweeps : Outdated(s, m) /\ sweep'[s] = NotSweeping
           \/ m \in reverted \/ Clash(m)
           \/ DeleteMedia(m)
           \/ \E e \in Editions \ {EditionOf[m]} : KeepEdition(FilmOf[EditionOf[m]], e)
           \/ row[m].path.tag = "" /\ DeleteOriginal(row[m].path)
           \/ People]_vars
  BY <1>1 DEF Excused
<1> QED
  BY <1>2, PlayInvariant, PTL DEF Spec, PlayableStaysPlayable

=============================================================================
