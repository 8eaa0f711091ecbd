----------------------------- MODULE MediaFiles -----------------------------
(***************************************************************************)
(* Media rows and the files they name (api/admin.py, api/media.py).  A     *)
(* transcode job converts files and renames the rows, reindex, reconcile   *)
(* and the stream endpoint repair rows whose file has moved, requests of   *)
(* the administrator delete rows, editions and originals, imports add      *)
(* rows, and people move files.                                            *)
(*                                                                         *)
(* Every job loads its rows at the start and writes them back later, with  *)
(* an UPDATE or DELETE by id.  There is one transcode job at a time here;  *)
(* JobSlots shows when that is so.                                         *)
(***************************************************************************)
EXTENDS FiniteSets, Naturals

CONSTANTS
    Media,         \* films' files, and the rows that stand for them
    Indexed,       \* those that have a row at first
    Sweeps,        \* reindex and reconcile jobs and stream requests
    EditionOf,     \* the edition a file belongs to
    FilmOf,        \* the film an edition belongs to
    Folders,       \* folders directly under a root
    Starts,        \* where the originals lie at first, and the root in their rows
    None,
    Gone,          \* a row that was deleted, or that reconcile is to delete
    TimeoutLimit,  \* consecutive timeouts that end a job (3 in the code)
    MaxEvents      \* bound: failures, restarts, moved files, requests that delete

ASSUME LimitAssumption == TimeoutLimit \in Nat \ {0}
ASSUME IndexedAssumption == Indexed \subseteq Media

Editions == {EditionOf[m] : m \in Media}
Films == {FilmOf[e] : e \in Editions}

(* "x.mkv" in a folder of the library is converted to ".x.ac3fix.mkv",     *)
(* renamed to "x.tr.mkv" and repackaged as "x.tr.mp4".                     *)
Path == [root: {"library", "elsewhere"}, folder: Folders, stem: STRING,
         tag: {"", "ac3fix", "tr"}, ext: {"mkv", "mp4"}]
Temp(p) == [p EXCEPT !.tag = "ac3fix"]
Converted(p) == [p EXCEPT !.tag = "tr"]
Web(p) == [p EXCEPT !.tag = "tr", !.ext = "mp4"]

Content == [of: Media, whole: BOOLEAN, audio: {"ac3", "aac"}]
Row == [path: Path, audio: {"ac3", "aac"}]
Table == [Media -> Row \cup {None, Gone}]
Insert == [path: Path, media: Media]

ASSUME NoneAssumption ==
    /\ None # Gone
    /\ \A none \in {None, Gone} : none \notin Media /\ none \notin Path /\ none \notin Row
    /\ None \notin Content /\ None \notin Insert /\ None \notin Table

(* Originals have no tag.                                                  *)
ASSUME StartsAssumption ==
    \A start \in Starts :
       /\ start.root \in {"library", "elsewhere"}
       /\ start.files \in [Media -> Path]
       /\ \A m \in Media : start.files[m].tag = ""

VARIABLES
    disk,      \* the content of each file that is there
    row,       \* the table media_files; None before there was a row, Gone after
    editions,  \* the editions that exist
    flagged,   \* the films with needs_review
    known,     \* the paths that have an imported candidate
    tr,        \* the transcode job
    sweep,     \* the reindex, reconcile and stream operations
    adding,    \* the path and file an import inserted and did not commit yet
    events,    \* how many of the events there were that have a bound
    layout,    \* history: where the originals were at first
    moved,     \* history: people have moved a file
    reverted   \* history: rows that a reindex or reconcile gave another name

db == <<row, editions, flagged, known>>
vars == <<disk, db, tr, sweep, adding, events, layout, moved, reverted>>

(* snapshot: the rows as the job loaded them, None once they have expired  *)
(* (with the first commit); late: the timeouts in a row.                   *)
Transcoding ==
    [pc: {"idle", "loop", "encode", "commit", "remux", "remuxing", "swap", "commitWeb"},
     todo: SUBSET Media, media: Media \cup {None}, path: Path \cup {None},
     source: Content \cup {None}, snapshot: Table \cup {None},
     late: 0..TimeoutLimit]
NotTranscoding == [pc |-> "idle", todo |-> {}, media |-> None, path |-> None,
                   source |-> None, snapshot |-> None, late |-> 0]

(* loaded: the paths of the rows it has to look at or has to change;       *)
(* change: what to; empty: the editions without a row (reconcile only).    *)
Sweeping == [pc: {"idle", "look", "flushed"}, reconcile: BOOLEAN,
             loaded: [Media -> Path \cup {None}],
             change: [Media -> Path \cup {None, Gone}], empty: SUBSET Editions]
NotSweeping == [pc |-> "idle", reconcile |-> FALSE,
                loaded |-> [m \in Media |-> None], change |-> [m \in Media |-> None],
                empty |-> {}]

Init ==
    /\ \E start \in Starts :
         /\ layout = start.files
         /\ row = [m \in Media |->
                     IF m \in Indexed
                     THEN [path |-> [layout[m] EXCEPT !.root = start.root], audio |-> "ac3"]
                     ELSE None]
    /\ disk = [p \in {layout[m] : m \in Media} |->
                 [of |-> CHOOSE m \in Media : layout[m] = p, whole |-> TRUE, audio |-> "ac3"]]
    /\ known = {row[m].path : m \in Indexed}
    /\ editions = {EditionOf[m] : m \in Indexed}
    /\ flagged = {}
    /\ tr = NotTranscoding
    /\ sweep = [s \in Sweeps |-> NotSweeping]
    /\ adding = None
    /\ events = 0 /\ moved = FALSE /\ reverted = {}

-----------------------------------------------------------------------------
OneMore == events < MaxEvents /\ events' = events + 1 /\ UNCHANGED <<layout, reverted>>
Event == OneMore /\ UNCHANGED moved
NoEvent == UNCHANGED <<events, layout, moved, reverted>>

Put(files, p, c) == [q \in DOMAIN files \cup {p} |-> IF q = p THEN c ELSE files[q]]
Drop(files, ps) == [q \in DOMAIN files \ ps |-> files[q]]

IsFile(p) == p \in DOMAIN disk
RowsOf(table) == {m \in Media : table[m] \notin {None, Gone}}
Rows == RowsOf(row)
Without(table, ms) == [m \in Media |-> IF m \in ms /\ table[m] # None THEN Gone ELSE table[m]]
Names(m, p) == m \in Rows /\ row[m].path = p

(* A row that reconcile has written and not committed is locked, and so is *)
(* the path it or an import has put under the unique key.                  *)
LockedBy(s, m) == sweep[s].pc = "flushed" /\ sweep[s].change[m] # None
Locked(m) == \E s \in Sweeps : LockedBy(s, m)
Claimed(p) == \/ adding # None /\ adding.path = p
              \/ \E s \in Sweeps, m \in Media : sweep[s].pc = "flushed" /\ sweep[s].change[m] = p

SameName(p, q) == p.stem = q.stem /\ p.tag = q.tag /\ p.ext = q.ext


(* _resolve_media_path and _reindex_resolve_path: the only file under the  *)
(* root with this name, or of several the one whose path from the root is  *)
(* the stored folder and name.                                             *)
Resolve(p) ==
    LET matches == {q \in DOMAIN disk : q.root = "library" /\ SameName(p, q)}
        found == IF Cardinality(matches) = 1 THEN matches
                 ELSE {q \in matches : q.folder = p.folder}
    IN  IF found = {} THEN None ELSE CHOOSE q \in found : TRUE

(* The jobs in admin.py have a copy of it.                                 *)
ReindexResolve(p) == Resolve(p)

-----------------------------------------------------------------------------
(* The transcode job.                                                      *)

(* _clean_orphan_ac3fix removes rows and files with a temporary name (no   *)
(* scan makes such rows any more), then the job loads all rows.            *)
StartTranscode ==
    LET orphans == {m \in Rows : row[m].path.tag = "ac3fix"}
        rest == Without(row, orphans)
    IN  /\ tr.pc = "idle"
        /\ disk' = Drop(disk, {row[m].path : m \in orphans})
        /\ row' = rest
        /\ tr' = [NotTranscoding EXCEPT !.pc = "loop", !.snapshot = rest,
                                        !.todo = RowsOf(rest)]
        /\ UNCHANGED <<editions, flagged, known, sweep, adding>> /\ NoEvent

OnlyTr == UNCHANGED <<db, sweep, adding>>

(* The row as the job sees it at the head of the loop.                     *)
Seen(m) == IF tr.snapshot = None THEN row[m] ELSE tr.snapshot[m]

NextFile(t) == [t EXCEPT !.pc = "loop", !.media = None, !.path = None, !.source = None]

(* The job ends: all files are done, or it is cancelled.                   *)
EndTranscode ==
    /\ tr.pc = "loop"
    /\ tr' = NotTranscoding
    /\ UNCHANGED disk /\ NoEvent /\ OnlyTr

(* The row of an expired object is gone: reading it fails the job.         *)
TranscodeLosesRow ==
    /\ tr.pc = "loop"
    /\ \E m \in tr.todo : Seen(m) = Gone
    /\ tr' = NotTranscoding
    /\ UNCHANGED disk /\ NoEvent /\ OnlyTr

(* No file, no answer of the probe, or no AC3.                             *)
SkipFile ==
    /\ tr.pc = "loop"
    /\ \E m \in tr.todo : Seen(m) # Gone /\ tr' = [tr EXCEPT !.todo = @ \ {m}]
    /\ UNCHANGED disk /\ NoEvent /\ OnlyTr

(* Mutant: the audio is converted whatever it is.                          *)
EncodeAny ==
    /\ tr.pc = "loop"
    /\ \E m \in tr.todo :
         /\ Seen(m) # Gone
         /\ LET p == Seen(m).path IN
              /\ IsFile(p)
              /\ disk' = Put(disk, Temp(p), [disk[p] EXCEPT !.whole = FALSE, !.audio = "aac"])
              /\ tr' = [tr EXCEPT !.pc = "encode", !.todo = @ \ {m}, !.media = m,
                                  !.path = p, !.source = disk[p]]
    /\ NoEvent /\ OnlyTr

(* ffmpeg opens the file and writes the temporary one.                     *)
Encode ==
    /\ tr.pc = "loop"
    /\ \E m \in tr.todo :
         /\ Seen(m) # Gone
         /\ LET p == Seen(m).path IN
              /\ IsFile(p) /\ disk[p].audio = "ac3"
              /\ disk' = Put(disk, Temp(p), [disk[p] EXCEPT !.whole = FALSE, !.audio = "aac"])
              /\ tr' = [tr EXCEPT !.pc = "encode", !.todo = @ \ {m}, !.media = m,
                                  !.path = p, !.source = disk[p]]
    /\ NoEvent /\ OnlyTr

EncodeFails ==
    /\ tr.pc = "encode"
    /\ disk' = Drop(disk, {Temp(tr.path)})
    /\ tr' = NextFile(tr)
    /\ NoEvent /\ OnlyTr

(* Only a conversion that was committed sets the count back.               *)
EncodeTimesOut ==
    /\ tr.pc = "encode"
    /\ disk' = Drop(disk, {Temp(tr.path)})
    /\ tr' = IF tr.late + 1 >= TimeoutLimit THEN NotTranscoding
             ELSE [NextFile(tr) EXCEPT !.late = @ + 1]
    /\ NoEvent /\ OnlyTr

(* Mutant: the original makes room for the converted file.                 *)
EncodedOverOriginal ==
    /\ tr.pc = "encode"
    /\ disk' = Put(Drop(disk, {Temp(tr.path), tr.path}),
                   Converted(tr.path), [tr.source EXCEPT !.audio = "aac"])
    /\ tr' = [tr EXCEPT !.pc = "commit", !.source = None]
    /\ NoEvent /\ OnlyTr

(* The file is complete and renamed; it replaces what has the new name.    *)
Encoded ==
    /\ tr.pc = "encode"
    /\ disk' = Put(Drop(disk, {Temp(tr.path)}),
                   Converted(tr.path), [tr.source EXCEPT !.audio = "aac"])
    /\ tr' = [tr EXCEPT !.pc = "commit", !.source = None]
    /\ NoEvent /\ OnlyTr

(* An UPDATE of a path waits for a lock; it finds no row if that is gone,  *)
(* and two rows may not have the same path.                                *)
Free(m, p) == ~Locked(m) /\ ~Claimed(p)
CanUpdate(m, p) == m \in Rows /\ \A n \in Media \ {m} : ~Names(n, p)

CommitConverted ==
    /\ tr.pc = "commit"
    /\ Free(tr.media, Converted(tr.path)) /\ CanUpdate(tr.media, Converted(tr.path))
    /\ row' = [row EXCEPT ![tr.media] = [path |-> Converted(tr.path), audio |-> "aac"]]
    /\ tr' = [tr EXCEPT !.pc = "remux", !.path = Converted(@), !.snapshot = None, !.late = 0]
    /\ UNCHANGED <<disk, editions, flagged, known, sweep, adding>> /\ NoEvent

(* A commit that fails leaves the session unusable and its objects         *)
(* expired, so that the handlers fail too: the job has failed.             *)
TranscodeCommitFails ==
    /\ tr.pc \in {"commit", "commitWeb"}
    /\ LET p == IF tr.pc = "commit" THEN Converted(tr.path) ELSE Web(tr.path) IN
         \/ Free(tr.media, p) /\ ~CanUpdate(tr.media, p) /\ NoEvent
         \/ Event
    /\ tr' = NotTranscoding
    /\ UNCHANGED disk /\ OnlyTr

(* ffmpeg repackages the converted file, unless it has its final name      *)
(* already or is gone.                                                     *)
Remux ==
    /\ tr.pc = "remux"
    /\ IF Web(tr.path) # tr.path /\ IsFile(tr.path)
       THEN /\ disk' = Put(disk, Web(tr.path), [disk[tr.path] EXCEPT !.whole = FALSE])
            /\ tr' = [tr EXCEPT !.pc = "remuxing", !.source = disk[tr.path]]
       ELSE /\ tr' = NextFile(tr)
            /\ UNCHANGED disk
    /\ NoEvent /\ OnlyTr

Remuxed ==
    /\ tr.pc = "remuxing"
    /\ disk' = Put(disk, Web(tr.path), tr.source)
    /\ tr' = [tr EXCEPT !.pc = "swap", !.source = None]
    /\ NoEvent /\ OnlyTr

(* Mutant: the code of the exit is not looked at.                          *)
RemuxFailureIgnored ==
    /\ tr.pc = "remuxing"
    /\ tr' = [tr EXCEPT !.pc = "swap", !.source = None]
    /\ UNCHANGED disk /\ NoEvent /\ OnlyTr

(* A failure or timeout of ffmpeg leaves a part of the file, an exception  *)
(* removes it; the row keeps the converted file.                           *)
RemuxFails ==
    /\ tr.pc = "remuxing"
    /\ \E left \in SUBSET {Web(tr.path)} : disk' = Drop(disk, left)
    /\ tr' = NextFile(tr)
    /\ NoEvent /\ OnlyTr

(* The converted file goes before the row is changed.                      *)
Swap ==
    /\ tr.pc = "swap"
    /\ disk' = Drop(disk, {tr.path})
    /\ tr' = [tr EXCEPT !.pc = "commitWeb"]
    /\ NoEvent /\ OnlyTr

CommitWeb ==
    /\ tr.pc = "commitWeb"
    /\ Free(tr.media, Web(tr.path)) /\ CanUpdate(tr.media, Web(tr.path))
    /\ row' = [row EXCEPT ![tr.media].path = Web(tr.path)]
    /\ tr' = NextFile(tr)
    /\ UNCHANGED <<disk, editions, flagged, known, sweep, adding>> /\ NoEvent

TranscodeStep ==
    \/ EndTranscode \/ TranscodeLosesRow \/ SkipFile
    \/ Encode \/ Encoded \/ EncodeFails \/ EncodeTimesOut
    \/ CommitConverted \/ TranscodeCommitFails
    \/ Remux \/ Remuxed \/ RemuxFails \/ Swap \/ CommitWeb

-----------------------------------------------------------------------------
(* Reindex and reconcile load all rows, a stream request loads one.        *)
Load(s, rows, reconcile) ==
    /\ sweep[s].pc = "idle"
    /\ sweep' = [sweep EXCEPT ![s] =
                   [NotSweeping EXCEPT !.pc = "look", !.reconcile = reconcile,
                      !.loaded = [m \in Media |-> IF m \in rows THEN row[m].path ELSE None]]]
    /\ UNCHANGED <<disk, db, tr, adding>> /\ NoEvent

Stream(s) == \E m \in Rows : Load(s, {m}, FALSE)
Reindex(s) == Load(s, Rows, FALSE)
Reconcile(s) == Load(s, Rows, TRUE)

(* What is to become of a row that was loaded with path p.                 *)
Decide(p, reconcile) ==
    IF IsFile(p) THEN None
    ELSE IF ReindexResolve(p) # None THEN ReindexResolve(p)
    ELSE IF reconcile THEN Gone ELSE None

Unseen(s) == {m \in Media : sweep[s].loaded[m] # None /\ sweep[s].change[m] = None}

Look(s) ==
    /\ sweep[s].pc = "look"
    /\ \E m \in Media :
         /\ m \in Unseen(s)
         /\ LET new == Decide(sweep[s].loaded[m], sweep[s].reconcile) IN
              sweep' = [sweep EXCEPT ![s].change[m] = new,
                                     ![s].loaded[m] = IF new = None THEN None ELSE @]
    /\ UNCHANGED <<disk, db, tr, adding>> /\ NoEvent

Changed(s) == {m \in Media : sweep[s].change[m] # None}
Deleted(s) == {m \in Media : sweep[s].change[m] = Gone}
Written(s) ==
    [m \in Media |-> IF m \in Deleted(s) THEN Gone
                     ELSE IF m \in Changed(s) THEN [row[m] EXCEPT !.path = sweep[s].change[m]]
                     ELSE row[m]]

(* An UPDATE without a row fails, a DELETE without one does not.           *)
CanWrite(s) ==
    /\ Changed(s) \ Deleted(s) \subseteq Rows
    /\ \A m, n \in RowsOf(Written(s)) : m # n => Written(s)[m].path # Written(s)[n].path
MayWrite(s) == \A m \in Changed(s) : ~Locked(m) /\ ~Claimed(sweep[s].change[m])

(* The names differ if the row was converted after it was loaded.          *)
Write(s) ==
    /\ reverted' = reverted \cup {m \in Changed(s) \ Deleted(s) :
                                   ~SameName(sweep[s].change[m], row[m].path)}
    /\ UNCHANGED <<events, layout, moved>>

(* Looked at all rows, the operation writes what it has to write.          *)
Looked(s) == sweep[s].pc = "look" /\ Unseen(s) = {}

Save(s) ==
    /\ Looked(s) /\ ~sweep[s].reconcile
    /\ MayWrite(s) /\ CanWrite(s)
    /\ row' = Written(s)
    /\ sweep' = [sweep EXCEPT ![s] = NotSweeping]
    /\ UNCHANGED <<disk, editions, flagged, known, tr, adding>> /\ Write(s)

(* Reconcile goes on to the editions that have no row left.                *)
Flush(s) ==
    /\ Looked(s) /\ sweep[s].reconcile
    /\ MayWrite(s) /\ CanWrite(s)
    /\ sweep' = [sweep EXCEPT ![s].pc = "flushed",
                   ![s].empty = editions \ {EditionOf[m] : m \in RowsOf(Written(s))}]
    /\ UNCHANGED <<disk, db, tr, adding>> /\ NoEvent

SweepFails(s) ==
    /\ \/ Looked(s) /\ MayWrite(s) /\ ~CanWrite(s) /\ NoEvent
       \/ sweep[s].pc = "look" /\ Event
       \/ sweep[s].pc = "flushed" /\ Event
       \/ /\ sweep[s].pc = "flushed" /\ NoEvent  \* a row came before the ORM looked for some
          /\ \E m \in RowsOf(Written(s)) : EditionOf[m] \in sweep[s].empty
    /\ sweep' = [sweep EXCEPT ![s] = NotSweeping]
    /\ UNCHANGED <<disk, db, tr, adding>>

(* Deleting an edition waits for the import that adds a row to it and for  *)
(* who has locked one of its rows, and takes along the rows it has (ON     *)
(* DELETE CASCADE).  Of two that wait for each other one is stopped, which *)
(* is a failure like others.                                               *)
Unreferenced(es) == adding # None => EditionOf[adding.media] \notin es
Cascade(s) ==
    LET left == editions \ sweep[s].empty IN
    /\ sweep[s].pc = "flushed"
    /\ Unreferenced(sweep[s].empty)
    /\ \A r \in Sweeps \ {s}, m \in Media : LockedBy(r, m) => EditionOf[m] \notin sweep[s].empty
    /\ row' = Without(Written(s), {m \in Media : EditionOf[m] \in sweep[s].empty})
    /\ editions' = left
    /\ flagged' = flagged \cup {f \in Films : ~\E e \in left : FilmOf[e] = f}
    /\ sweep' = [sweep EXCEPT ![s] = NotSweeping]
    /\ UNCHANGED <<disk, known, tr, adding>> /\ Write(s)

SweepStep(s) == Look(s) \/ Save(s) \/ Flush(s) \/ SweepFails(s) \/ Cascade(s)

-----------------------------------------------------------------------------
(* Imports, as far as they concern these rows (ImportPipeline has them in  *)
(* full): a file with an original's name and no candidate is a new row of  *)
(* its edition, or the copy of a file that has a row already.              *)
New(p) == IsFile(p) /\ p.root = "library" /\ p.tag = "" /\ p \notin known

ImportInsert(p) ==
    /\ New(p) /\ adding = None
    /\ row[disk[p].of] = None /\ \A m \in Media : ~Names(m, p)
    /\ ~Claimed(p)
    /\ adding' = [path |-> p, media |-> disk[p].of]
    /\ UNCHANGED <<disk, db, tr, sweep>> /\ NoEvent

(* A second file of an edition flags the film; else the quality of the     *)
(* metadata decides.                                                       *)
ImportCommit ==
    LET m == adding.media
        film == FilmOf[EditionOf[m]]
        second == \E n \in Rows : EditionOf[n] = EditionOf[m]
    IN  /\ adding # None
        /\ row' = [row EXCEPT ![m] = [path |-> adding.path, audio |-> "ac3"]]
        /\ editions' = editions \cup {EditionOf[m]}
        /\ flagged' \in {flagged \cup {film}} \cup IF second THEN {} ELSE {flagged \ {film}}
        /\ known' = known \cup {adding.path}
        /\ adding' = None
        /\ UNCHANGED <<disk, tr, sweep>> /\ NoEvent

ImportDuplicate(p) ==
    /\ New(p) /\ adding = None
    /\ disk[p].of \in Rows
    /\ known' = known \cup {p}
    /\ UNCHANGED <<disk, row, editions, flagged, tr, sweep, adding>> /\ NoEvent

-----------------------------------------------------------------------------
(* Requests of the administrator.                                          *)
Request == Event /\ UNCHANGED <<known, tr, sweep, adding>>

DeleteMedia(m) ==
    /\ m \in Rows /\ ~Locked(m)
    /\ row' = Without(row, {m})
    /\ UNCHANGED <<disk, editions, flagged>> /\ Request

(* Mutant: the rows of the kept edition go too.                            *)
KeepEditionOnly(f, e) ==
    LET others == {d \in editions : FilmOf[d] = f /\ d # e}
        lost == {m \in Media : FilmOf[EditionOf[m]] = f}
    IN  /\ Unreferenced(others) /\ \A m \in lost : ~Locked(m)
        /\ row' = Without(row, lost)
        /\ editions' = editions \ others
        /\ flagged' = flagged \ {f}
        /\ UNCHANGED disk /\ Request

(* All editions of film f but e, which nobody checks is one of them.       *)
KeepEdition(f, e) ==
    LET others == {d \in editions : FilmOf[d] = f /\ d # e}
        lost == {m \in Media : EditionOf[m] \in others}
    IN  /\ Unreferenced(others) /\ \A m \in lost : ~Locked(m)
        /\ row' = Without(row, lost)
        /\ editions' = editions \ others
        /\ flagged' = flagged \ {f}
        /\ UNCHANGED disk /\ Request

ResolveFilm(f) ==
    /\ f \in flagged
    /\ flagged' = flagged \ {f}
    /\ UNCHANGED <<disk, row, editions>> /\ Request

(* list_transcoded_files: the original has the suffix the row has now.     *)
ListedOriginals ==
    {[row[m].path EXCEPT !.tag = ""] : m \in {n \in Rows : row[n].path.tag = "tr"}}

DeleteOriginal(p) ==
    /\ p \in ListedOriginals /\ IsFile(p)
    /\ disk' = Drop(disk, {p})
    /\ UNCHANGED <<row, editions, flagged>> /\ Request

-----------------------------------------------------------------------------
(* People move files that are complete and not hidden, within the library  *)
(* or out of it.                                                           *)
MoveFile(p, q) ==
    /\ OneMore /\ moved' = TRUE
    /\ IsFile(p) /\ ~IsFile(q) /\ disk[p].whole /\ p.tag # "ac3fix"
    /\ disk' = Put(Drop(disk, {p}), q, disk[p])
    /\ UNCHANGED <<db, tr, sweep, adding>>

(* The process dies, with all jobs and requests.                           *)
Crash ==
    /\ Event
    /\ tr' = NotTranscoding
    /\ sweep' = [s \in Sweeps |-> NotSweeping]
    /\ adding' = None
    /\ UNCHANGED <<disk, db>>

AdminStep ==
    \/ \E m \in Media : DeleteMedia(m)
    \/ \E f \in Films : ResolveFilm(f) \/ \E e \in Editions : KeepEdition(f, e)
    \/ \E p \in ListedOriginals : DeleteOriginal(p)

People ==
    \E p \in DOMAIN disk : \/ MoveFile(p, [p EXCEPT !.root = "elsewhere"])
                          \/ \E d \in Folders : MoveFile(p, [p EXCEPT !.folder = d])

Next ==
    \/ StartTranscode \/ TranscodeStep
    \/ \E s \in Sweeps : Stream(s) \/ Reindex(s) \/ Reconcile(s) \/ SweepStep(s)
    \/ \E p \in DOMAIN disk : ImportInsert(p) \/ ImportDuplicate(p)
    \/ ImportCommit
    \/ AdminStep
    \/ People
    \/ Crash

Spec == Init /\ [][Next]_vars

(* Imports and jobs run in threads of the server.                          *)
FairSpec == Spec /\ WF_vars(ImportCommit) /\ \A s \in Sweeps : WF_vars(SweepStep(s))

-----------------------------------------------------------------------------
(* Types.  A transcode converts originals only, so that the names above    *)
(* are all there are.                                                      *)
TypeOK ==
    /\ \A p \in DOMAIN disk : p \in Path /\ disk[p] \in Content
    /\ row \in Table
    /\ editions \subseteq Editions /\ flagged \subseteq Films
    /\ \A p \in known : p \in Path
    /\ tr \in Transcoding
    /\ tr.pc \in {"encode", "commit"} => tr.path.tag = ""
    /\ sweep \in [Sweeps -> Sweeping]

(* A row's file can be played: it is there, complete, the right one, and   *)
(* has the audio the row says.                                             *)
Playable(m) == /\ m \in Rows /\ IsFile(row[m].path)
               /\ disk[row[m].path] = [of |-> m, whole |-> TRUE, audio |-> row[m].audio]

(* Two originals that differ in suffix or folder only share the names of   *)
(* their conversions, or are found for each other.                         *)
Clash(m) == \E n \in Media \ {m} : layout[n].stem = layout[m].stem

(* The operation has loaded a path that the row does not have any more,    *)
(* has looked before people moved a file, or has found the edition empty   *)
(* before the row was there.                                               *)
Outdated(s, m) == \/ sweep[s].loaded[m] \notin {None, row[m].path}
                  \/ sweep[s].loaded[m] # None /\ moved
                  \/ sweep[s].pc = "flushed" /\ EditionOf[m] \in sweep[s].empty

(* What can be played stays so, whatever jobs, requests, failures and      *)
(* restarts there are, but for these windows: the transcode job has        *)
(* deleted the converted file and not yet committed the name of the new    *)
(* one, or that was moved meanwhile; a reindex, reconcile or stream        *)
(* request writes back what it decided before the row changed, or has done *)
(* so, and the file was converted once more; names clash; a person deletes *)
(* or moves the file.                                                      *)
PlayableStaysPlayable ==
    [][\A m \in Media : Playable(m) =>
         \/ Playable(m)'
         \/ tr.media = m /\ tr.pc \in {"swap"} \cup IF moved THEN {"commit", "commitWeb"} ELSE {}
         \/ \E s \in Sweeps : Outdated(s, m) /\ sweep'[s] = NotSweeping
         \/ m \in reverted \/ Clash(m)
         \/ DeleteMedia(m)
         \/ \E e \in Editions \ {EditionOf[m]} : KeepEdition(FilmOf[EditionOf[m]], e)
         \/ row[m].path.tag = "" /\ DeleteOriginal(row[m].path)
         \/ People]_vars

(* docs/progress.md says of the conversion that the original stays, and    *)
(* README.md calls its result a copy: nothing but a person's request       *)
(* deletes, overwrites or renames a file that is not a conversion.         *)
OriginalsStay ==
    [][\A p \in DOMAIN disk : p.tag = "" =>
         \/ p \in DOMAIN disk' /\ disk'[p] = disk[p]
         \/ DeleteOriginal(p)
         \/ People]_vars

(* No row names a part of a file, although a failed or interrupted         *)
(* conversion leaves parts under the very names the rows get, unless a     *)
(* stale reindex has undone a conversion in the table: the next one may    *)
(* leave a part in one place and succeed in another, where the file was    *)
(* moved, and when that is gone the part is found for it.                  *)
RowsNameWholeFiles ==
    \A m \in Rows \ reverted : IsFile(row[m].path) /\ ~Clash(m)
                                  => disk[row[m].path].whole

(* A row whose file is missing is repaired by the only file of its name in *)
(* the library.                                                            *)
Repairable(m) ==
    /\ m \in Rows /\ ~IsFile(row[m].path)
    /\ Cardinality({q \in DOMAIN disk : q.root = "library" /\ SameName(row[m].path, q)}) = 1

(* The path a reindex wants row m to have, and two rows that are to have   *)
(* the same one.                                                           *)
Target(m) == LET p == row[m].path IN IF IsFile(p) \/ Resolve(p) = None THEN p ELSE Resolve(p)
Collision == \E m, n \in Rows : m # n /\ Target(m) = Target(n)

ReindexGoesOn == []<><<\E s \in Sweeps : Reindex(s)>>_vars


(* The docstring of media_reindex: "Matching records are updated           *)
(* in-place."  A row with a match of its own stays without its file for    *)
(* ever when two others are found under one path, for one commit writes    *)
(* them all.                                                               *)
MatchesAreUpdated ==
    ReindexGoesOn =>
       []<>(\A m \in Media : \/ ~Repairable(m)
                             \/ \E n \in Rows \ {m} : Target(n) = Target(m))

(* The docstring of media_reconcile: it deletes the rows "whose underlying *)
(* file could not be found anywhere under the library root".               *)
ReconcileKeepsLiveRows ==
    [][\A s \in Sweeps, m \in Media :
         Cascade(s) /\ m \in Rows /\ IsFile(row[m].path) => m \in Rows']_vars

=============================================================================
