--------------------------- MODULE ImportPipeline ---------------------------
(***************************************************************************)
(* Library scans (domain/importing/scan.py and pipeline.py): each run      *)
(* lists the library directory, inserts a candidate for every file it does *)
(* not know, probes them and bridges them one by one into the catalogue    *)
(* (series, film, edition, media file).                                    *)
(*                                                                         *)
(* A run is one database transaction: what it inserts is its own until it  *)
(* commits at the very end, and its lookups see what is committed and what *)
(* is its own.  JobSlots shows that two runs can overlap.                  *)
(***************************************************************************)
EXTENDS FiniteSets, Naturals

CONSTANTS
    Files,       \* paths an import may find under the library root
    Runs,        \* threads that may run an import at the same time
    None,        \* no file, no row, no hash
    NoShow,      \* the show of a file that is not an episode
    ShowOf,      \* what the file name says: the show of an episode,
    EpisodeOf,   \* its season and number,
    TitleOf,     \* the title and year (for an episode, its own),
    VersionOf,   \* and the edition (quality, language, edition name)
    ContentOf,   \* the content the hash of a file stands for
    MaxFaults    \* bound: failures, cancellations, files that go away

ASSUME FaultsAssumption == MaxFaults \in Nat

VARIABLES
    disk,     \* the files that are there
    db,       \* what is committed: a set of rows for each table
    own,      \* what each run inserted and did not commit yet
    run,      \* where each run is
    faults,   \* how many faults there were
    overlap   \* history: some run started while another was in progress

vars == <<disk, db, own, run, faults, overlap>>

Image(op) == {op[f] : f \in Files}

(* "by" tells a row from others with the same contents: the run, and the   *)
(* file it was at work on, when it inserted the row.                       *)
SeriesRow == [show: Image(ShowOf), by: Runs \X Files]
FilmRow == [series: SeriesRow \cup {None}, episode: Image(EpisodeOf), title: Image(TitleOf),
            by: Runs \X Files]
EditionRow == [film: FilmRow, version: Image(VersionOf), by: Runs \X Files]
MediaRow == [file: Files, edition: EditionRow, content: Image(ContentOf) \cup {None}]
Candidate == [file: Files, status: {"pending", "probed", "imported", "error"}]

ASSUME NoneAssumption == None \notin SeriesRow

Rows == [series: SUBSET SeriesRow, films: SUBSET FilmRow, editions: SUBSET EditionRow,
         media: SUBSET MediaRow, candidates: SUBSET Candidate]
NoRows == [series |-> {}, films |-> {}, editions |-> {}, media |-> {}, candidates |-> {}]

(* A run goes  idle -> query -> probe -> next -> commit -> idle,  and for  *)
(* each candidate  next -> series -> film -> edition -> path -> hash ->    *)
(* insert -> next, unless it turns out to be a duplicate on the way.       *)
Bridging == {"series", "film", "edition", "path", "hash", "insert"}
RunState == {"idle", "query", "probe", "next", "commit"} \cup Bridging

(* errors and skipped are those of the report, as the files they are about *)
(* (the report counts a skipped file only if its content was a duplicate). *)
Run == [pc: RunState, stop: BOOLEAN, poisoned: BOOLEAN,
        todo: SUBSET Files, file: Files \cup {None},
        row: SeriesRow \cup FilmRow \cup EditionRow \cup MediaRow \cup {None},
        errors: SUBSET Files, skipped: SUBSET Files]
Idle == [pc |-> "idle", stop |-> FALSE, poisoned |-> FALSE, todo |-> {},
         file |-> None, row |-> None, errors |-> {}, skipped |-> {}]

Init ==
    /\ disk \in SUBSET Files
    /\ db = NoRows
    /\ own = [r \in Runs |-> NoRows]
    /\ run = [r \in Runs |-> Idle]
    /\ faults = 0
    /\ overlap = FALSE

-----------------------------------------------------------------------------
Fault == faults < MaxFaults /\ faults' = faults + 1

(* Mutant: runs share their uncommitted rows.                              *)
VisibleToAll(r, table) == db[table] \cup UNION {own[s][table] : s \in Runs}

(* What the queries of run r see of a table.                               *)
Visible(r, table) == db[table] \cup own[r][table]

(* Mutant: candidates of every status are known.                           *)
KnownByRow(f) == \E c \in db.candidates : c.file = f

(* scan_downloads skips a file that has a candidate, except one in error.  *)
Known(f) == \E c \in db.candidates : c.file = f /\ c.status # "error"

By(r) == <<r, run[r].file>>

Insert(r, table, row) == own' = [own EXCEPT ![r][table] = @ \cup {row}]

Goto(r, pc) == run' = [run EXCEPT ![r].pc = pc]

(* The lookup chain goes on with the row that was found or created.        *)
GoOn(r, pc, row) == run' = [run EXCEPT ![r].pc = pc, ![r].row = row]

(* Control is back at the head of the loop, with this report.              *)
Loop(r, errors, skipped) ==
    run' = [run EXCEPT ![r].pc = "next", ![r].file = None, ![r].row = None,
                       ![r].errors = errors, ![r].skipped = skipped]

(* The run is over and its session closed.                                 *)
Finish(r) == run' = [run EXCEPT ![r] = Idle]

(* The database takes back all the run inserted.                           *)
RollBack(r) == own' = [own EXCEPT ![r] = NoRows]

-----------------------------------------------------------------------------
(* scan_downloads lists the directory,                                     *)
Collect(r) ==
    /\ run[r].pc = "idle"
    /\ run' = [run EXCEPT ![r] = [Idle EXCEPT !.pc = "query", !.todo = disk]]
    /\ overlap' = (overlap \/ \E s \in Runs : run[s].pc # "idle")
    /\ UNCHANGED <<disk, db, own, faults>>

(* and inserts a candidate for each file it does not know.  A file that is *)
(* gone makes its stat() fail and the run with it; with no new file the    *)
(* run returns without a commit.                                           *)
Query(r) ==
    /\ run[r].pc = "query"
    /\ LET new == {f \in run[r].todo : ~Known(f)} IN
         IF new = {} \/ ~(new \subseteq disk)
         THEN Finish(r) /\ UNCHANGED own
         ELSE /\ own' = [own EXCEPT ![r].candidates =
                           {[file |-> f, status |-> "pending"] : f \in new}]
              /\ run' = [run EXCEPT ![r].pc = "probe", ![r].todo = new]
    /\ UNCHANGED <<disk, db, faults, overlap>>

(* probe_candidates: a file that is gone, or that ffprobe cannot read, is  *)
(* an error; the others will be bridged.  That ffprobe rejects a file that *)
(* is there counts as a fault.                                             *)
Probe(r) ==
    /\ run[r].pc = "probe"
    /\ \E bad \in SUBSET run[r].todo :
         /\ run[r].todo \ disk \subseteq bad
         /\ IF bad \subseteq run[r].todo \ disk THEN UNCHANGED faults ELSE Fault
         /\ own' = [own EXCEPT ![r].candidates =
                      {[file |-> f, status |-> IF f \in bad THEN "error" ELSE "probed"]
                         : f \in run[r].todo}]
         /\ run' = [run EXCEPT ![r].pc = "next", ![r].todo = @ \ bad]
    /\ UNCHANGED <<disk, db, overlap>>

(* Mutant: a status of its own for what was not probed.                    *)
SkipProbeWithStatus(r) ==
    /\ run[r].pc = "probe"
    /\ own' = [own EXCEPT ![r].candidates = {[c EXCEPT !.status = "skipped"] : c \in @}]
    /\ Goto(r, "next")
    /\ UNCHANGED <<disk, db, faults, overlap>>

(* Without ffprobe the candidates stay pending and are bridged as such.    *)
SkipProbe(r) ==
    /\ run[r].pc = "probe"
    /\ Goto(r, "next")
    /\ UNCHANGED <<disk, db, own, faults, overlap>>

-----------------------------------------------------------------------------
(* Head of the loop: take a candidate, in no particular order, unless the  *)
(* job was cancelled.  Once a flush has failed the session refuses every   *)
(* query, and the candidate ends among the errors.                         *)
Take(r) ==
    /\ run[r].pc = "next" /\ ~run[r].stop
    /\ \E f \in run[r].todo :
         run' = [run EXCEPT ![r].todo = @ \ {f},
                            ![r].pc = IF run[r].poisoned THEN "next" ELSE "series",
                            ![r].file = IF run[r].poisoned THEN None ELSE f,
                            ![r].errors = IF run[r].poisoned THEN @ \cup {f} ELSE @]
    /\ UNCHANGED <<disk, db, own, faults, overlap>>

Leave(r) ==
    /\ run[r].pc = "next"
    /\ run[r].stop \/ run[r].todo = {}
    /\ Goto(r, "commit")
    /\ UNCHANGED <<disk, db, own, faults, overlap>>

(* _find_or_create_series, the film, and _find_or_create_edition: a query, *)
(* then an insert flushed at once if it found nothing.  None of the three  *)
(* tables has a constraint that would stop a second such row (the unique   *)
(* key of editions does not count rows with a NULL in it).                 *)
FindOrCreate(r, table, matches, row, pc) ==
    \/ \E found \in matches : GoOn(r, pc, found) /\ UNCHANGED own
    \/ matches = {} /\ Insert(r, table, row) /\ GoOn(r, pc, row)

Series(r) ==
    /\ run[r].pc = "series"
    /\ LET show == ShowOf[run[r].file] IN
         IF show = NoShow THEN GoOn(r, "film", None) /\ UNCHANGED own
         ELSE FindOrCreate(r, "series", {s \in Visible(r, "series") : s.show = show},
                           [show |-> show, by |-> By(r)], "film")
    /\ UNCHANGED <<disk, db, faults, overlap>>

(* An episode is known by its show, season and number; any other file by   *)
(* title and year, among all films, episodes with a title of their own     *)
(* included.                                                               *)
IsFilmOf(film, series, f) ==
    IF series # None THEN film.series = series /\ film.episode = EpisodeOf[f]
                     ELSE film.title = TitleOf[f]

FilmNamed(f, series, by) ==
    [series |-> series, episode |-> EpisodeOf[f], title |-> TitleOf[f], by |-> by]

(* Mutant: episodes too are looked up by title and year.                   *)
FilmByTitle(r) ==
    /\ run[r].pc = "film"
    /\ LET f == run[r].file
           series == run[r].row
       IN  FindOrCreate(r, "films", {film \in Visible(r, "films") : IsFilmOf(film, None, f)},
                        FilmNamed(f, series, By(r)), "edition")
    /\ UNCHANGED <<disk, db, faults, overlap>>

Film(r) ==
    /\ run[r].pc = "film"
    /\ LET f == run[r].file
           series == run[r].row
       IN  FindOrCreate(r, "films", {film \in Visible(r, "films") : IsFilmOf(film, series, f)},
                        FilmNamed(f, series, By(r)), "edition")
    /\ UNCHANGED <<disk, db, faults, overlap>>

(* Mutant: only committed editions are looked at.                          *)
EditionCommittedOnly(r) ==
    /\ run[r].pc = "edition"
    /\ LET version == VersionOf[run[r].file] IN
         FindOrCreate(r, "editions", {e \in db.editions : e.film = run[r].row
                                                         /\ e.version = version},
                      [film |-> run[r].row, version |-> version, by |-> By(r)], "path")
    /\ UNCHANGED <<disk, db, faults, overlap>>

Edition(r) ==
    /\ run[r].pc = "edition"
    /\ LET version == VersionOf[run[r].file] IN
         FindOrCreate(r, "editions",
                      {e \in Visible(r, "editions") : e.film = run[r].row
                                                      /\ e.version = version},
                      [film |-> run[r].row, version |-> version, by |-> By(r)], "path")
    /\ UNCHANGED <<disk, db, faults, overlap>>

-----------------------------------------------------------------------------
Indexed(rows, f) == \E m \in rows : m.file = f

(* A path that is indexed already is passed over; no counter of the report *)
(* says so.                                                                *)
CheckPath(r) ==
    /\ run[r].pc = "path"
    /\ IF Indexed(Visible(r, "media"), run[r].file)
       THEN Loop(r, run[r].errors, run[r].skipped)
       ELSE Goto(r, "hash")
    /\ UNCHANGED <<disk, db, own, faults, overlap>>

(* A file with the content of an indexed one is skipped and counted.  One  *)
(* that is gone by now has no hash, and is indexed all the same.           *)
CheckContent(r) ==
    /\ run[r].pc = "hash"
    /\ LET f == run[r].file
           hash == IF f \in disk THEN ContentOf[f] ELSE None
       IN IF f \in disk /\ \E m \in Visible(r, "media") : m.content = hash
          THEN Loop(r, run[r].errors, run[r].skipped \cup {f})
          ELSE GoOn(r, "insert", [file |-> f, edition |-> run[r].row, content |-> hash])
    /\ UNCHANGED <<disk, db, own, faults, overlap>>

(* Mutant: the exception is not reported.                                  *)
HashRaisesUnseen(r) ==
    /\ run[r].pc = "hash"
    /\ Fault
    /\ Loop(r, run[r].errors, run[r].skipped)
    /\ UNCHANGED <<disk, db, own, overlap>>

(* The file cannot be read: the exception is caught and reported, and what *)
(* was created for the candidate stays.                                    *)
HashRaises(r) ==
    /\ run[r].pc = "hash"
    /\ Fault
    /\ Loop(r, run[r].errors \cup {run[r].file}, run[r].skipped)
    /\ UNCHANGED <<disk, db, own, overlap>>

-----------------------------------------------------------------------------
(* file_path is unique: an insert waits for another transaction that has   *)
(* inserted the same path and not ended yet, and fails if it is committed. *)
WaitsFor(r, s) == run[r].pc = "insert" /\ Indexed(own[s].media, run[r].file)

Blocked(r) == \E s \in Runs \ {r} : WaitsFor(r, s)

(* The media file is flushed and its candidate imported.                   *)
InsertMedia(r) ==
    /\ run[r].pc = "insert"
    /\ ~Blocked(r) /\ ~Indexed(db.media, run[r].file)
    /\ own' = [own EXCEPT ![r].media = @ \cup {run[r].row},
                          ![r].candidates = {IF c.file = run[r].file
                                             THEN [c EXCEPT !.status = "imported"]
                                             ELSE c : c \in @}]
    /\ Loop(r, run[r].errors, run[r].skipped)
    /\ UNCHANGED <<disk, db, faults, overlap>>

(* A flush fails: the transaction is rolled back, and the session refuses  *)
(* to go on; the loop reports the error and goes on with the next file.    *)
Poison(r) ==
    /\ RollBack(r)
    /\ run' = [run EXCEPT ![r].poisoned = TRUE, ![r].pc = "next", ![r].file = None,
                          ![r].row = None, ![r].errors = @ \cup {run[r].file}]

PathTaken(r) ==
    /\ run[r].pc = "insert"
    /\ ~Blocked(r) /\ Indexed(db.media, run[r].file)
    /\ Poison(r)
    /\ UNCHANGED <<disk, db, faults, overlap>>

(* Of two runs that wait for each other the database stops one.            *)
Deadlocked(r) ==
    /\ \E s \in Runs \ {r} : WaitsFor(r, s) /\ WaitsFor(s, r)
    /\ Poison(r)
    /\ UNCHANGED <<disk, db, faults, overlap>>

(* Any other failure of a flush.                                           *)
FlushFails(r) ==
    /\ run[r].pc \in Bridging
    /\ Fault
    /\ Poison(r)
    /\ UNCHANGED <<disk, db, overlap>>

-----------------------------------------------------------------------------
(* Mutant: a run whose session is unusable commits what it still lists.    *)
CommitPoisoned(r) ==
    /\ run[r].pc = "commit"
    /\ db' = [t \in DOMAIN db |-> db[t] \cup
                 IF t = "candidates" /\ run[r].poisoned
                 THEN {[file |-> f, status |-> "imported"] : f \in run[r].errors}
                 ELSE own[r][t]]
    /\ RollBack(r)
    /\ Finish(r)
    /\ UNCHANGED <<disk, faults, overlap>>

(* The one commit of the run.                                              *)
Commit(r) ==
    /\ run[r].pc = "commit" /\ ~run[r].poisoned
    /\ db' = [t \in DOMAIN db |-> db[t] \cup own[r][t]]
    /\ RollBack(r)
    /\ Finish(r)
    /\ UNCHANGED <<disk, faults, overlap>>

CommitRefused(r) ==
    /\ run[r].pc = "commit" /\ run[r].poisoned
    /\ Finish(r)
    /\ UNCHANGED <<disk, db, own, faults, overlap>>

(* A database call outside the loop's try block fails: the job has failed. *)
RunFails(r) ==
    /\ run[r].pc \in {"query", "probe", "next", "commit"}
    /\ Fault
    /\ RollBack(r)
    /\ Finish(r)
    /\ UNCHANGED <<disk, db, overlap>>

(* The process dies with all its runs.                                     *)
Crash ==
    /\ Fault
    /\ own' = [r \in Runs |-> NoRows]
    /\ run' = [r \in Runs |-> Idle]
    /\ UNCHANGED <<disk, db, overlap>>

(* From now on should_stop says yes to run r.                              *)
Cancel(r) ==
    /\ run[r].pc # "idle" /\ ~run[r].stop
    /\ Fault
    /\ run' = [run EXCEPT ![r].stop = TRUE]
    /\ UNCHANGED <<disk, db, own, overlap>>

Arrive(f) ==
    /\ f \notin disk
    /\ disk' = disk \cup {f}
    /\ UNCHANGED <<db, own, run, faults, overlap>>

GoAway(f) ==
    /\ f \in disk
    /\ Fault
    /\ disk' = disk \ {f}
    /\ UNCHANGED <<db, own, run, overlap>>

-----------------------------------------------------------------------------
(* What a run does until it is over.                                       *)
RunStep(r) ==
    \/ Query(r)
    \/ Probe(r)
    \/ SkipProbe(r)
    \/ Take(r)
    \/ Leave(r)
    \/ Series(r)
    \/ Film(r)
    \/ Edition(r)
    \/ CheckPath(r)
    \/ CheckContent(r)
    \/ InsertMedia(r)
    \/ PathTaken(r)
    \/ Deadlocked(r)
    \/ Commit(r)
    \/ CommitRefused(r)

Next ==
    \/ \E r \in Runs : \/ Collect(r)
                       \/ RunStep(r)
                       \/ HashRaises(r)
                       \/ FlushFails(r)
                       \/ RunFails(r)
                       \/ Cancel(r)
    \/ \E f \in Files : Arrive(f) \/ GoAway(f)
    \/ Crash

Spec == Init /\ [][Next]_vars

(* A run is a thread of the server, and each call it makes has a timeout.  *)
FairSpec == Spec /\ \A r \in Runs : WF_vars(RunStep(r))

-----------------------------------------------------------------------------
(* Types: each table, transaction and run has the shape above.             *)
TypeOK ==
    /\ disk \subseteq Files
    /\ db \in Rows
    /\ own \in [Runs -> Rows]
    /\ run \in [Runs -> Run]
    /\ faults \in 0..MaxFaults
    /\ overlap \in BOOLEAN

(* No two rows of the catalogue stand for the same thing: the same show,   *)
(* episode, film, edition, path or content.                                *)
NoDuplicates ==
    /\ \A s, t \in db.series : s.show = t.show => s = t
    /\ \A m, n \in db.films :
         m.series = n.series /\ m.series # None /\ m.episode = n.episode => m = n
    /\ \A m, n \in db.films :
         m.series = None /\ n.series = None /\ m.title = n.title => m = n
    /\ \A d, e \in db.editions : d.film = e.film /\ d.version = e.version => d = e
    /\ \A m, n \in db.media : m.file = n.file => m = n
    /\ \A m, n \in db.media : m.content = n.content /\ m.content # None => m = n

(* README.md promises that a repeated run makes no duplicates.  True as    *)
(* long as no two runs overlap, whatever fails and whichever files come    *)
(* and go between and during the runs.                                     *)
SerialRunsMakeNoDuplicates == ~overlap => NoDuplicates

(* The catalogue never refers to a row that was rolled back, although the  *)
(* rows a run refers to may be its own or another's and a run may fail     *)
(* between any two inserts.                                                *)
ReferencesHold ==
    /\ \A m \in db.films : m.series \in db.series \cup {None}
    /\ \A e \in db.editions : e.film \in db.films
    /\ \A m \in db.media : m.edition \in db.editions

(* A candidate says imported exactly if its file is indexed.               *)
ImportedIffIndexed ==
    \A f \in Files : Indexed(db.media, f)
                       <=> [file |-> f, status |-> "imported"] \in db.candidates

(* A candidate that a run commits without importing it, and that later     *)
(* scans will therefore skip, is accounted for: the run was cancelled, the *)
(* report lists an error or a duplicate, or the file was indexed before.   *)
NoSilentLoss ==
    [][\A r \in Runs : \A f \in Files :
         /\ db' # db /\ run[r].pc = "commit" /\ run'[r].pc = "idle"
         /\ \E c \in own[r].candidates : c.file = f /\ c.status \in {"pending", "probed"}
         => \/ run[r].stop
            \/ f \in run[r].errors \cup run[r].skipped
            \/ Indexed(db'.media, f)]_vars

(* If scans keep being started, a file that stays gets a candidate that is *)
(* not in error sooner or later: no run waits for another for ever, a file *)
(* that could not be probed is tried again, and what a failed run leaves   *)
(* behind does not stop the next ones.                                     *)
ScansGoOn == []<>(\E r \in Runs : run[r].pc = "query")

FilesAreTakenUp ==
    \A f \in Files : ScansGoOn /\ <>[](f \in disk) 
          => <>(\E c \in db.candidates : c.file = f /\ c.status # "error")

(* The imports implement the library (Library): however they overlap, fail *)
(* and start again, the index only grows, by every file at most once, each *)
(* under its own version of a film that a file with that name would make.  *)
EntryOf(m) ==
    LET film == m.edition.film
    IN  [file |-> m.file, show |-> IF film.series = None THEN NoShow ELSE film.series.show,
         episode |-> film.episode, title |-> film.title, version |-> m.edition.version]

L == INSTANCE Library WITH index <- {EntryOf(m) : m \in db.media}

ImplementsLibrary == L!LibrarySpec

-----------------------------------------------------------------------------
(* What the documentation says and the code does not do.                   *)

(* README.md: every file becomes a MediaFile.  Not one whose import was    *)
(* cancelled: its candidate is committed and skipped by all later scans.   *)
EveryFileIsIndexed ==
    \A f \in Files :
        ScansGoOn /\ <>[](f \in disk)
          => <>(\E m \in db.media : m.file = f \/ m.content = ContentOf[f])

=============================================================================
