------------------------------ MODULE Metadata ------------------------------
(***************************************************************************)
(* Film cards and file aliases, and those who write them: the jobs for     *)
(* posters, enrichment and aliases and the requests of the administrator   *)
(* (api/admin.py), and imports of further files of a film                  *)
(* (domain/importing/pipeline.py).                                         *)
(*                                                                         *)
(* Each of them loads rows into a session of its own, changes them there   *)
(* while the others go on, and commits once.  A flush sends, of each row,  *)
(* the columns whose value is not the one loaded or sent last, and locks   *)
(* the row for the session; the commit flushes once more.  Imports flush   *)
(* in the middle of their work.  (The enrichment job does so too, for a    *)
(* new genre or person, but changes each card only once: what it sends     *)
(* then is what it would send at its commit.)  OMDB and the language model *)
(* may answer anything.  Of a card the model keeps the poster and the      *)
(* quality fields; texts, genres and actors, which no decision here reads, *)
(* go unsaid.                                                              *)
(***************************************************************************)
EXTENDS FiniteSets, Naturals

CONSTANTS
    Films,      \* films that were imported once
    Media,      \* media files
    Editions,   \* editions of a film, made or not
    Writers,    \* jobs and requests under way
    Posters,    \* poster addresses OMDB may find
    None,
    Gone,       \* the row of a file that was deleted
    MaxWork,    \* bound: jobs and requests
    MaxFiles    \* bound: files of an edition

ASSUME BoundAssumption == MaxWork \in Nat /\ MaxFiles \in Nat \ {0}
ASSUME RowAssumption == Films \cap Media = {} /\ "manual" \notin Posters

Rows == Films \cup Media

(* conf is the confidence in tenths; a film that an import has made has    *)
(* 0.6 (it has a year).                                                    *)
Sources == {"filename_parse", "omdb", "deepseek", "manual"}
Confidence(source) ==
    CASE source = "filename_parse" -> 6 [] source = "manual" -> 10 [] OTHER -> 9
Film == [source: Sources, conf: {6, 9, 10}, review: BOOLEAN,
         poster: Posters \cup {"manual", None}, posterSource: {"omdb", "manual", None}]
MediaFile == [alias: {"llm", "stem", None}, processed: BOOLEAN]

ASSUME NoneAssumption ==
    /\ None \notin Posters \cup {"omdb", "manual", "llm"} \cup Film \cup MediaFile \cup Editions
    /\ Gone \notin {None} \cup Film \cup MediaFile

VARIABLES
    keys,      \* the keys that are configured
    table,     \* the rows, committed
    files,     \* how many files each edition of a film has
    work,      \* what each writer has loaded and changed
    started,   \* how many writers there were
    mixed,     \* history: rows written by one who had loaded another version
    raced      \* history: writers whose import has met another one

vars == <<keys, table, files, work, started, mixed, raced>>

(* loaded, mine: the rows as they were loaded and as they are now in the   *)
(* session, None for others; sent: the columns its flushes have written;   *)
(* todo: the rows a job has not come to yet; adding: how many files an     *)
(* import adds to each edition (of which two imports at once may make two  *)
(* rows, see ImportPipeline: they count as one); looked: the editions of   *)
(* the files it came to, None for one that met an error.                   *)
Kinds == {"idle", "enrich", "fill", "refresh", "alias", "request", "import"}
Idle == [kind |-> "idle", loaded |-> [r \in Rows |-> None], mine |-> [r \in Rows |-> None],
         sent |-> [r \in Rows |-> {}], todo |-> {},
         adding |-> [e \in Editions |-> 0], looked |-> {}]

Init ==
    /\ keys \in SUBSET {"omdb_api_key", "deepseek_api_key"}
    /\ table = [r \in Rows |->
         IF r \in Films
         THEN [source |-> "filename_parse", conf |-> 6, review |-> FALSE,
               poster |-> None, posterSource |-> None]
         ELSE [alias |-> None, processed |-> FALSE]]
    /\ \E first \in [Films -> Editions] :
         files = [f \in Films |-> [e \in Editions |-> IF e = first[f] THEN 1 ELSE 0]]
    /\ work = [w \in Writers |-> Idle]
    /\ started = 0
    /\ mixed = {} /\ raced = {}

-----------------------------------------------------------------------------
(* The session.                                                            *)

Present == {r \in Rows : table[r] # Gone}

Importing == {w \in Writers : work[w].kind = "import"}

(* A writer loads the rows it will look at; those in mine it has already   *)
(* changed.                                                                *)
Load(w, kind, loading, mine, todo) ==
    LET rows == [r \in Rows |-> IF r \in loading THEN table[r] ELSE None]
    IN  /\ work[w].kind = "idle" /\ started < MaxWork
        /\ started' = started + 1
        /\ work' = [work EXCEPT ![w] =
             [@ EXCEPT !.kind = kind, !.todo = todo, !.loaded = rows,
                       !.mine = [r \in Rows |-> IF r \in DOMAIN mine THEN mine[r] ELSE rows[r]]]]
        /\ raced' = IF kind = "import" /\ Importing # {} THEN raced \cup Importing \cup {w}
                    ELSE raced
        /\ UNCHANGED <<keys, table, files, mixed>>

Columns == {"source", "conf", "review", "poster", "posterSource", "alias", "processed"}
Differ(row, other) == {c \in Columns \cap DOMAIN row : row[c] # other[c]}

Changed(w) == {r \in Rows : work[w].mine[r] # work[w].loaded[r] \/ work[w].sent[r] # {}}

(* What another session has sent is locked until it ends.                  *)
Free(w, rows) == \A v \in Writers \ {w} : \A r \in rows : work[v].sent[r] = {}

(* Mutant: the commit writes all columns.                                  *)
WriteAll(row, loaded, mine, sent) == mine
(* A column that was sent has the session's value, also when that is the   *)
(* loaded one again.                                                       *)
Write(row, loaded, mine, sent) ==
    [c \in DOMAIN row |-> IF c \in sent \/ mine[c] # loaded[c] THEN mine[c] ELSE row[c]]

(* The commit of everything a writer changed.                              *)
Commit(w) ==
    /\ Changed(w) \subseteq Present /\ Free(w, Changed(w))
    /\ table' = [r \in Rows |->
         IF r \in Changed(w)
         THEN Write(table[r], work[w].loaded[r], work[w].mine[r], work[w].sent[r])
         ELSE table[r]]
    /\ mixed' = mixed \cup {r \in Changed(w) : table[r] # work[w].loaded[r]}
    /\ work' = [work EXCEPT ![w] = Idle]
    /\ raced' = raced \ {w}
    /\ UNCHANGED <<keys, started>>

(* The writer's transaction is rolled back: an error, a restart, or a row  *)
(* it changed, or an edition it adds to, has been deleted.                 *)
RollBack(w) ==
    /\ work[w].kind # "idle"
    /\ work' = [work EXCEPT ![w] = Idle]
    /\ raced' = raced \ {w}
    /\ UNCHANGED <<keys, table, files, started, mixed>>

-----------------------------------------------------------------------------
(* What a row becomes.                                                     *)

(* Mutant: confidence as a percentage.                                     *)
EnrichedPercent(film) == [film EXCEPT !.source = "deepseek", !.conf = 90, !.review = FALSE]
Enriched(film) == [film EXCEPT !.source = "deepseek", !.conf = 9, !.review = FALSE]

WithPoster(film, poster) == [film EXCEPT !.poster = poster, !.posterSource = "omdb"]

(* Mutant: an edit leaves the confidence of what it replaced.              *)
EditedOnly(film, poster) ==
    [film EXCEPT !.source = "manual", !.review = FALSE, !.poster = poster,
                 !.posterSource = IF poster = film.poster THEN film.posterSource ELSE "manual"]
(* An edit that changes something: the poster, or else another field.      *)
Edited(film, poster) ==
    [film EXCEPT !.source = "manual", !.conf = 10, !.review = FALSE, !.poster = poster,
                 !.posterSource = IF poster = film.poster THEN film.posterSource ELSE "manual"]

(* What OMDB and the language model may answer when an import asks them.   *)
Found(film) ==
    IF film.poster = None /\ "omdb_api_key" \in keys THEN Posters \cup {None} ELSE {None}
Answers ==
    {"nothing"} \cup IF "deepseek_api_key" \in keys THEN {"metadata", "error"} ELSE {}

(* The card once a file was imported: as read from the file name, then     *)
(* with what OMDB found, then enriched, then flagged when its edition has  *)
(* a file already.  An error ends the import of the file there and then;   *)
(* the card keeps what was written.                                        *)
Graded(film, poster) ==
    IF poster # None
    THEN [WithPoster(film, poster) EXCEPT !.source = "omdb", !.conf = 9, !.review = FALSE]
    ELSE [film EXCEPT !.source = "filename_parse", !.conf = 6, !.review = "omdb_api_key" \in keys]

(* Mutant: the edition is looked at before the enrichment.                 *)
ImportedEnrichedLast(film, poster, answer, others) ==
    LET graded == Graded(film, poster)
        flagged == IF others > 0 THEN [graded EXCEPT !.review = TRUE] ELSE graded
    IN  CASE answer = "nothing" -> flagged
          [] answer = "metadata" -> Enriched(flagged)
          [] answer = "error" -> graded
Imported(film, poster, answer, others) ==
    LET graded == Graded(film, poster)
        enriched == IF answer = "metadata" THEN Enriched(graded) ELSE graded
    IN  IF answer # "error" /\ others > 0 THEN [enriched EXCEPT !.review = TRUE] ELSE enriched

Aliases(media) ==
    {media, [alias |-> "llm", processed |-> TRUE],
     [media EXCEPT !.alias = IF @ = None THEN "stem" ELSE @]}

-----------------------------------------------------------------------------
(* The jobs.                                                               *)

(* Mutant: every film gets a new poster.                                   *)
AnyPoster(film) == TRUE
NoPoster(film) == film.poster = None

StartFill(w) ==
    /\ "omdb_api_key" \in keys
    /\ LET films == {f \in Films : NoPoster(table[f])}
       IN  Load(w, "fill", films, <<>>, films)

StartRefresh(w) ==
    /\ "omdb_api_key" \in keys
    /\ LET films == Films IN Load(w, "refresh", films, <<>>, films)

StartEnrich(w) ==
    /\ "deepseek_api_key" \in keys
    /\ \E force \in BOOLEAN :
         LET films == {f \in Films : force \/ table[f].source # "deepseek"}
         IN  Load(w, "enrich", films, <<>>, films)

StartAlias(w) ==
    /\ "deepseek_api_key" \in keys
    /\ \E force \in BOOLEAN :
         LET media == {m \in Media \cap Present : force \/ ~table[m].processed}
         IN  Load(w, "alias", media, <<>>, media)

(* What one step of a job may make of a row.  No answer, and an error of a *)
(* film, leave the row.                                                    *)
Outcomes(kind, row) ==
    CASE kind \in {"fill", "refresh"} -> {row} \cup {WithPoster(row, p) : p \in Posters}
      [] kind = "enrich" -> {row, Enriched(row)}
      [] kind = "alias" -> Aliases(row)

JobStep(w) ==
    \E r \in work[w].todo : \E row \in Outcomes(work[w].kind, work[w].mine[r]) :
        /\ work' = [work EXCEPT ![w] =
             [@ EXCEPT !.todo = work[w].todo \ {r}, !.mine = [work[w].mine EXCEPT ![r] = row]]]
        /\ UNCHANGED <<keys, table, files, started, mixed, raced>>

(* The job is through, or was cancelled: what it has done is committed.    *)
JobCommit(w) ==
    /\ work[w].kind \in {"enrich", "fill", "refresh", "alias"}
    /\ Commit(w)
    /\ UNCHANGED files

-----------------------------------------------------------------------------
(* The requests of the administrator, and the end of a reconciliation.     *)

Request(w, r, row) == Load(w, "request", {r}, [x \in {r} |-> row], {})

Edit(w) ==
    \E f \in Films :
        \E poster \in {table[f].poster, "manual"} : Request(w, f, Edited(table[f], poster))

(* Keeping one edition ends so too, once the files of the others are gone  *)
(* (MediaFiles has it in full).                                            *)
ResolveConflict(w) ==
    \E f \in Films : Request(w, f, [table[f] EXCEPT !.review = FALSE])

ResetAlias(w) ==
    \E m \in Media \cap Present : Request(w, m, [alias |-> None, processed |-> FALSE])

(* A reconciliation flags the films that have no files left.               *)
Reconcile(w) ==
    LET empty == {f \in Films : \A e \in Editions : files[f][e] = 0}
    IN  Load(w, "request", empty, [f \in empty |-> [table[f] EXCEPT !.review = TRUE]], {})

RequestCommit(w) ==
    /\ work[w].kind = "request"
    /\ Commit(w)
    /\ UNCHANGED files

(* A file is deleted: one of an edition, or the one whose alias is kept    *)
(* here.                                                                   *)
DeleteFile ==
    /\ \/ \E f \in Films, e \in Editions :
            /\ files[f][e] > 0
            /\ files' = [files EXCEPT ![f][e] = @ - 1]
            /\ UNCHANGED table
       \/ \E m \in Media \cap Present :
            /\ table' = [table EXCEPT ![m] = Gone]
            /\ UNCHANGED files
    /\ UNCHANGED <<keys, work, started, mixed, raced>>

-----------------------------------------------------------------------------
(* An import of further files of a film.                                   *)

StartImport(w) == \E f \in Films : Load(w, "import", {f}, <<>>, {})

(* The versions of the card that are flushed on the way: as it was before  *)
(* the file, by the flush for a new film or for the years of a series; as  *)
(* it was graded, by the flush for a new genre or person; enriched, by the *)
(* flush for a new edition; and the last, with the new media file.         *)
Flushes(card, poster, answer, others, new) ==
    LET last == Imported(card, poster, answer, others)
        maybe == {card} \cup (IF answer = "nothing" THEN {} ELSE {Graded(card, poster)})
                       \cup (IF answer # "error" /\ others = 0 THEN {last} ELSE {})
    IN  {flushed \cup {v \in {last} : new = 1} : flushed \in SUBSET maybe}

(* A file whose content is known already is not added, nor is one that met *)
(* an error; the card changes all the same.                                *)
ImportFile(w) ==
    /\ work[w].kind = "import"
    /\ \E f \in Films, e \in Editions :
         LET card == work[w].mine[f]
             others == files[f][e] + work[w].adding[e]
         IN  /\ card # None /\ others < MaxFiles
             /\ \E poster \in Found(card), answer \in Answers :
                \E new \in IF answer = "error" THEN {0} ELSE {0, 1} :
                \E flushed \in Flushes(card, poster, answer, others, new) :
                  LET sent == UNION {Differ(version, work[w].loaded[f]) : version \in flushed}
                  IN  /\ sent # {} => Free(w, {f})
                      /\ work' = [work EXCEPT ![w] =
                        [@ EXCEPT
                           !.mine = [work[w].mine EXCEPT ![f] = Imported(card, poster, answer, others)],
                           !.sent = [work[w].sent EXCEPT ![f] = @ \cup sent],
                           !.adding = [work[w].adding EXCEPT ![e] = @ + new],
                           !.looked = work[w].looked \cup {IF answer = "error" THEN None ELSE e}]]
    /\ UNCHANGED <<keys, table, files, started, mixed, raced>>

(* The bound on files holds for two imports together.                      *)
ImportCommit(w) ==
    /\ work[w].kind = "import"
    /\ Commit(w)
    /\ files' = [f \in Films |-> IF work[w].loaded[f] = None THEN files[f]
                                 ELSE [e \in Editions |-> files[f][e] + work[w].adding[e]]]
    /\ \A f \in Films, e \in Editions : files'[f][e] <= MaxFiles

Next ==
    \/ \E w \in Writers :
         \/ StartFill(w) \/ StartRefresh(w) \/ StartEnrich(w) \/ StartAlias(w)
         \/ JobStep(w) \/ JobCommit(w)
         \/ Edit(w) \/ ResolveConflict(w) \/ ResetAlias(w) \/ Reconcile(w)
         \/ RequestCommit(w)
         \/ StartImport(w) \/ ImportFile(w) \/ ImportCommit(w)
         \/ RollBack(w)
    \/ DeleteFile

Spec == Init /\ [][Next]_vars

-----------------------------------------------------------------------------

(* The variables hold what the columns and sessions can.                   *)
TypeOf(r) == IF r \in Films THEN Film ELSE MediaFile
SessionRows == [Rows -> Film \cup MediaFile \cup {None}]
Job == [kind: Kinds, loaded: SessionRows, mine: SessionRows,
        sent: [Rows -> SUBSET Columns], todo: SUBSET Rows,
        adding: [Editions -> 0..MaxFiles], looked: SUBSET (Editions \cup {None})]

TypeOK ==
    /\ keys \subseteq {"omdb_api_key", "deepseek_api_key"}
    /\ table \in [Rows -> Film \cup MediaFile \cup {Gone}]
    /\ \A r \in Rows : table[r] \in TypeOf(r) \/ (r \in Media /\ table[r] = Gone)
    /\ files \in [Films -> [Editions -> 0..MaxFiles]]
    /\ work \in [Writers -> Job]
    /\ \A w \in Writers, r \in Rows :
         /\ work[w].loaded[r] \in TypeOf(r) \cup {None}
         /\ work[w].mine[r] \in TypeOf(r) \cup {None}
    /\ started \in 0..MaxWork
    /\ mixed \subseteq Rows
    /\ raced \subseteq Writers

(* The columns of a row agree: the confidence is that of the source, a     *)
(* poster has a source, and a file that counts as processed has an alias   *)
(* the language model gave it.  Each writer leaves them so; a row may come *)
(* apart only when two writers had it at once, since each then writes the  *)
(* columns it changed and none of the others.                              *)
CoherentFilm(film) ==
    /\ film.conf = Confidence(film.source)
    /\ film.poster = None <=> film.posterSource = None
    /\ film.poster = "manual" <=> film.posterSource = "manual"
CoherentMedia(media) == media.processed => media.alias = "llm"
Coherent(r, row) == IF r \in Films THEN CoherentFilm(row) ELSE CoherentMedia(row)
CoherentUnlessMixed == \A r \in Present \ mixed : Coherent(r, table[r])

Commits(w) == work[w].kind # "idle" /\ work'[w].kind = "idle"

(* A poster the administrator chose is replaced by OMDB's only in the job  *)
(* that replaces all of them, or by one who read the card before.          *)
ManualPosterKept ==
    [][\A f \in Films : \A w \in Writers :
         /\ Commits(w)
         /\ table[f].posterSource = "manual" /\ table'[f].posterSource = "omdb"
         => work[w].kind = "refresh" \/ work[w].loaded[f].poster # table[f].poster]_vars

(* A flag that was raised while a job or a request was under way is still  *)
(* there when that commits: an enrichment that clears the flag of a card   *)
(* it loaded without one clears nothing.  Only an import may clear a flag  *)
(* it has not seen, and only after a flush that raised the flag of its     *)
(* own: it then sends FALSE over both.                                     *)
FlagRaisedMeanwhileSurvives ==
    [][\A f \in Films : \A w \in Writers :
         /\ Commits(w)
         /\ table[f].review /\ ~table'[f].review
         => \/ work[w].loaded[f].review
            \/ work[w].kind = "import" /\ "review" \in work[w].sent[f]]_vars

(* When all an import brought of a film are files of one edition, and the  *)
(* edition has several afterwards, the film is among the conflicts, unless *)
(* someone else wrote the card while the import ran, or another import was *)
(* under way, whose files neither of the two can count.  (With files of    *)
(* other editions, or errors, in between, the last file decides alone.)    *)
NewConflictIsFlagged ==
    [][\A f \in Films, e \in Editions : \A w \in Writers :
         /\ Commits(w) /\ work[w].looked = {e} /\ w \notin raced
         /\ files'[f][e] > files[f][e] /\ files'[f][e] > 1
         => table'[f].review \/ table[f] # work[w].loaded[f]]_vars

=============================================================================
