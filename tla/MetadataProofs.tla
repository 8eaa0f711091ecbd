--------------------------- MODULE MetadataProofs ---------------------------
(***************************************************************************)
(* What holds of cards and aliases for any number of films, files and      *)
(* writers.                                                                *)
(***************************************************************************)
EXTENDS Metadata, TLAPS

USE BoundAssumption, RowAssumption, NoneAssumption DEF Rows

-----------------------------------------------------------------------------
(* What becomes of a row.                                                  *)

(* A row of the type that is coherent if the one it was made of is.        *)
FilmFrom(film, new) == new \in Film /\ (CoherentFilm(film) => CoherentFilm(new))
MediaFrom(media, new) == new \in MediaFile /\ (CoherentMedia(media) => CoherentMedia(new))

LEMMA WriteFilm ==
  ASSUME NEW row \in Film, NEW loaded \in Film, NEW mine \in Film, NEW sent
  PROVE  /\ Write(row, loaded, mine, sent) \in Film
         /\ row = loaded => Write(row, loaded, mine, sent) = mine
  BY DEF Write, Film

LEMMA WriteColumns ==
  ASSUME NEW row \in Film, NEW loaded \in Film, NEW mine \in Film, NEW sent
  PROVE  LET new == Write(row, loaded, mine, sent)
         IN  /\ new.review = IF "review" \in sent \/ mine.review # loaded.review
                             THEN mine.review ELSE row.review
             /\ new.poster = IF "poster" \in sent \/ mine.poster # loaded.poster
                             THEN mine.poster ELSE row.poster
             /\ new.posterSource =
                  IF "posterSource" \in sent \/ mine.posterSource # loaded.posterSource
                  THEN mine.posterSource ELSE row.posterSource
  BY DEF Write, Film

LEMMA WriteMedia ==
  ASSUME NEW row \in MediaFile, NEW loaded \in MediaFile, NEW mine \in MediaFile, NEW sent
  PROVE  /\ Write(row, loaded, mine, sent) \in MediaFile
         /\ row = loaded => Write(row, loaded, mine, sent) = mine
  BY DEF Write, MediaFile

LEMMA CardsAreFilms ==
  ASSUME NEW film \in Film
  PROVE  /\ FilmFrom(film, film) /\ FilmFrom(film, Enriched(film))
         /\ \A p \in Posters : FilmFrom(film, WithPoster(film, p))
         /\ \A p \in {film.poster, "manual"} : FilmFrom(film, Edited(film, p))
  BY DEF Film, FilmFrom, CoherentFilm, Confidence, Enriched, WithPoster, Edited, Sources

LEMMA FlaggedFilm ==
  ASSUME NEW film \in Film, NEW b \in BOOLEAN
  PROVE  FilmFrom(film, [film EXCEPT !.review = b])
  BY DEF Film, CoherentFilm, FilmFrom

LEMMA GradedFilm ==
  ASSUME NEW film \in Film, NEW p \in Posters \cup {None}
  PROVE  FilmFrom(film, Graded(film, p))
<1>1. CASE p = None
  <2> DEFINE asked == "omdb_api_key" \in keys
             read == [film EXCEPT !.source = "filename_parse", !.conf = 6]
  <2>1. FilmFrom(film, read)
    BY DEF Film, FilmFrom, CoherentFilm, Confidence, Sources
  <2>2. Graded(film, p) = [read EXCEPT !.review = asked] /\ asked \in BOOLEAN
    BY <1>1 DEF Graded, Film
  <2> HIDE DEF asked, read
  <2>3. QED BY <2>1, <2>2, FlaggedFilm DEF FilmFrom
<1>2. CASE p \in Posters
  BY <1>2 DEF Graded, WithPoster, Film, FilmFrom, CoherentFilm, Confidence, Sources
<1>3. QED BY <1>1, <1>2

LEMMA ImportedFilm ==
  ASSUME NEW film \in Film, NEW p \in Posters \cup {None}, NEW answer, NEW others \in Nat
  PROVE  FilmFrom(film, Imported(film, p, answer, others))
<1> DEFINE graded == Graded(film, p)
           enriched == IF answer = "metadata" THEN Enriched(graded) ELSE graded
<1>1. FilmFrom(film, graded)
  BY GradedFilm
<1>2. FilmFrom(film, enriched)
  BY <1>1, CardsAreFilms DEF FilmFrom
<1>3. Imported(film, p, answer, others) \in {enriched, [enriched EXCEPT !.review = TRUE]}
  BY DEF Imported
<1> HIDE DEF enriched
<1>4. QED BY <1>2, <1>3, FlaggedFilm DEF FilmFrom

LEMMA AliasesAreMedia ==
  ASSUME NEW media \in MediaFile
  PROVE  \A row \in Aliases(media) : MediaFrom(media, row)
<1>1. MediaFrom(media, [alias |-> "llm", processed |-> TRUE])
  BY DEF MediaFile, CoherentMedia, MediaFrom
<1>2. MediaFrom(media, [media EXCEPT !.alias = IF @ = None THEN "stem" ELSE @])
  BY DEF MediaFile, CoherentMedia, MediaFrom
<1>3. QED BY <1>1, <1>2 DEF Aliases, MediaFrom

-----------------------------------------------------------------------------
(* The inductive invariant.                                                *)

From(r, old, new) == new \in TypeOf(r) /\ (Coherent(r, old) => Coherent(r, new))

(* In a session a row that was loaded coherent still is; only an import    *)
(* has sent anything before its commit; a job has rows of its kind ahead;  *)
(* and an import has one film.                                             *)
JobOK(job) ==
    /\ job \in Job
    /\ \A r \in Rows :
         /\ job.loaded[r] \in TypeOf(r) \cup {None}
         /\ job.loaded[r] = None => job.mine[r] = None /\ job.sent[r] = {}
         /\ job.loaded[r] # None => From(r, job.loaded[r], job.mine[r])
         /\ job.sent[r] # {} => job.kind = "import"
    /\ \A r \in job.todo :
         /\ job.loaded[r] # None
         /\ \/ job.kind = "alias" /\ r \in Media
            \/ job.kind \in {"fill", "refresh", "enrich"} /\ r \in Films
    /\ job.kind = "idle" => job.looked = {} /\ \A e \in Editions : job.adding[e] = 0
    /\ job.kind = "import" =>
         \A f, g \in Films : job.loaded[f] # None /\ job.loaded[g] # None => g = f

(* Two imports at once know of each other.                                 *)
SessionInv ==
    /\ \A w \in Writers : JobOK(work[w])
    /\ \A v, w \in Writers :
         work[v].kind = "import" /\ work[w].kind = "import" /\ v # w => v \in raced

MetaInv == TypeOK /\ SessionInv /\ CoherentUnlessMixed

LEMMA FromFilm ==
  ASSUME NEW r \in Films, NEW old, NEW new, FilmFrom(old, new)
  PROVE  From(r, old, new)
  BY DEF From, FilmFrom, Coherent, TypeOf

LEMMA FromMedia ==
  ASSUME NEW r \in Media, NEW old, NEW new, MediaFrom(old, new)
  PROVE  From(r, old, new)
  BY DEF From, MediaFrom, Coherent, TypeOf

LEMMA FromWrite ==
  ASSUME NEW r \in Rows, NEW row \in TypeOf(r), NEW loaded \in TypeOf(r), NEW mine \in TypeOf(r),
         NEW sent
  PROVE  /\ Write(row, loaded, mine, sent) \in TypeOf(r)
         /\ row = loaded => Write(row, loaded, mine, sent) = mine
  BY WriteFilm, WriteMedia DEF TypeOf

LEMMA RowTypes == \A r \in Rows : None \notin TypeOf(r) /\ Gone \notin TypeOf(r) /\ TypeOf(r) \subseteq Film \cup MediaFile
  BY DEF TypeOf

(* At first all rows are coherent and nothing is under way.                *)
LEMMA MetaInit == Init => MetaInv
<1> SUFFICES ASSUME Init PROVE MetaInv
  OBVIOUS
<1>1. Idle \in Job
  BY DEF Idle, Job, SessionRows, Kinds
<1>2. ASSUME NEW r \in Rows PROVE table[r] \in TypeOf(r) /\ Coherent(r, table[r])
  BY DEF Init, TypeOf, Film, MediaFile, Sources, Coherent, CoherentFilm, CoherentMedia, Confidence
<1>3. TypeOK
  <2>1. table \in [Rows -> Film \cup MediaFile \cup {Gone}]
    BY <1>2, RowTypes DEF Init
  <2>2. files \in [Films -> [Editions -> 0..MaxFiles]]
    BY DEF Init
  <2>3. work \in [Writers -> Job] /\ \A w \in Writers : work[w] = Idle
    BY <1>1 DEF Init
  <2>4. started \in 0..MaxWork /\ mixed \subseteq Rows /\ raced \subseteq Writers
    BY DEF Init
  <2>5. keys \subseteq {"omdb_api_key", "deepseek_api_key"}
    BY DEF Init
  <2>6. \A w \in Writers, r \in Rows : work[w].loaded[r] = None /\ work[w].mine[r] = None
    BY <2>3 DEF Idle
  <2>7. QED BY <1>2, <2>1, <2>2, <2>3, <2>4, <2>5, <2>6 DEF TypeOK
<1>4. SessionInv
  BY <1>1 DEF Init, SessionInv, JobOK, Idle
<1>5. QED BY <1>2, <1>3, <1>4 DEF MetaInv, CoherentUnlessMixed, Present

-----------------------------------------------------------------------------
(* Sessions.                                                               *)

(* It is enough to look at the session that a step changes.                *)
LEMMA WorkKeepsInv ==
  ASSUME MetaInv, NEW w \in Writers, NEW job, JobOK(job),
         raced \ {w} \subseteq raced', raced' \subseteq Writers,
         job.kind = "import" =>
            \A v \in Writers \ {w} : work[v].kind = "import" => v \in raced' /\ w \in raced',
         work' = [work EXCEPT ![w] = job], started' \in 0..MaxWork,
         UNCHANGED <<keys, table, files, mixed>>
  PROVE  MetaInv'
<1> USE DEF MetaInv
<1>1. work'[w] = job /\ \A v \in Writers \ {w} : work'[v] = work[v]
  BY DEF TypeOK
<1>2. \A v \in Writers : JobOK(work'[v])
  BY <1>1 DEF SessionInv
<1>3. work' \in [Writers -> Job]
  BY <1>2 DEF TypeOK, JobOK
<1>4. \A v \in Writers, r \in Rows :
        work'[v].loaded[r] \in TypeOf(r) \cup {None} /\ work'[v].mine[r] \in TypeOf(r) \cup {None}
  BY <1>2 DEF JobOK, From
<1>5. TypeOK'
  BY <1>3, <1>4 DEF TypeOK
<1>6. SessionInv'
  BY <1>1, <1>2 DEF SessionInv, JobOK
<1>7. CoherentUnlessMixed'
  BY DEF CoherentUnlessMixed, Present
<1>8. QED BY <1>5, <1>6, <1>7

LEMMA LoadKeepsInv ==
  ASSUME MetaInv, NEW w \in Writers, NEW kind \in Kinds \ {"idle"},
         NEW loading \in SUBSET Present, NEW mine, NEW todo \in SUBSET loading,
         \A r \in DOMAIN mine : r \in loading /\ From(r, table[r], mine[r]),
         \A r \in todo :
            \/ kind = "alias" /\ r \in Media
            \/ kind \in {"fill", "refresh", "enrich"} /\ r \in Films,
         kind = "import" => \A r, s \in loading : r = s,
         Load(w, kind, loading, mine, todo)
  PROVE  MetaInv'
<1> DEFINE rows == [r \in Rows |-> IF r \in loading THEN table[r] ELSE None]
           changed == [r \in Rows |-> IF r \in DOMAIN mine THEN mine[r] ELSE rows[r]]
           job == [work[w] EXCEPT !.kind = kind, !.todo = todo, !.loaded = rows, !.mine = changed]
<1>1. /\ work[w].kind = "idle" /\ started < MaxWork /\ started' = started + 1
      /\ work' = [work EXCEPT ![w] = job]
      /\ UNCHANGED <<keys, table, files, mixed>>
  BY DEF Load
<1>2. \A r \in loading : r \in Rows /\ table[r] \in TypeOf(r) /\ table[r] # None
  BY RowTypes DEF MetaInv, TypeOK, Present
<1>3. rows \in SessionRows /\ \A r \in Rows : rows[r] \in TypeOf(r) \cup {None}
  BY <1>2, RowTypes DEF SessionRows
<1>4. \A r \in Rows : rows[r] = None => changed[r] = None
  BY <1>2
<1>5. \A r \in Rows : rows[r] # None => From(r, rows[r], changed[r])
  BY <1>2 DEF From
<1>6. changed \in SessionRows
  BY <1>4, <1>5, RowTypes DEF SessionRows, From
<1>7. \A r \in todo : rows[r] # None
  BY <1>2
<1>8. work[w] \in Job /\ work[w].looked = {} /\ \A e \in Editions : work[w].adding[e] = 0
  BY <1>1 DEF MetaInv, TypeOK, SessionInv, JobOK
<1> HIDE DEF rows, changed
<1>9. /\ job \in Job /\ job.kind = kind /\ job.todo = todo /\ job.loaded = rows /\ job.mine = changed
      /\ job.adding = work[w].adding
  BY <1>2, <1>3, <1>6, <1>8 DEF Job
<1>10. job.sent = work[w].sent /\ \A r \in Rows : work[w].sent[r] = {}
  BY <1>1, <1>8 DEF Job, MetaInv, SessionInv, JobOK
<1> HIDE DEF job
<1>11. JobOK(job)
  <2>1. \A r \in Rows : rows[r] # None => r \in loading
    BY DEF rows
  <2>2. QED BY <1>3, <1>4, <1>5, <1>7, <1>9, <1>10, <2>1 DEF JobOK
<1>12. started' \in 0..MaxWork
  BY <1>1 DEF MetaInv, TypeOK
<1>13. raced \ {w} \subseteq raced' /\ raced' \subseteq Writers
  BY DEF Load, Importing, MetaInv, TypeOK
<1>14. ASSUME kind = "import", NEW v \in Writers \ {w}, work[v].kind = "import"
       PROVE  v \in raced' /\ w \in raced'
  BY <1>14 DEF Load, Importing
<1>15. QED BY <1>1, <1>9, <1>11, <1>12, <1>13, <1>14, WorkKeepsInv

LEMMA RollBackKeepsInv ==
  ASSUME MetaInv, NEW w \in Writers, RollBack(w)
  PROVE  MetaInv'
<1>1. Idle \in Job /\ JobOK(Idle) /\ Idle.kind = "idle"
  BY DEF Idle, Job, JobOK, SessionRows, Kinds
<1>2. QED BY <1>1, WorkKeepsInv DEF RollBack, MetaInv, TypeOK

(* What a step of a job makes of a row.                                    *)
LEMMA OutcomesAreRows ==
  ASSUME NEW job, JobOK(job), NEW r \in job.todo, NEW row \in Outcomes(job.kind, job.mine[r])
  PROVE  From(r, job.mine[r], row)
<1>1. r \in Rows /\ job.mine[r] \in TypeOf(r)
  BY DEF JobOK, Job, From
<1>2. CASE job.kind = "alias" /\ r \in Media
  BY <1>1, <1>2, AliasesAreMedia, FromMedia DEF Outcomes, TypeOf
<1>3. CASE job.kind = "enrich" /\ r \in Films
  BY <1>1, <1>3, CardsAreFilms, FromFilm DEF Outcomes, TypeOf
<1>4. CASE job.kind \in {"fill", "refresh"} /\ r \in Films
  BY <1>1, <1>4, CardsAreFilms, FromFilm DEF Outcomes, TypeOf
<1>5. QED BY <1>2, <1>3, <1>4 DEF JobOK

LEMMA JobStepKeepsInv ==
  ASSUME MetaInv, NEW w \in Writers, JobStep(w)
  PROVE  MetaInv'
<1>1. PICK r \in work[w].todo : \E row \in Outcomes(work[w].kind, work[w].mine[r]) :
        /\ work' = [work EXCEPT ![w] =
             [@ EXCEPT !.todo = work[w].todo \ {r}, !.mine = [work[w].mine EXCEPT ![r] = row]]]
        /\ UNCHANGED <<keys, table, files, started, mixed, raced>>
  BY DEF JobStep
<1>2. PICK row \in Outcomes(work[w].kind, work[w].mine[r]) :
        /\ work' = [work EXCEPT ![w] =
             [@ EXCEPT !.todo = work[w].todo \ {r}, !.mine = [work[w].mine EXCEPT ![r] = row]]]
        /\ UNCHANGED <<keys, table, files, started, mixed, raced>>
  BY <1>1
<1> DEFINE job == [work[w] EXCEPT !.todo = work[w].todo \ {r}, !.mine = [work[w].mine EXCEPT ![r] = row]]
<1>3. JobOK(work[w]) /\ From(r, work[w].mine[r], row)
  BY OutcomesAreRows DEF MetaInv, SessionInv
<1>4. work' = [work EXCEPT ![w] = job]
  BY <1>2, <1>3 DEF MetaInv, TypeOK, JobOK, Job
<1>5. r \in Rows /\ row \in Film \cup MediaFile
  BY <1>3, RowTypes DEF JobOK, Job, From
<1>6. /\ job \in Job /\ job.kind = work[w].kind /\ job.todo = work[w].todo \ {r}
      /\ job.loaded = work[w].loaded /\ job.adding = work[w].adding /\ job.looked = work[w].looked
      /\ job.sent = work[w].sent /\ job.mine = [work[w].mine EXCEPT ![r] = row]
  BY <1>3, <1>5 DEF JobOK, Job, SessionRows
<1>7. \A s \in Rows : job.mine[s] = IF s = r THEN row ELSE work[w].mine[s]
  BY <1>3, <1>6 DEF JobOK, Job, SessionRows
<1> HIDE DEF job
<1>8. JobOK(job)
  BY <1>3, <1>6, <1>7 DEF JobOK, From
<1>9. /\ raced' = raced /\ raced \subseteq Writers /\ started' \in 0..MaxWork
      /\ UNCHANGED <<keys, table, files, mixed>>
  BY <1>2 DEF MetaInv, TypeOK
<1>10. \A v \in Writers \ {w} :
         job.kind = "import" /\ work[v].kind = "import" => v \in raced /\ w \in raced
  BY <1>6 DEF MetaInv, SessionInv
<1>11. QED BY <1>4, <1>8, <1>9, <1>10, WorkKeepsInv

(* A file is imported: the card is graded again, and the edition may have  *)
(* one file more.  What was sent are columns in which some version of the  *)
(* card differs from the loaded one.                                       *)
ImportsFile(w, f, e, answer, new, sent, poster) ==
    LET card == work[w].mine[f]
        others == files[f][e] + work[w].adding[e]
        row == Imported(card, poster, answer, others)
    IN  /\ card # None /\ others < MaxFiles /\ poster \in Found(card)
        /\ \A c \in sent : \E version \in {card, Graded(card, poster), row} :
              c \in Differ(version, work[w].loaded[f])
        /\ work' = [work EXCEPT ![w] =
             [work[w] EXCEPT
                !.mine = [work[w].mine EXCEPT ![f] = row],
                !.sent = [work[w].sent EXCEPT ![f] = work[w].sent[f] \cup sent],
                !.adding = [work[w].adding EXCEPT ![e] = work[w].adding[e] + new],
                !.looked = work[w].looked \cup {IF answer = "error" THEN None ELSE e}]]

LEMMA FileImported ==
  ASSUME MetaInv, NEW w \in Writers, ImportFile(w)
  PROVE  \E f \in Films, e \in Editions, answer \in Answers, new \in {0, 1},
            sent \in SUBSET Columns, poster \in Posters \cup {None} :
           ImportsFile(w, f, e, answer, new, sent, poster)
<1>1. PICK f \in Films, e \in Editions :
        LET card == work[w].mine[f]
            others == files[f][e] + work[w].adding[e]
        IN  /\ card # None /\ others < MaxFiles
            /\ \E poster \in Found(card), answer \in Answers :
               \E new \in IF answer = "error" THEN {0} ELSE {0, 1} :
               \E flushed \in Flushes(card, poster, answer, others, new) :
                 LET sent == UNION {Differ(version, work[w].loaded[f]) : version \in flushed}
                 IN  /\ sent # {} => Free(w, {f})
                     /\ work' = [work EXCEPT ![w] =
                       [@ EXCEPT
                          !.mine = [work[w].mine EXCEPT ![f] = Imported(card, poster, answer, others)],
                          !.sent = [work[w].sent EXCEPT ![f] = @ \cup sent],
                          !.adding = [work[w].adding EXCEPT ![e] = @ + new],
                          !.looked = work[w].looked \cup {IF answer = "error" THEN None ELSE e}]]
  BY Zenon DEF ImportFile
<1> DEFINE card == work[w].mine[f]
           others == files[f][e] + work[w].adding[e]
           Job2(row, sent, answer, new) ==
             [work[w] EXCEPT
                !.mine = [work[w].mine EXCEPT ![f] = row],
                !.sent = [work[w].sent EXCEPT ![f] = work[w].sent[f] \cup sent],
                !.adding = [work[w].adding EXCEPT ![e] = work[w].adding[e] + new],
                !.looked = work[w].looked \cup {IF answer = "error" THEN None ELSE e}]
<1>2. PICK poster \in Found(card), answer \in Answers :
         \E new \in IF answer = "error" THEN {0} ELSE {0, 1} :
         \E flushed \in Flushes(card, poster, answer, others, new) :
           work' = [work EXCEPT ![w] =
                     Job2(Imported(card, poster, answer, others),
                          UNION {Differ(version, work[w].loaded[f]) : version \in flushed},
                          answer, new)]
  BY <1>1
<1>3. PICK new \in {0, 1} : \E flushed \in Flushes(card, poster, answer, others, new) :
           work' = [work EXCEPT ![w] =
                     Job2(Imported(card, poster, answer, others),
                          UNION {Differ(version, work[w].loaded[f]) : version \in flushed},
                          answer, new)]
  BY <1>2
<1>9. PICK flushed \in Flushes(card, poster, answer, others, new) :
           work' = [work EXCEPT ![w] =
                     Job2(Imported(card, poster, answer, others),
                          UNION {Differ(version, work[w].loaded[f]) : version \in flushed},
                          answer, new)]
  BY <1>3
<1> DEFINE row == Imported(card, poster, answer, others)
           sent == UNION {Differ(version, work[w].loaded[f]) : version \in flushed}
<1>4. flushed \subseteq {card, Graded(card, poster), row}
  BY DEF Flushes
<1>5. sent \in SUBSET Columns
  BY DEF Differ
<1>6. \A c \in sent : \E version \in {card, Graded(card, poster), row} :
         c \in Differ(version, work[w].loaded[f])
  BY <1>4
<1>7. /\ work' = [work EXCEPT ![w] = Job2(row, sent, answer, new)]
      /\ card # None /\ others < MaxFiles /\ poster \in Posters \cup {None}
  BY <1>1, <1>9 DEF Found
<1> HIDE DEF sent
<1>8. ImportsFile(w, f, e, answer, new, sent, poster)
  BY <1>6, <1>7 DEF ImportsFile
<1>10. QED BY <1>5, <1>7, <1>8

(* An import goes on: it is still one, and no other writer has moved.      *)
LEMMA ImportGoesOn ==
  ASSUME MetaInv, NEW w \in Writers, ImportFile(w)
  PROVE  \E job : job.kind = "import" /\ work' = [work EXCEPT ![w] = job]
<1>1. PICK f \in Films, e \in Editions, answer \in Answers, new \in {0, 1},
           sent \in SUBSET Columns, poster \in Posters \cup {None} :
        ImportsFile(w, f, e, answer, new, sent, poster)
  BY FileImported
<1> DEFINE row == Imported(work[w].mine[f], poster, answer, files[f][e] + work[w].adding[e])
           job == [work[w] EXCEPT
                     !.mine = [work[w].mine EXCEPT ![f] = row],
                     !.sent = [work[w].sent EXCEPT ![f] = work[w].sent[f] \cup sent],
                     !.adding = [work[w].adding EXCEPT ![e] = work[w].adding[e] + new],
                     !.looked = work[w].looked \cup {IF answer = "error" THEN None ELSE e}]
<1>2. work' = [work EXCEPT ![w] = job]
  BY <1>1 DEF ImportsFile
<1>3. work[w] \in Job /\ work[w].kind = "import"
  BY DEF MetaInv, TypeOK, ImportFile
<1> HIDE DEF row
<1>4. job.kind = "import"
  BY <1>3 DEF Job
<1>5. QED BY <1>2, <1>4

LEMMA ImportFileKeepsInv ==
  ASSUME MetaInv, NEW w \in Writers, ImportFile(w)
  PROVE  MetaInv'
<1>1. PICK f \in Films, e \in Editions, answer \in Answers, new \in {0, 1},
           sent \in SUBSET Columns, poster \in Posters \cup {None} :
        ImportsFile(w, f, e, answer, new, sent, poster)
  BY FileImported
<1> DEFINE others == files[f][e] + work[w].adding[e]
           seen == IF answer = "error" THEN None ELSE e
           row == Imported(work[w].mine[f], poster, answer, others)
           job == [work[w] EXCEPT
                     !.mine = [work[w].mine EXCEPT ![f] = row],
                     !.sent = [work[w].sent EXCEPT ![f] = work[w].sent[f] \cup sent],
                     !.adding = [work[w].adding EXCEPT ![e] = work[w].adding[e] + new],
                     !.looked = work[w].looked \cup {seen}]
<1>2. work[w].mine[f] # None /\ others < MaxFiles /\ poster \in Found(work[w].mine[f])
  BY <1>1 DEF ImportsFile
<1>3. work' = [work EXCEPT ![w] = job]
  BY <1>1 DEF ImportsFile
<1>4. work[w].kind = "import" /\ UNCHANGED <<keys, table, files, started, mixed, raced>>
  BY DEF ImportFile
<1>5. JobOK(work[w]) /\ work[w] \in Job
  BY DEF MetaInv, SessionInv, JobOK
<1>6. /\ work[w].loaded[f] # None /\ work[w].mine[f] \in Film
      /\ work[w].adding[e] \in 0..MaxFiles /\ files[f][e] \in 0..MaxFiles
  <2>1. work[w].loaded[f] # None /\ work[w].mine[f] \in TypeOf(f)
    BY <1>2, <1>5 DEF JobOK, From
  <2>2. files[f][e] \in 0..MaxFiles
    BY DEF MetaInv, TypeOK
  <2>3. QED BY <1>5, <2>1, <2>2 DEF TypeOf, Job
<1>7. FilmFrom(work[w].mine[f], row)
  <2>1. poster \in Posters \cup {None}
    BY DEF Found
  <2>2. files[f][e] + work[w].adding[e] \in Nat
    BY <1>6
  <2>3. QED BY <1>6, <2>1, <2>2, ImportedFilm
<1>8. From(f, work[w].mine[f], row) /\ row \in Film /\ seen \in Editions \cup {None}
  BY <1>7, FromFilm DEF FilmFrom
<1> HIDE DEF row, seen
<1>9. /\ job \in Job /\ job.kind = "import" /\ job.todo = work[w].todo
      /\ job.loaded = work[w].loaded
      /\ job.mine = [work[w].mine EXCEPT ![f] = row]
      /\ job.sent = [work[w].sent EXCEPT ![f] = work[w].sent[f] \cup sent]
  <2>1. [work[w].mine EXCEPT ![f] = row] \in SessionRows
    BY <1>5, <1>8 DEF Job, SessionRows
  <2>2. [work[w].adding EXCEPT ![e] = work[w].adding[e] + new] \in [Editions -> 0..MaxFiles]
    <3>1. work[w].adding[e] + new \in 0..MaxFiles
      BY <1>2, <1>6
    <3>2. QED BY <1>5, <3>1 DEF Job
  <2>3. [work[w].sent EXCEPT ![f] = work[w].sent[f] \cup sent] \in [Rows -> SUBSET Columns]
    BY <1>5 DEF Job
  <2>4. QED BY <1>4, <1>5, <1>8, <2>1, <2>2, <2>3 DEF Job
<1>10. \A s \in Rows :
         /\ job.mine[s] = IF s = f THEN row ELSE work[w].mine[s]
         /\ s # f => job.sent[s] = work[w].sent[s]
  BY <1>5, <1>9 DEF Job, SessionRows
<1> HIDE DEF job
<1>11. JobOK(job)
  BY <1>4, <1>5, <1>6, <1>8, <1>9, <1>10 DEF JobOK, From
<1>12. \A v \in Writers \ {w} : work[v].kind = "import" => v \in raced /\ w \in raced
  BY <1>4 DEF MetaInv, SessionInv
<1>13. QED BY <1>3, <1>4, <1>9, <1>11, <1>12, WorkKeepsInv DEF MetaInv, TypeOK

(* What a commit writes of a row that nobody else changed is what the      *)
(* session has, which is coherent if the row was.                          *)
LEMMA CommitKeepsInv ==
  ASSUME MetaInv, NEW w \in Writers, Commit(w),
         files' \in [Films -> [Editions -> 0..MaxFiles]]
  PROVE  MetaInv'
<1> DEFINE job == work[w]
<1>1. JobOK(job) /\ job \in Job
  BY DEF MetaInv, SessionInv, JobOK
<1>2. ASSUME NEW r \in Changed(w)
      PROVE  /\ r \in Rows /\ table[r] \in TypeOf(r)
             /\ job.loaded[r] \in TypeOf(r) /\ From(r, job.loaded[r], job.mine[r])
  <2>1. r \in Rows /\ table[r] \in TypeOf(r)
    BY DEF Commit, Changed, Present, MetaInv, TypeOK
  <2>2. job.loaded[r] # None
    BY <1>1 DEF Changed, JobOK
  <2>3. QED BY <1>1, <2>1, <2>2 DEF JobOK
<1>3. ASSUME NEW r \in Changed(w)
      PROVE  /\ table'[r] \in TypeOf(r)
             /\ r \notin mixed' => /\ table[r] = job.loaded[r] /\ table'[r] = job.mine[r]
                                  /\ r \notin mixed
  <2>1. table'[r] = Write(table[r], job.loaded[r], job.mine[r], job.sent[r])
    BY <1>2 DEF Commit
  <2>2. r \notin mixed' => table[r] = job.loaded[r] /\ r \notin mixed
    BY DEF Commit
  <2>3. QED BY <1>2, <2>1, <2>2, FromWrite DEF From
<1>4. \A r \in Rows \ Changed(w) : table'[r] = table[r]
  BY DEF Commit
<1>5. \A r \in Rows : table'[r] \in TypeOf(r) \/ (r \in Media /\ table'[r] = Gone)
  BY <1>3, <1>4 DEF MetaInv, TypeOK
<1>6. Idle \in Job /\ JobOK(Idle)' /\ Idle.kind = "idle"
  BY DEF Idle, Job, JobOK, SessionRows, Kinds
<1>7. work'[w] = Idle /\ \A v \in Writers \ {w} : work'[v] = work[v]
  BY DEF Commit, MetaInv, TypeOK
<1>8. SessionInv'
  <2>1. ASSUME NEW v \in Writers \ {w} PROVE JobOK(work[v])'
    BY <1>7 DEF MetaInv, SessionInv, JobOK
  <2>2. \A v \in Writers : JobOK(work[v])'
    BY <1>6, <1>7, <2>1 DEF JobOK
  <2>3. QED BY <1>6, <1>7, <2>2 DEF Commit, MetaInv, SessionInv
<1>9. TypeOK'
  <2>1. table' \in [Rows -> Film \cup MediaFile \cup {Gone}]
    <3>1. \A r \in Rows : table'[r] \in Film \cup MediaFile \cup {Gone}
      BY <1>5, RowTypes
    <3>2. table' = [r \in Rows |-> table'[r]]
      BY DEF Commit
    <3>3. QED BY <3>1, <3>2
  <2>2. work' \in [Writers -> Job]
    BY <1>6 DEF Commit, MetaInv, TypeOK
  <2>3. \A v \in Writers, r \in Rows :
          work'[v].loaded[r] \in TypeOf(r) \cup {None} /\ work'[v].mine[r] \in TypeOf(r) \cup {None}
    BY <1>7 DEF MetaInv, TypeOK, Idle
  <2>4. mixed' \subseteq Rows
    BY DEF Commit, Changed, MetaInv, TypeOK
  <2>5. QED BY <1>5, <2>1, <2>2, <2>3, <2>4 DEF Commit, MetaInv, TypeOK
<1>10. CoherentUnlessMixed'
  <2>1. ASSUME NEW r \in Rows, table'[r] # Gone, r \notin mixed' PROVE Coherent(r, table'[r])
    <3>1. CASE r \in Changed(w)
      <4>1. table[r] = job.loaded[r] /\ table'[r] = job.mine[r] /\ r \notin mixed
        BY <1>3, <2>1, <3>1
      <4>2. table[r] # Gone
        BY <1>2, <3>1, RowTypes
      <4>3. Coherent(r, table[r])
        BY <4>1, <4>2 DEF MetaInv, CoherentUnlessMixed, Present
      <4>4. QED BY <1>2, <3>1, <4>1, <4>3 DEF From
    <3>2. CASE r \notin Changed(w)
      BY <1>4, <2>1, <3>2 DEF Commit, MetaInv, CoherentUnlessMixed, Present
    <3>3. QED BY <3>1, <3>2
  <2>2. QED BY <2>1 DEF CoherentUnlessMixed, Present
<1>11. QED BY <1>8, <1>9, <1>10 DEF MetaInv

-----------------------------------------------------------------------------
(* The actions.                                                            *)

LEMMA PresentRows ==
  ASSUME MetaInv
  PROVE  /\ Films \subseteq Present /\ \A f \in Films : table[f] \in Film
         /\ \A m \in Media \cap Present : table[m] \in MediaFile
<1>1. \A f \in Films : table[f] \in Film
  BY DEF MetaInv, TypeOK, TypeOf
<1>2. Films \subseteq Present
  BY <1>1 DEF Present
<1>3. \A m \in Media \cap Present : table[m] \in MediaFile
  BY DEF MetaInv, TypeOK, TypeOf, Present
<1>4. QED BY <1>1, <1>2, <1>3

(* A job starts with the rows unchanged.                                   *)
LEMMA StartKeepsInv ==
  ASSUME MetaInv, NEW w \in Writers, NEW kind \in {"fill", "refresh", "enrich", "alias"},
         NEW rows \in SUBSET Present,
         IF kind = "alias" THEN rows \subseteq Media ELSE rows \subseteq Films,
         Load(w, kind, rows, <<>>, rows)
  PROVE  MetaInv'
<1> DEFINE mine == <<>>
<1>1. DOMAIN mine = {}
  OBVIOUS
<1>2. Load(w, kind, rows, mine, rows)
  OBVIOUS
<1> HIDE DEF mine
<1>3. kind \in Kinds \ {"idle"} /\ kind # "import" /\ rows \in SUBSET rows
  BY DEF Kinds
<1>4. \A r \in rows :
        \/ kind = "alias" /\ r \in Media
        \/ kind \in {"fill", "refresh", "enrich"} /\ r \in Films
  OBVIOUS
<1>5. \A r \in DOMAIN mine : r \in rows /\ From(r, table[r], mine[r])
  BY <1>1
<1>6. QED BY <1>2, <1>3, <1>4, <1>5, LoadKeepsInv

LEMMA StartJobKeepsInv ==
  ASSUME MetaInv, NEW w \in Writers,
         StartFill(w) \/ StartRefresh(w) \/ StartEnrich(w) \/ StartAlias(w)
  PROVE  MetaInv'
<1>1. CASE StartFill(w)
  <2>1. PICK films \in SUBSET Films : Load(w, "fill", films, <<>>, films)
    BY <1>1 DEF StartFill
  <2>2. films \in SUBSET Present
    BY PresentRows
  <2>3. QED BY <2>1, <2>2, StartKeepsInv
<1>2. CASE StartRefresh(w)
  <2>1. PICK films \in SUBSET Films : Load(w, "refresh", films, <<>>, films)
    BY <1>2 DEF StartRefresh
  <2>2. films \in SUBSET Present
    BY PresentRows
  <2>3. QED BY <2>1, <2>2, StartKeepsInv
<1>3. CASE StartEnrich(w)
  <2>1. PICK films \in SUBSET Films : Load(w, "enrich", films, <<>>, films)
    BY <1>3 DEF StartEnrich
  <2>2. films \in SUBSET Present
    BY PresentRows
  <2>3. QED BY <2>1, <2>2, StartKeepsInv
<1>4. CASE StartAlias(w)
  <2>1. PICK media \in SUBSET Present :
          media \subseteq Media /\ Load(w, "alias", media, <<>>, media)
    BY <1>4 DEF StartAlias
  <2>2. media \subseteq Media
    BY <2>1
  <2>3. QED BY <2>1, <2>2, StartKeepsInv
<1>5. QED BY <1>1, <1>2, <1>3, <1>4

(* A request changes one row.                                              *)
LEMMA RequestKeepsInv ==
  ASSUME MetaInv, NEW w \in Writers, NEW r \in Present, NEW row, From(r, table[r], row),
         Request(w, r, row)
  PROVE  MetaInv'
<1> DEFINE mine == [x \in {r} |-> row]
<1>1. Load(w, "request", {r}, mine, {})
  BY DEF Request
<1>2. DOMAIN mine = {r} /\ mine[r] = row
  OBVIOUS
<1> HIDE DEF mine
<1>3. "request" \in Kinds \ {"idle"} /\ {r} \in SUBSET Present /\ {} \in SUBSET {r}
  BY DEF Kinds
<1>4. QED BY <1>1, <1>2, <1>3, LoadKeepsInv

LEMMA RequestsKeepInv ==
  ASSUME MetaInv, NEW w \in Writers, Edit(w) \/ ResolveConflict(w) \/ ResetAlias(w)
  PROVE  MetaInv'
<1>1. CASE Edit(w)
  <2>1. PICK f \in Films : \E poster \in {table[f].poster, "manual"} :
          Request(w, f, Edited(table[f], poster))
    BY <1>1 DEF Edit
  <2>2. PICK poster \in {table[f].poster, "manual"} : Request(w, f, Edited(table[f], poster))
    BY <2>1
  <2>3. f \in Present /\ From(f, table[f], Edited(table[f], poster))
    BY PresentRows, CardsAreFilms, FromFilm
  <2>4. QED BY <2>2, <2>3, RequestKeepsInv
<1>2. CASE ResolveConflict(w)
  <2>1. PICK f \in Films : Request(w, f, [table[f] EXCEPT !.review = FALSE])
    BY <1>2 DEF ResolveConflict
  <2>2. f \in Present /\ From(f, table[f], [table[f] EXCEPT !.review = FALSE])
    BY PresentRows, FlaggedFilm, FromFilm
  <2>3. QED BY <2>1, <2>2, RequestKeepsInv
<1>3. CASE ResetAlias(w)
  <2> DEFINE row == [alias |-> None, processed |-> FALSE]
  <2>1. PICK m \in Media \cap Present : Request(w, m, row)
    BY <1>3 DEF ResetAlias
  <2>2. MediaFrom(table[m], row)
    BY DEF MediaFrom, MediaFile, CoherentMedia
  <2>3. From(m, table[m], row)
    BY <2>2, FromMedia
  <2>4. QED BY <2>1, <2>3, RequestKeepsInv
<1>4. QED BY <1>1, <1>2, <1>3

LEMMA ReconcileKeepsInv ==
  ASSUME MetaInv, NEW w \in Writers, Reconcile(w)
  PROVE  MetaInv'
<1>1. PICK empty \in SUBSET Films :
        Load(w, "request", empty, [f \in empty |-> [table[f] EXCEPT !.review = TRUE]], {})
  BY DEF Reconcile
<1> DEFINE mine == [f \in empty |-> [table[f] EXCEPT !.review = TRUE]]
<1>2. DOMAIN mine = empty /\ \A f \in empty : From(f, table[f], mine[f])
  BY PresentRows, FlaggedFilm, FromFilm
<1>3. Load(w, "request", empty, mine, {})
  BY <1>1
<1> HIDE DEF mine
<1>4. "request" \in Kinds \ {"idle"} /\ empty \in SUBSET Present /\ {} \in SUBSET empty
  BY PresentRows DEF Kinds
<1>5. QED BY <1>2, <1>3, <1>4, LoadKeepsInv

LEMMA StartImportKeepsInv ==
  ASSUME MetaInv, NEW w \in Writers, StartImport(w)
  PROVE  MetaInv'
<1>1. PICK f \in Films : Load(w, "import", {f}, <<>>, {})
  BY DEF StartImport
<1>2. /\ "import" \in Kinds \ {"idle"} /\ {f} \in SUBSET Present /\ {} \in SUBSET {f}
      /\ DOMAIN <<>> = {} /\ \A r, s \in {f} : r = s
  BY PresentRows DEF Kinds
<1>3. QED BY <1>1, <1>2, LoadKeepsInv

(* The commits; that of an import adds the files it has.                   *)
LEMMA CommitsKeepInv ==
  ASSUME MetaInv, NEW w \in Writers, JobCommit(w) \/ RequestCommit(w) \/ ImportCommit(w)
  PROVE  MetaInv'
<1>1. CASE JobCommit(w) \/ RequestCommit(w)
  BY <1>1, CommitKeepsInv DEF JobCommit, RequestCommit, MetaInv, TypeOK
<1>2. CASE ImportCommit(w)
  <2>1. JobOK(work[w]) /\ work[w] \in Job /\ work[w].kind = "import"
    BY <1>2 DEF ImportCommit, MetaInv, SessionInv, JobOK
  <2>2. ASSUME NEW f \in Films, NEW e \in Editions
        PROVE  files[f][e] \in 0..MaxFiles /\ work[w].adding[e] \in 0..MaxFiles
    BY <2>1 DEF MetaInv, TypeOK, Job
  <2>3. \A f \in Films : files[f] \in [Editions -> 0..MaxFiles]
    BY DEF MetaInv, TypeOK
  <2>4. ASSUME NEW f \in Films PROVE files'[f] \in [Editions -> 0..MaxFiles]
    <3>1. CASE work[w].loaded[f] = None
      BY <1>2, <2>3, <3>1 DEF ImportCommit
    <3>2. CASE work[w].loaded[f] # None
      <4>1. files'[f] = [e \in Editions |-> files[f][e] + work[w].adding[e]]
        BY <1>2, <3>2 DEF ImportCommit
      <4>2. \A e \in Editions : files[f][e] + work[w].adding[e] \in 0..MaxFiles
        BY <1>2, <2>2, <4>1 DEF ImportCommit
      <4>3. QED BY <4>1, <4>2
    <3>3. QED BY <3>1, <3>2
  <2>5. files' \in [Films -> [Editions -> 0..MaxFiles]]
    BY <1>2, <2>4 DEF ImportCommit
  <2>6. QED BY <1>2, <2>5, CommitKeepsInv DEF ImportCommit
<1>3. QED BY <1>1, <1>2

LEMMA DeleteFileKeepsInv ==
  ASSUME MetaInv, DeleteFile
  PROVE  MetaInv'
<1>1. UNCHANGED <<keys, work, started, mixed, raced>>
  BY DEF DeleteFile
<1>2. CASE /\ UNCHANGED table
           /\ \E f \in Films, e \in Editions :
                files[f][e] > 0 /\ files' = [files EXCEPT ![f][e] = @ - 1]
  <2>1. PICK f \in Films, e \in Editions :
          files[f][e] > 0 /\ files' = [files EXCEPT ![f][e] = @ - 1]
    BY <1>2
  <2>2. /\ files' \in [Films -> [Editions -> 0..MaxFiles]]
        /\ \A g \in Films, d \in Editions : files'[g][d] <= files[g][d]
    BY <2>1 DEF MetaInv, TypeOK
  <2>3. ASSUME NEW w \in Writers PROVE JobOK(work[w])'
    BY <1>1 DEF MetaInv, SessionInv, JobOK
  <2>4. QED BY <1>1, <1>2, <2>2, <2>3
           DEF MetaInv, TypeOK, SessionInv, CoherentUnlessMixed, Present
<1>3. CASE /\ UNCHANGED files
           /\ \E m \in Media \cap Present : table' = [table EXCEPT ![m] = Gone]
  <2>1. PICK m \in Media \cap Present : table' = [table EXCEPT ![m] = Gone]
    BY <1>3
  <2>2. \A r \in Rows : table'[r] = IF r = m THEN Gone ELSE table[r]
    BY <2>1 DEF MetaInv, TypeOK
  <2>3. TypeOK'
    BY <1>1, <1>3, <2>1, <2>2 DEF MetaInv, TypeOK
  <2>4. SessionInv'
    BY <1>1, <1>3 DEF MetaInv, SessionInv, JobOK
  <2>5. CoherentUnlessMixed'
    BY <1>1, <2>2 DEF MetaInv, CoherentUnlessMixed, Present
  <2>6. QED BY <2>3, <2>4, <2>5 DEF MetaInv
<1>4. QED BY <1>2, <1>3 DEF DeleteFile

(* Every step keeps the invariant.                                         *)
LEMMA MetaStep == MetaInv /\ [Next]_vars => MetaInv'
<1> SUFFICES ASSUME MetaInv, [Next]_vars PROVE MetaInv'
  OBVIOUS
<1>1. ASSUME NEW w \in Writers,
             StartFill(w) \/ StartRefresh(w) \/ StartEnrich(w) \/ StartAlias(w)
      PROVE  MetaInv'
  BY <1>1, StartJobKeepsInv
<1>2. ASSUME NEW w \in Writers, JobStep(w) PROVE MetaInv'
  BY <1>2, JobStepKeepsInv
<1>3. ASSUME NEW w \in Writers, JobCommit(w) \/ RequestCommit(w) \/ ImportCommit(w)
      PROVE  MetaInv'
  BY <1>3, CommitsKeepInv
<1>4. ASSUME NEW w \in Writers, Edit(w) \/ ResolveConflict(w) \/ ResetAlias(w) PROVE MetaInv'
  BY <1>4, RequestsKeepInv
<1>5. ASSUME NEW w \in Writers, Reconcile(w) PROVE MetaInv'
  BY <1>5, ReconcileKeepsInv
<1>6. ASSUME NEW w \in Writers, StartImport(w) PROVE MetaInv'
  BY <1>6, StartImportKeepsInv
<1>7. ASSUME NEW w \in Writers, ImportFile(w) PROVE MetaInv'
  BY <1>7, ImportFileKeepsInv
<1>8. ASSUME NEW w \in Writers, RollBack(w) PROVE MetaInv'
  BY <1>8, RollBackKeepsInv
<1>9. CASE DeleteFile
  BY <1>9, DeleteFileKeepsInv
<1>10. CASE UNCHANGED vars
  BY <1>10 DEF vars, MetaInv, TypeOK, SessionInv, JobOK, CoherentUnlessMixed, Present
<1>11. QED BY <1>1, <1>2, <1>3, <1>4, <1>5, <1>6, <1>7, <1>8, <1>9, <1>10 DEF Next

LEMMA MetaInvariant == Spec => []MetaInv
  BY MetaInit, MetaStep, PTL DEF Spec

-----------------------------------------------------------------------------

(* The rows, and what the sessions hold of them, are what the columns of   *)
(* film_metadata and media_files can hold, however many writers there are. *)
THEOREM MetadataTypes == Spec => []TypeOK
<1>1. MetaInv => TypeOK
  BY DEF MetaInv
<1>2. QED BY <1>1, MetaInvariant, PTL

(* The columns of a card or of an alias agree unless two writers had the   *)
(* row at once: no job and no request of api/admin.py, and no import, by   *)
(* itself leaves a row whose confidence, poster source or processed mark   *)
(* does not belong to the rest of it.                                      *)
THEOREM RowsCoherent == Spec => []CoherentUnlessMixed
<1>1. MetaInv => CoherentUnlessMixed
  BY DEF MetaInv
<1>2. QED BY <1>1, MetaInvariant, PTL

-----------------------------------------------------------------------------
(* Commits.                                                                *)

(* A writer is idle again only by the end of its own session.              *)
LEMMA SessionsEnd ==
  ASSUME MetaInv, [Next]_vars, NEW w \in Writers, Commits(w)
  PROVE  JobCommit(w) \/ RequestCommit(w) \/ ImportCommit(w) \/ RollBack(w)
<1> SUFFICES ASSUME ~(JobCommit(w) \/ RequestCommit(w) \/ ImportCommit(w) \/ RollBack(w))
             PROVE  FALSE
  OBVIOUS
<1>1. work[w].kind # "idle" /\ work'[w].kind = "idle" /\ work'[w] # work[w]
  BY DEF Commits
<1>2. ASSUME NEW v \in Writers, NEW job, work' = [work EXCEPT ![v] = job]
      PROVE  v = w /\ job.kind = "idle"
  BY <1>1, <1>2 DEF MetaInv, TypeOK
<1>3. ~ UNCHANGED vars /\ ~ DeleteFile
  BY <1>1 DEF vars, DeleteFile
<1>4. ASSUME NEW v \in Writers, NEW kind, NEW loading, NEW mine, NEW todo,
             Load(v, kind, loading, mine, todo)
      PROVE  FALSE
  <2>1. v = w
    BY <1>2, <1>4 DEF Load
  <2>2. QED BY <1>1, <1>4, <2>1 DEF Load
<1>5. ASSUME NEW v \in Writers, JobStep(v) PROVE FALSE
  <2>1. PICK r, mine :
          work' = [work EXCEPT ![v] = [work[v] EXCEPT !.todo = work[v].todo \ {r}, !.mine = mine]]
    BY <1>5 DEF JobStep
  <2>2. work[v] \in Job
    BY DEF MetaInv, TypeOK
  <2>3. QED BY <1>1, <1>2, <2>1, <2>2 DEF Job
<1>6. ASSUME NEW v \in Writers, ImportFile(v) PROVE FALSE
  <2>1. PICK job : job.kind = "import" /\ work' = [work EXCEPT ![v] = job]
    BY <1>6, ImportGoesOn
  <2>2. QED BY <1>1, <1>2, <2>1
<1>7. ASSUME NEW v \in Writers, JobCommit(v) \/ RequestCommit(v) \/ ImportCommit(v) \/ RollBack(v)
      PROVE  FALSE
  BY <1>2, <1>7 DEF JobCommit, RequestCommit, ImportCommit, Commit, RollBack
<1>8. PICK v \in Writers :
        \/ StartFill(v) \/ StartRefresh(v) \/ StartEnrich(v) \/ StartAlias(v)
        \/ Edit(v) \/ ResolveConflict(v) \/ ResetAlias(v) \/ Reconcile(v) \/ StartImport(v)
  BY <1>3, <1>5, <1>6, <1>7 DEF Next
<1>9. \E kind, loading, mine, todo : Load(v, kind, loading, mine, todo)
  BY <1>8 DEF StartFill, StartRefresh, StartEnrich, StartAlias, Edit, ResolveConflict, ResetAlias,
              Reconcile, StartImport, Request
<1>10. QED BY <1>4, <1>9

(* A column of a card is written when the session changed it.              *)
LEMMA CommitWrites ==
  ASSUME MetaInv, [Next]_vars, NEW w \in Writers, Commits(w), NEW f \in Films, table'[f] # table[f]
  PROVE  LET loaded == work[w].loaded[f]
             mine == work[w].mine[f]
             sent == work[w].sent[f]
         IN  /\ table[f] \in Film /\ loaded \in Film /\ mine \in Film
             /\ sent # {} => work[w].kind = "import"
             /\ table'[f] = Write(table[f], loaded, mine, sent)
<1>1. Commit(w) /\ f \in Changed(w)
  BY SessionsEnd DEF JobCommit, RequestCommit, ImportCommit, RollBack, Commit, MetaInv, TypeOK
<1>2. table[f] \in Film
  BY PresentRows
<1>3. JobOK(work[w])
  BY DEF MetaInv, SessionInv
<1>4. work[w].loaded[f] # None
  BY <1>1, <1>3 DEF Changed, JobOK
<1>5. work[w].loaded[f] \in Film /\ work[w].mine[f] \in Film
  BY <1>3, <1>4 DEF JobOK, From, TypeOf
<1>6. QED BY <1>1, <1>2, <1>3, <1>5 DEF Commit, JobOK

(* No job and no request clears a flag that it has not seen, since its one *)
(* flush writes review only over the TRUE it loaded; and an import does so *)
(* only after it has sent a flag of its own.                               *)
THEOREM FlagsSurvive == Spec => FlagRaisedMeanwhileSurvives
<1>1. ASSUME MetaInv, [Next]_vars, NEW f \in Films, NEW w \in Writers, Commits(w),
             table[f].review, ~table'[f].review
      PROVE  \/ work[w].loaded[f].review
             \/ work[w].kind = "import" /\ "review" \in work[w].sent[f]
  <2>1. /\ table'[f] = Write(table[f], work[w].loaded[f], work[w].mine[f], work[w].sent[f])
        /\ table[f] \in Film /\ work[w].loaded[f] \in Film /\ work[w].mine[f] \in Film
        /\ work[w].sent[f] # {} => work[w].kind = "import"
    BY <1>1, CommitWrites
  <2>2. table'[f].review = IF \/ "review" \in work[w].sent[f]
                              \/ work[w].mine[f].review # work[w].loaded[f].review
                           THEN work[w].mine[f].review ELSE table[f].review
    BY <2>1, WriteColumns
  <2>3. QED BY <1>1, <2>1, <2>2 DEF Film
<1>2. MetaInv /\ [Next]_vars =>
        [\A f \in Films : \A w \in Writers :
           /\ Commits(w)
           /\ table[f].review /\ ~table'[f].review
           => \/ work[w].loaded[f].review
              \/ work[w].kind = "import" /\ "review" \in work[w].sent[f]]_vars
  BY <1>1
<1>3. QED BY <1>2, MetaInvariant, PTL DEF Spec, FlagRaisedMeanwhileSurvives

-----------------------------------------------------------------------------
(* Conflicts.                                                              *)

(* An import that came only to files of one edition has flagged the card   *)
(* by the last of them, if the edition is to have several.                 *)
ConflictSeen(job) ==
    job.kind = "import" =>
       \A f \in Films, e \in Editions :
          job.loaded[f] # None /\ job.looked = {e} /\ files[f][e] + job.adding[e] > 1 =>
             job.mine[f].review
ConflictInv == MetaInv /\ \A w \in Writers \ raced : ConflictSeen(work[w])

LEMMA ImportSeesConflict ==
  ASSUME ConflictInv, NEW w \in Writers \ raced, ImportFile(w)
  PROVE  ConflictSeen(work[w])'
<1> SUFFICES ASSUME NEW g \in Films, NEW d \in Editions, work'[w].loaded[g] # None,
                    work'[w].looked = {d}, files'[g][d] + work'[w].adding[d] > 1
             PROVE  work'[w].mine[g].review
  BY DEF ConflictSeen
<1>1. PICK f \in Films, e \in Editions, answer \in Answers, new \in {0, 1},
           sent \in SUBSET Columns, poster \in Posters \cup {None} :
        ImportsFile(w, f, e, answer, new, sent, poster)
  BY FileImported DEF ConflictInv
<1> DEFINE others == files[f][e] + work[w].adding[e]
           Row == Imported(work[w].mine[f], poster, answer, others)
<1>2. /\ work[w].mine[f] # None
      /\ work' = [work EXCEPT ![w] =
           [work[w] EXCEPT
              !.mine = [work[w].mine EXCEPT ![f] = Row],
              !.sent = [work[w].sent EXCEPT ![f] = work[w].sent[f] \cup sent],
              !.adding = [work[w].adding EXCEPT ![e] = work[w].adding[e] + new],
              !.looked = work[w].looked \cup {IF answer = "error" THEN None ELSE e}]]
  BY <1>1 DEF ImportsFile
<1>3. /\ JobOK(work[w]) /\ work[w] \in Job /\ work[w].kind = "import" /\ files' = files
      /\ work \in [Writers -> Job]
  BY DEF ConflictInv, MetaInv, TypeOK, SessionInv, JobOK, ImportFile
<1> HIDE DEF Row
<1>4. /\ work'[w].loaded = work[w].loaded
      /\ work'[w].mine = [work[w].mine EXCEPT ![f] = Row]
      /\ work'[w].adding = [work[w].adding EXCEPT ![e] = work[w].adding[e] + new]
      /\ work'[w].looked = work[w].looked \cup {IF answer = "error" THEN None ELSE e}
  BY <1>2, <1>3 DEF Job
<1>5. g = f /\ d = e /\ answer # "error"
  <2>1. work[w].loaded[f] # None
    BY <1>2, <1>3 DEF JobOK
  <2>2. g = f
    BY <1>3, <1>4, <2>1 DEF JobOK
  <2>3. (IF answer = "error" THEN None ELSE e) = d
    BY <1>4
  <2>4. QED BY <2>2, <2>3
<1>6. files[f][e] \in Nat /\ work[w].adding[e] \in Nat
  BY <1>3 DEF ConflictInv, MetaInv, TypeOK, Job
<1>7. others > 0
  BY <1>3, <1>4, <1>5, <1>6 DEF Job
<1>8. Row.review
  <2>1. poster \in Posters \cup {None} /\ others \in Nat /\ work[w].mine[f] \in Film
    <3>1. work[w].mine[f] \in TypeOf(f)
      BY <1>3, <1>4, <1>5 DEF JobOK, From
    <3>2. QED BY <1>6, <3>1 DEF Found, TypeOf
  <2> DEFINE graded == Graded(work[w].mine[f], poster)
             enriched == IF answer = "metadata" THEN Enriched(graded) ELSE graded
  <2>2. enriched \in Film
    BY <2>1, GradedFilm, CardsAreFilms DEF FilmFrom
  <2>3. Row = [enriched EXCEPT !.review = TRUE]
    BY <1>5, <1>7 DEF Row, Imported
  <2> HIDE DEF enriched
  <2>4. QED BY <2>2, <2>3 DEF Film
<1>9. QED BY <1>3, <1>4, <1>5, <1>8 DEF Job, SessionRows

(* The files of a film whose import is under way only get fewer meanwhile. *)
LEMMA OthersKeepConflict ==
  ASSUME ConflictInv, [Next]_vars, NEW w \in Writers \ raced, work'[w] = work[w],
         work[w].kind = "import"
  PROVE  \A f \in Films, e \in Editions : files'[f][e] <= files[f][e]
<1>1. \A f \in Films, e \in Editions : files[f][e] \in Nat
  BY DEF ConflictInv, MetaInv, TypeOK
<1>2. CASE DeleteFile
  BY <1>1, <1>2 DEF DeleteFile, ConflictInv, MetaInv, TypeOK
<1>3. ASSUME NEW v \in Writers, ImportCommit(v) PROVE FALSE
  <2>1. v = w
    BY <1>3 DEF ImportCommit, ConflictInv, MetaInv, SessionInv
  <2>2. work'[v].kind = "idle"
    BY <1>3 DEF ImportCommit, Commit, Idle, ConflictInv, MetaInv, TypeOK
  <2>3. QED BY <2>1, <2>2
<1>4. CASE ~DeleteFile
  <2>1. files' = files
    BY <1>3, <1>4 DEF Next, vars, StartFill, StartRefresh, StartEnrich, StartAlias, Load, JobStep, JobCommit,
       Edit, ResolveConflict, ResetAlias, Reconcile, Request, RequestCommit, StartImport, ImportFile, RollBack
  <2>2. QED BY <1>1, <2>1
<1>5. QED BY <1>2, <1>4

LEMMA ConflictStep == ConflictInv /\ [Next]_vars => ConflictInv'
<1> SUFFICES ASSUME ConflictInv, [Next]_vars, NEW w \in Writers, w \notin raced'
             PROVE  ConflictSeen(work[w])'
  BY MetaStep DEF ConflictInv
<1>1. /\ work[w] \in Job /\ JobOK(work[w])
      /\ work'[w] \in Job /\ work \in [Writers -> Job] /\ files' \in [Films -> [Editions -> 0..MaxFiles]]
      /\ files \in [Films -> [Editions -> 0..MaxFiles]]
  BY MetaStep DEF ConflictInv, MetaInv, TypeOK, SessionInv, JobOK
<1>12. w \notin raced \/ JobCommit(w) \/ RequestCommit(w) \/ ImportCommit(w) \/ RollBack(w)
  <2> SUFFICES ASSUME w \in raced,
                      ~(JobCommit(w) \/ RequestCommit(w) \/ ImportCommit(w) \/ RollBack(w))
               PROVE  FALSE
    OBVIOUS
  <2>1. ASSUME NEW v \in Writers, NEW kind, NEW loading, NEW mine, NEW todo,
               Load(v, kind, loading, mine, todo)
        PROVE  FALSE
    BY <2>1 DEF Load
  <2>2. ASSUME NEW v \in Writers, JobCommit(v) \/ RequestCommit(v) \/ ImportCommit(v) \/ RollBack(v)
        PROVE  FALSE
    <3>1. raced' = raced \ {v}
      BY <2>2 DEF JobCommit, RequestCommit, ImportCommit, Commit, RollBack
    <3>2. v = w
      BY <3>1
    <3>3. QED BY <2>2, <3>2
  <2>3. ~ UNCHANGED vars /\ ~ DeleteFile
    BY DEF vars, DeleteFile
  <2>4. ASSUME NEW v \in Writers, JobStep(v) \/ ImportFile(v) PROVE FALSE
    BY <2>4 DEF JobStep, ImportFile
  <2>5. PICK v \in Writers :
          \/ StartFill(v) \/ StartRefresh(v) \/ StartEnrich(v) \/ StartAlias(v)
          \/ Edit(v) \/ ResolveConflict(v) \/ ResetAlias(v) \/ Reconcile(v) \/ StartImport(v)
    BY <2>2, <2>3, <2>4 DEF Next
  <2>6. \E kind, loading, mine, todo : Load(v, kind, loading, mine, todo)
    BY <2>5 DEF StartFill, StartRefresh, StartEnrich, StartAlias, Edit, ResolveConflict, ResetAlias,
                Reconcile, StartImport, Request
  <2>7. QED BY <2>1, <2>6
<1>2. CASE work'[w] = work[w] /\ w \notin raced
  <2>1. CASE work[w].kind = "import"
    <3>1. \A f \in Films, e \in Editions : files'[f][e] <= files[f][e]
      BY <1>2, <2>1, OthersKeepConflict
    <3>2. \A f \in Films, e \in Editions :
            files'[f][e] + work[w].adding[e] > 1 => files[f][e] + work[w].adding[e] > 1
      BY <1>1, <3>1 DEF Job
    <3>3. QED BY <1>2, <3>2 DEF ConflictInv, ConflictSeen
  <2>2. CASE work[w].kind # "import"
    BY <1>2, <2>2 DEF ConflictSeen
  <2>3. QED BY <2>1, <2>2
<1>3. CASE ImportFile(w) /\ w \notin raced
  BY <1>3, ImportSeesConflict
<1>4. CASE JobCommit(w) \/ RequestCommit(w) \/ ImportCommit(w) \/ RollBack(w)
  BY <1>1, <1>4 DEF JobCommit, RequestCommit, ImportCommit, Commit, RollBack, Idle, ConflictSeen
<1>5. CASE JobStep(w)
  <2>1. PICK r, mine :
          work' = [work EXCEPT ![w] = [work[w] EXCEPT !.todo = work[w].todo \ {r}, !.mine = mine]]
    BY <1>5 DEF JobStep
  <2>2. work'[w].kind = work[w].kind
    BY <1>1, <2>1 DEF Job
  <2>3. work[w].kind # "import"
    BY <1>1, <1>5 DEF JobStep, JobOK
  <2>4. QED BY <2>2, <2>3 DEF ConflictSeen
<1>6. ASSUME NEW kind, NEW loading, NEW mine, NEW todo, Load(w, kind, loading, mine, todo)
      PROVE  ConflictSeen(work[w])'
  <2>1. work[w].looked = {}
    BY <1>1, <1>6 DEF Load, JobOK
  <2>2. work'[w].looked = {}
    BY <1>1, <1>6, <2>1 DEF Load, Job
  <2>3. QED BY <2>2 DEF ConflictSeen
<1>7. ASSUME NEW v \in Writers \ {w}, NEW job, work' = [work EXCEPT ![v] = job]
      PROVE  work'[w] = work[w]
  BY <1>1, <1>7
<1>8. ASSUME NEW v \in Writers \ {w}, Next,
             \/ StartFill(v) \/ StartRefresh(v) \/ StartEnrich(v) \/ StartAlias(v)
             \/ JobStep(v) \/ JobCommit(v)
             \/ Edit(v) \/ ResolveConflict(v) \/ ResetAlias(v) \/ Reconcile(v)
             \/ RequestCommit(v)
             \/ StartImport(v) \/ ImportFile(v) \/ ImportCommit(v)
             \/ RollBack(v)
      PROVE  work'[w] = work[w]
  <2>1. \E job : work' = [work EXCEPT ![v] = job]
    <3>1. CASE ImportFile(v)
      BY <3>1, ImportGoesOn DEF ConflictInv
    <3>2. CASE ~ImportFile(v)
      BY <1>8, <3>2 DEF StartFill, StartRefresh, StartEnrich, StartAlias, Load, JobStep, JobCommit,
         Edit, ResolveConflict, ResetAlias, Reconcile, Request, RequestCommit, StartImport,
         ImportCommit, Commit, RollBack
    <3>3. QED BY <3>1, <3>2
  <2>2. QED BY <1>7, <2>1
<1>9. CASE DeleteFile \/ UNCHANGED vars
  <2>1. work' = work /\ raced' = raced
    BY <1>9 DEF DeleteFile, vars
  <2>2. QED BY <1>2, <2>1
<1>10. CASE \/ StartFill(w) \/ StartRefresh(w) \/ StartEnrich(w) \/ StartAlias(w)
            \/ Edit(w) \/ ResolveConflict(w) \/ ResetAlias(w) \/ Reconcile(w) \/ StartImport(w)
  <2>1. \E kind, loading, mine, todo : Load(w, kind, loading, mine, todo)
    BY <1>10 DEF StartFill, StartRefresh, StartEnrich, StartAlias, Edit, ResolveConflict, ResetAlias,
       Reconcile, StartImport, Request
  <2>2. QED BY <1>6, <2>1
<1>11. QED BY <1>2, <1>3, <1>4, <1>5, <1>8, <1>9, <1>10, <1>12 DEF Next

LEMMA ConflictInvariant == Spec => []ConflictInv
<1>1. Init => ConflictInv
  <2>1. ASSUME Init, NEW w \in Writers PROVE work[w].kind = "idle"
    BY <2>1 DEF Init, Idle
  <2>2. QED BY MetaInit, <2>1 DEF ConflictInv, ConflictSeen
<1>2. QED BY <1>1, ConflictStep, PTL DEF Spec

(* A conflict that an import has made is flagged when the import commits,  *)
(* whatever was deleted meanwhile, unless someone else has written the     *)
(* card since the import loaded it or another import was under way:        *)
(* _bridge_to_catalog counts the files of the edition after it has written *)
(* the card, so the flag is not overwritten.                               *)
THEOREM ConflictsFlagged == Spec => NewConflictIsFlagged
<1>1. ASSUME ConflictInv, [Next]_vars, NEW f \in Films, NEW e \in Editions, NEW w \in Writers,
             Commits(w), work[w].looked = {e}, w \notin raced,
             files'[f][e] > files[f][e], files'[f][e] > 1,
             table[f] = work[w].loaded[f]
      PROVE  table'[f].review
  <2>1. MetaInv /\ JobOK(work[w])
    BY <1>1 DEF ConflictInv, MetaInv, SessionInv
  <2>2. ImportCommit(w)
    <3>1. \A g \in Films, d \in Editions : files[g][d] \in Nat
      BY <2>1 DEF MetaInv, TypeOK
    <3>2. files' # files
      BY <1>1, <3>1
    <3>3. QED BY <1>1, <2>1, <3>2, SessionsEnd DEF JobCommit, RequestCommit, RollBack
  <2>3. files[f] \in [Editions -> 0..MaxFiles]
    BY <2>1 DEF MetaInv, TypeOK
  <2>4. work[w].loaded[f] # None /\ files'[f][e] = files[f][e] + work[w].adding[e]
    BY <1>1, <2>2, <2>3 DEF ImportCommit
  <2>5. work[w].mine[f].review
    BY <1>1, <2>2, <2>4 DEF ConflictInv, ConflictSeen, ImportCommit
  <2>6. table'[f] = work[w].mine[f]
    <3>1. CASE f \in Changed(w)
      <4>1. table[f] \in TypeOf(f) /\ work[w].mine[f] \in TypeOf(f)
        BY <1>1, <2>1, <2>4 DEF JobOK, From
      <4>2. table'[f] = Write(table[f], work[w].loaded[f], work[w].mine[f], work[w].sent[f])
        BY <2>2, <3>1 DEF ImportCommit, Commit
      <4>3. QED BY <1>1, <4>1, <4>2, FromWrite
    <3>2. CASE f \notin Changed(w)
      BY <1>1, <2>2, <3>2 DEF ImportCommit, Commit, Changed
    <3>3. QED BY <3>1, <3>2
  <2>7. QED BY <2>5, <2>6
<1>2. ConflictInv /\ [Next]_vars =>
        [\A f \in Films, e \in Editions : \A w \in Writers :
           /\ Commits(w) /\ work[w].looked = {e} /\ w \notin raced
           /\ files'[f][e] > files[f][e] /\ files'[f][e] > 1
           => table'[f].review \/ table[f] # work[w].loaded[f]]_vars
  BY <1>1
<1>3. QED BY <1>2, ConflictInvariant, PTL DEF Spec, NewConflictIsFlagged

-----------------------------------------------------------------------------
(* Posters.                                                                *)

(* A poster and its source come together and stay; and but for the job     *)
(* that replaces all of them, a session that loaded a poster gives it no   *)
(* other source than "manual".  (A card that is mixed may have a poster of *)
(* one source under the name of another, so CoherentFilm is no help here.) *)
(* Poster columns that were sent are those of a poster found for a card    *)
(* without one.                                                            *)
Postered(film) == film.poster # None
Paired(film) == Postered(film) <=> film.posterSource # None
KeepsPoster(old, new) ==
    Postered(old) => Postered(new) /\ new.posterSource \in {old.posterSource, "manual"}
PosterFound(old, new) ==
    \/ new.poster = old.poster /\ new.posterSource = old.posterSource
    \/ ~Postered(old) /\ Postered(new)
PosterKept(job) ==
    \A f \in Films : job.loaded[f] # None =>
      /\ Paired(job.loaded[f]) /\ Paired(job.mine[f])
      /\ Postered(job.loaded[f]) => Postered(job.mine[f]) /\ Postered(table[f])
      /\ job.kind # "refresh" => KeepsPoster(job.loaded[f], job.mine[f])
      /\ job.kind = "fill" /\ f \in job.todo => ~Postered(job.loaded[f])
      /\ job.kind = "import" => PosterFound(job.loaded[f], job.mine[f])
      /\ {"poster", "posterSource"} \cap job.sent[f] # {} =>
           ~Postered(job.loaded[f]) /\ Postered(job.mine[f])
PosterInv ==
    /\ MetaInv
    /\ \A f \in Films : Paired(table[f])
    /\ \A w \in Writers : PosterKept(work[w])

LEMMA PosterWork ==
  ASSUME PosterInv, MetaInv', NEW w \in Writers, NEW job, PosterKept(job),
         work' = [work EXCEPT ![w] = job], UNCHANGED table
  PROVE  PosterInv'
<1>1. \A v \in Writers : work'[v] = IF v = w THEN job ELSE work[v]
  BY DEF PosterInv, MetaInv, TypeOK
<1>2. QED BY <1>1 DEF PosterInv, PosterKept

LEMMA PosterLoad ==
  ASSUME PosterInv, MetaInv', NEW w \in Writers, NEW kind, NEW loading \in SUBSET Present,
         NEW mine, NEW todo,
         \A f \in Films : f \in DOMAIN mine =>
            f \in loading /\ Paired(mine[f]) /\ KeepsPoster(table[f], mine[f]),
         kind = "fill" => \A f \in Films : f \in todo => ~Postered(table[f]),
         kind = "import" => \A f \in Films : f \notin DOMAIN mine,
         Load(w, kind, loading, mine, todo)
  PROVE  PosterInv'
<1> DEFINE rows == [r \in Rows |-> IF r \in loading THEN table[r] ELSE None]
           changed == [r \in Rows |-> IF r \in DOMAIN mine THEN mine[r] ELSE rows[r]]
           job == [work[w] EXCEPT !.kind = kind, !.todo = todo, !.loaded = rows, !.mine = changed]
<1>1. work' = [work EXCEPT ![w] = job] /\ UNCHANGED table
  BY DEF Load
<1>2. \A f \in Films : rows[f] # None =>
        /\ rows[f] = table[f] /\ Paired(table[f])
        /\ Paired(changed[f]) /\ KeepsPoster(table[f], changed[f])
        /\ kind = "import" => changed[f] = table[f]
  BY DEF PosterInv, KeepsPoster
<1>3. work[w] \in Job /\ \A f \in Films : work[w].sent[f] = {}
  BY DEF PosterInv, MetaInv, TypeOK, SessionInv, JobOK, Load
<1> HIDE DEF rows, changed
<1>4. /\ job.kind = kind /\ job.todo = todo /\ job.loaded = rows /\ job.mine = changed
      /\ job.sent = work[w].sent
  BY <1>3 DEF Job
<1> HIDE DEF job
<1>5. PosterKept(job)
  BY <1>2, <1>3, <1>4 DEF PosterKept, KeepsPoster, PosterFound
<1>6. QED BY <1>1, <1>5, PosterWork

(* What is done to a card keeps its poster, but for WithPoster.            *)
LEMMA KeepersOfPosters ==
  ASSUME NEW film \in Film, Paired(film)
  PROVE  /\ Paired(Enriched(film)) /\ KeepsPoster(film, Enriched(film))
         /\ \A b \in BOOLEAN : LET flagged == [film EXCEPT !.review = b]
                               IN  Paired(flagged) /\ KeepsPoster(film, flagged)
         /\ \A p \in {film.poster, "manual"} :
               Paired(Edited(film, p)) /\ KeepsPoster(film, Edited(film, p))
         /\ \A p \in Posters : Paired(WithPoster(film, p)) /\ Postered(WithPoster(film, p))
  BY DEF Film, Paired, Postered, KeepsPoster, Enriched, Edited, WithPoster

LEMMA ImportedKeepsPoster ==
  ASSUME NEW film \in Film, Paired(film), NEW poster \in Found(film), NEW answer, NEW others
  PROVE  LET new == Imported(film, poster, answer, others)
         IN  /\ Paired(new) /\ KeepsPoster(film, new) /\ PosterFound(film, new)
             /\ Graded(film, poster).poster = new.poster
             /\ Graded(film, poster).posterSource = new.posterSource
<1> DEFINE graded == Graded(film, poster)
           new == Imported(film, poster, answer, others)
<1>1. poster \in Posters \cup {None} /\ (Postered(film) => poster = None)
  BY DEF Found, Postered
<1>2. graded \in Film
  BY <1>1, GradedFilm DEF FilmFrom
<1>3. /\ poster = None => graded.poster = film.poster /\ graded.posterSource = film.posterSource
      /\ poster # None => graded.poster = poster /\ graded.posterSource = "omdb"
  BY DEF Graded, WithPoster, Film
<1> HIDE DEF graded
<1>4. new.poster = graded.poster /\ new.posterSource = graded.posterSource
  BY <1>2 DEF Imported, graded, Enriched, Film
<1>5. QED BY <1>1, <1>3, <1>4 DEF Paired, Postered, KeepsPoster, PosterFound, graded

(* The actions that load.                                                  *)
LEMMA PosterStarts ==
  ASSUME PosterInv, MetaInv', NEW w \in Writers,
         \/ StartFill(w) \/ StartRefresh(w) \/ StartEnrich(w) \/ StartAlias(w)
         \/ Edit(w) \/ ResolveConflict(w) \/ ResetAlias(w) \/ Reconcile(w) \/ StartImport(w)
  PROVE  PosterInv'
<1>1. /\ Films \subseteq Present /\ \A f \in Films : table[f] \in Film /\ Paired(table[f])
      /\ DOMAIN <<>> = {}
  BY PresentRows DEF PosterInv
<1>2. ASSUME NEW kind \in {"refresh", "enrich", "alias", "import"}, NEW loading \in SUBSET Present,
             NEW todo, Load(w, kind, loading, <<>>, todo)
      PROVE  PosterInv'
  <2> DEFINE mine == <<>>
  <2>1. Load(w, kind, loading, mine, todo) /\ DOMAIN mine = {}
    BY <1>2
  <2> HIDE DEF mine
  <2>2. \A f \in Films : f \in DOMAIN mine =>
           f \in loading /\ Paired(mine[f]) /\ KeepsPoster(table[f], mine[f])
    BY <2>1
  <2>3. QED BY <2>1, <2>2, PosterLoad
<1>3. ASSUME NEW f \in Films, NEW row, Paired(row), KeepsPoster(table[f], row), Request(w, f, row)
      PROVE  PosterInv'
  <2> DEFINE mine == [x \in {f} |-> row]
  <2>1. Load(w, "request", {f}, mine, {}) /\ {f} \in SUBSET Present
    BY <1>1, <1>3 DEF Request
  <2>2. \A g \in Films : g \in DOMAIN mine =>
           g \in {f} /\ Paired(mine[g]) /\ KeepsPoster(table[g], mine[g])
    BY <1>3
  <2> HIDE DEF mine
  <2>3. QED BY <2>1, <2>2, PosterLoad
<1>4. CASE StartFill(w)
  <2> DEFINE mine == <<>>
  <2>1. PICK films \in SUBSET Present :
          Load(w, "fill", films, mine, films) /\ \A f \in films : ~Postered(table[f])
    BY <1>1, <1>4 DEF StartFill, NoPoster, Postered
  <2>2. DOMAIN mine = {}
    OBVIOUS
  <2> HIDE DEF mine
  <2>3. QED BY <2>1, <2>2, PosterLoad
<1>5. CASE StartRefresh(w) \/ StartEnrich(w) \/ StartAlias(w)
  <2>1. \E kind \in {"refresh", "enrich", "alias"}, loading \in SUBSET Present :
          Load(w, kind, loading, <<>>, loading)
    BY <1>1, <1>5 DEF StartRefresh, StartEnrich, StartAlias
  <2>2. QED BY <1>2, <2>1
<1>6. CASE StartImport(w)
  <2>1. \E loading \in SUBSET Present : Load(w, "import", loading, <<>>, {})
    BY <1>1, <1>6 DEF StartImport
  <2>2. QED BY <1>2, <2>1
<1>7. CASE Edit(w)
  <2>1. PICK f \in Films : \E poster \in {table[f].poster, "manual"} :
          Request(w, f, Edited(table[f], poster))
    BY <1>7 DEF Edit
  <2>2. PICK poster \in {table[f].poster, "manual"} : Request(w, f, Edited(table[f], poster))
    BY <2>1
  <2>3. QED BY <1>1, <1>3, <2>2, KeepersOfPosters
<1>8. CASE ResolveConflict(w)
  <2>1. PICK f \in Films : Request(w, f, [table[f] EXCEPT !.review = FALSE])
    BY <1>8 DEF ResolveConflict
  <2>2. /\ Paired([table[f] EXCEPT !.review = FALSE])
        /\ KeepsPoster(table[f], [table[f] EXCEPT !.review = FALSE])
    BY <1>1, KeepersOfPosters
  <2>3. QED BY <1>3, <2>1, <2>2
<1>9. CASE ResetAlias(w)
  <2> DEFINE row == [alias |-> None, processed |-> FALSE]
  <2>1. PICK m \in Media \cap Present : Load(w, "request", {m}, [x \in {m} |-> row], {})
    BY <1>9 DEF ResetAlias, Request
  <2> DEFINE mine == [x \in {m} |-> row]
  <2>2. \A f \in Films : f \notin DOMAIN mine
    OBVIOUS
  <2>3. Load(w, "request", {m}, mine, {}) /\ {m} \in SUBSET Present
    BY <2>1
  <2> HIDE DEF mine
  <2>4. QED BY <2>2, <2>3, PosterLoad
<1>10. CASE Reconcile(w)
  <2>1. PICK empty \in SUBSET Films :
          Load(w, "request", empty, [f \in empty |-> [table[f] EXCEPT !.review = TRUE]], {})
    BY <1>10 DEF Reconcile
  <2> DEFINE mine == [f \in empty |-> [table[f] EXCEPT !.review = TRUE]]
  <2>2. \A f \in Films : f \in DOMAIN mine =>
           f \in empty /\ Paired(mine[f]) /\ KeepsPoster(table[f], mine[f])
    BY <1>1, KeepersOfPosters
  <2>3. Load(w, "request", empty, mine, {}) /\ empty \in SUBSET Present
    BY <1>1, <2>1
  <2> HIDE DEF mine
  <2>4. QED BY <2>2, <2>3, PosterLoad
<1>11. QED BY <1>4, <1>5, <1>6, <1>7, <1>8, <1>9, <1>10

LEMMA PosterJobStep ==
  ASSUME PosterInv, MetaInv', NEW w \in Writers, JobStep(w)
  PROVE  PosterInv'
<1>1. PICK r \in work[w].todo : \E row \in Outcomes(work[w].kind, work[w].mine[r]) :
        /\ work' = [work EXCEPT ![w] =
             [@ EXCEPT !.todo = work[w].todo \ {r}, !.mine = [work[w].mine EXCEPT ![r] = row]]]
        /\ UNCHANGED <<keys, table, files, started, mixed, raced>>
  BY DEF JobStep
<1>2. PICK row \in Outcomes(work[w].kind, work[w].mine[r]) :
        /\ work' = [work EXCEPT ![w] =
             [@ EXCEPT !.todo = work[w].todo \ {r}, !.mine = [work[w].mine EXCEPT ![r] = row]]]
        /\ UNCHANGED <<keys, table, files, started, mixed, raced>>
  BY <1>1
<1> DEFINE job == [work[w] EXCEPT !.todo = work[w].todo \ {r}, !.mine = [work[w].mine EXCEPT ![r] = row]]
<1>3. JobOK(work[w]) /\ work[w] \in Job /\ PosterKept(work[w])
  BY DEF PosterInv, MetaInv, SessionInv, JobOK
<1>4. /\ job.kind = work[w].kind /\ job.todo = work[w].todo \ {r} /\ job.loaded = work[w].loaded
      /\ job.mine = [work[w].mine EXCEPT ![r] = row]
  BY <1>3 DEF Job
<1>5. \A s \in Rows : job.mine[s] = IF s = r THEN row ELSE work[w].mine[s]
  BY <1>3, <1>4 DEF Job, SessionRows
<1>6. work' = [work EXCEPT ![w] = job] /\ UNCHANGED table
  BY <1>2
<1>10. job.kind # "import" /\ \A f \in Films : job.sent[f] = {}
  <2>1. job.sent = work[w].sent
    BY <1>3 DEF Job
  <2>2. job.kind # "import"
    BY <1>3, <1>4 DEF JobOK
  <2> HIDE DEF job
  <2>3. QED BY <1>3, <1>4, <2>1, <2>2 DEF JobOK, Rows
<1> HIDE DEF job
<1>7. ASSUME r \in Films
      PROVE  /\ work[w].loaded[r] # None /\ work[w].mine[r] \in Film /\ Paired(work[w].mine[r])
             /\ Paired(row)
             /\ Postered(work[w].mine[r]) => Postered(row)
             /\ work[w].kind \notin {"fill", "refresh"} => KeepsPoster(work[w].mine[r], row)
  <2>1. work[w].loaded[r] # None /\ work[w].mine[r] \in Film /\ Paired(work[w].mine[r])
    BY <1>3, <1>7 DEF JobOK, From, TypeOf, PosterKept
  <2>2. work[w].kind \in {"fill", "refresh", "enrich"}
    BY <1>3, <1>7 DEF JobOK
  <2>3. CASE work[w].kind = "enrich"
    BY <2>1, <2>3, KeepersOfPosters DEF Outcomes, KeepsPoster
  <2>4. CASE work[w].kind \in {"fill", "refresh"}
    BY <2>1, <2>4, KeepersOfPosters DEF Outcomes
  <2>5. QED BY <2>1, <2>2, <2>3, <2>4
<1>8. PosterKept(job)
  <2>1. ASSUME NEW f \in Films, job.loaded[f] # None
        PROVE  /\ Paired(job.loaded[f]) /\ Paired(job.mine[f])
               /\ Postered(job.loaded[f]) => Postered(job.mine[f]) /\ Postered(table[f])
               /\ job.kind # "refresh" => KeepsPoster(job.loaded[f], job.mine[f])
               /\ job.kind = "fill" /\ f \in job.todo => ~Postered(job.loaded[f])
    <3>1. CASE f # r
      BY <1>3, <1>4, <1>5, <2>1, <3>1 DEF PosterKept
    <3>2. CASE f = r
      <4>1. job.mine[f] = row /\ job.loaded[f] = work[w].loaded[r] /\ job.kind = work[w].kind /\ f \notin job.todo
        BY <1>4, <1>5, <3>2
      <4>2. /\ Paired(work[w].loaded[r])
            /\ Postered(work[w].loaded[r]) => Postered(work[w].mine[r]) /\ Postered(table[r])
            /\ work[w].kind # "refresh" => KeepsPoster(work[w].loaded[r], work[w].mine[r])
            /\ work[w].kind = "fill" => ~Postered(work[w].loaded[r])
        BY <1>3, <1>7, <3>2 DEF PosterKept
      <4>3. QED BY <1>7, <3>2, <4>1, <4>2 DEF KeepsPoster
    <3>3. QED BY <3>1, <3>2
  <2>2. QED BY <1>10, <2>1 DEF PosterKept
<1>9. QED BY <1>6, <1>8, PosterWork

LEMMA PosterImportFile ==
  ASSUME PosterInv, MetaInv', NEW w \in Writers, ImportFile(w)
  PROVE  PosterInv'
<1>1. PICK f \in Films, e \in Editions, answer \in Answers, new \in {0, 1},
           sent \in SUBSET Columns, poster \in Posters \cup {None} :
        ImportsFile(w, f, e, answer, new, sent, poster)
  BY FileImported DEF PosterInv
<1> DEFINE card == work[w].mine[f]
           loaded == work[w].loaded[f]
           row == Imported(card, poster, answer, files[f][e] + work[w].adding[e])
           job == [work[w] EXCEPT
                     !.mine = [work[w].mine EXCEPT ![f] = row],
                     !.sent = [work[w].sent EXCEPT ![f] = work[w].sent[f] \cup sent],
                     !.adding = [work[w].adding EXCEPT ![e] = work[w].adding[e] + new],
                     !.looked = work[w].looked \cup {IF answer = "error" THEN None ELSE e}]
<1>2. /\ card # None /\ poster \in Found(card)
      /\ \A c \in sent : \E version \in {card, Graded(card, poster), row} : c \in Differ(version, loaded)
      /\ work' = [work EXCEPT ![w] = job]
  BY <1>1 DEF ImportsFile
<1>3. /\ JobOK(work[w]) /\ work[w] \in Job /\ PosterKept(work[w]) /\ work[w].kind = "import"
      /\ UNCHANGED table
  BY DEF PosterInv, MetaInv, SessionInv, JobOK, ImportFile
<1>4. /\ loaded # None /\ card \in Film /\ Paired(card) /\ Paired(loaded)
      /\ KeepsPoster(loaded, card) /\ PosterFound(loaded, card)
  BY <1>2, <1>3 DEF JobOK, From, TypeOf, PosterKept
<1>5. /\ Paired(row) /\ KeepsPoster(card, row) /\ PosterFound(card, row)
      /\ Graded(card, poster).poster = row.poster
      /\ Graded(card, poster).posterSource = row.posterSource
  BY <1>2, <1>4, ImportedKeepsPoster
<1>6. ASSUME {"poster", "posterSource"} \cap sent # {} PROVE ~Postered(loaded) /\ Postered(row)
  <2>1. PICK c \in {"poster", "posterSource"} : c \in sent
    BY <1>6
  <2>2. PICK version \in {card, Graded(card, poster), row} : c \in Differ(version, loaded)
    BY <1>2, <2>1
  <2>3. version[c] # loaded[c]
    BY <2>2 DEF Differ
  <2> HIDE DEF row
  <2>4. \/ card.poster # loaded.poster \/ card.posterSource # loaded.posterSource
        \/ row.poster # loaded.poster \/ row.posterSource # loaded.posterSource
    BY <1>5, <2>1, <2>2, <2>3
  <2>5. QED BY <1>4, <1>5, <2>4 DEF PosterFound, KeepsPoster
<1> HIDE DEF row
<1>7. /\ job.kind = "import" /\ job.loaded = work[w].loaded
      /\ job.mine = [work[w].mine EXCEPT ![f] = row]
      /\ job.sent = [work[w].sent EXCEPT ![f] = work[w].sent[f] \cup sent]
  BY <1>3 DEF Job
<1>8. \A s \in Rows :
        /\ job.mine[s] = IF s = f THEN row ELSE work[w].mine[s]
        /\ job.sent[s] = IF s = f THEN work[w].sent[f] \cup sent ELSE work[w].sent[s]
  BY <1>3, <1>7 DEF Job, SessionRows
<1> HIDE DEF job
<1>9. PosterKept(job)
  <2>1. ASSUME NEW g \in Films, job.loaded[g] # None, {"poster", "posterSource"} \cap job.sent[g] # {}
        PROVE  ~Postered(job.loaded[g]) /\ Postered(job.mine[g])
    BY <1>3, <1>5, <1>6, <1>7, <1>8, <2>1 DEF PosterKept, KeepsPoster
  <2>2. ASSUME NEW g \in Films, job.loaded[g] # None
        PROVE  /\ Paired(job.loaded[g]) /\ Paired(job.mine[g])
               /\ Postered(job.loaded[g]) => Postered(job.mine[g]) /\ Postered(table[g])
               /\ KeepsPoster(job.loaded[g], job.mine[g])
               /\ PosterFound(job.loaded[g], job.mine[g])
    BY <1>3, <1>5, <1>7, <1>8, <2>2 DEF PosterKept, KeepsPoster, PosterFound
  <2>3. QED BY <1>7, <2>1, <2>2 DEF PosterKept
<1>10. QED BY <1>2, <1>3, <1>9, PosterWork

(* What a commit writes of a card has a poster if the card had one.        *)
LEMMA WrittenPosters ==
  ASSUME NEW row \in Film, NEW loaded \in Film, NEW mine \in Film, NEW sent,
         Paired(row), Paired(loaded), Paired(mine),
         Postered(loaded) => Postered(mine) /\ Postered(row),
         {"poster", "posterSource"} \cap sent # {} => ~Postered(loaded) /\ Postered(mine)
  PROVE  /\ Paired(Write(row, loaded, mine, sent))
         /\ Postered(row) => Postered(Write(row, loaded, mine, sent))
<1> DEFINE new == Write(row, loaded, mine, sent)
<1>1. /\ new.poster = IF mine.poster # loaded.poster THEN mine.poster ELSE row.poster
      /\ new.posterSource = IF mine.posterSource # loaded.posterSource
                            THEN mine.posterSource ELSE row.posterSource
  BY WriteColumns DEF Paired, Postered
<1> HIDE DEF new
<1>2. Paired(new) /\ (Postered(row) => Postered(new))
  BY <1>1 DEF Paired, Postered
<1>3. QED BY <1>2 DEF new

LEMMA PosterCommits ==
  ASSUME PosterInv, MetaInv', NEW w \in Writers, Commit(w)
  PROVE  PosterInv'
<1>1. /\ JobOK(work[w]) /\ PosterKept(work[w])
      /\ \A f \in Films : table[f] \in Film /\ Paired(table[f])
  BY PresentRows DEF PosterInv, MetaInv, SessionInv
<1>2. ASSUME NEW f \in Films
      PROVE  Paired(table'[f]) /\ (Postered(table[f]) => Postered(table'[f]))
  <2>1. CASE f \in Changed(w)
    <3>1. work[w].loaded[f] # None
      BY <1>1, <2>1 DEF Changed, JobOK
    <3>2. work[w].loaded[f] \in Film /\ work[w].mine[f] \in Film
      BY <1>1, <3>1 DEF JobOK, From, TypeOf
    <3>3. table'[f] = Write(table[f], work[w].loaded[f], work[w].mine[f], work[w].sent[f])
      BY <2>1 DEF Commit
    <3>4. QED BY <1>1, <3>1, <3>2, <3>3, WrittenPosters DEF PosterKept
  <2>2. CASE f \notin Changed(w)
    BY <1>1, <2>2 DEF Commit
  <2>3. QED BY <2>1, <2>2
<1>3. ASSUME NEW v \in Writers PROVE PosterKept(work[v])'
  <2>1. work'[v] = IF v = w THEN Idle ELSE work[v]
    BY DEF Commit, PosterInv, MetaInv, TypeOK
  <2>2. CASE v = w
    BY <2>1, <2>2 DEF Idle, PosterKept
  <2>3. CASE v # w
    BY <1>2, <2>1, <2>3 DEF PosterInv, PosterKept
  <2>4. QED BY <2>2, <2>3
<1>4. QED BY <1>2, <1>3 DEF PosterInv

LEMMA PosterStep == PosterInv /\ [Next]_vars => PosterInv'
<1> SUFFICES ASSUME PosterInv, [Next]_vars PROVE PosterInv'
  OBVIOUS
<1>1. MetaInv'
  BY MetaStep DEF PosterInv
<1>2. ASSUME NEW w \in Writers,
             \/ StartFill(w) \/ StartRefresh(w) \/ StartEnrich(w) \/ StartAlias(w)
             \/ Edit(w) \/ ResolveConflict(w) \/ ResetAlias(w) \/ Reconcile(w) \/ StartImport(w)
      PROVE  PosterInv'
  BY <1>1, <1>2, PosterStarts
<1>3. ASSUME NEW w \in Writers, JobStep(w) PROVE PosterInv'
  BY <1>1, <1>3, PosterJobStep
<1>4. ASSUME NEW w \in Writers, ImportFile(w) PROVE PosterInv'
  BY <1>1, <1>4, PosterImportFile
<1>5. ASSUME NEW w \in Writers, JobCommit(w) \/ RequestCommit(w) \/ ImportCommit(w) PROVE PosterInv'
  BY <1>1, <1>5, PosterCommits DEF JobCommit, RequestCommit, ImportCommit
<1>6. ASSUME NEW w \in Writers, RollBack(w) PROVE PosterInv'
  <2>1. PosterKept(Idle)
    BY DEF Idle, PosterKept
  <2>2. QED BY <1>1, <1>6, <2>1, PosterWork DEF RollBack
<1>7. CASE DeleteFile
  <2>1. work' = work
    BY <1>7 DEF DeleteFile
  <2>2. \A f \in Films : table'[f] = table[f]
    BY <1>7 DEF DeleteFile, PosterInv, MetaInv, TypeOK
  <2>3. QED BY <1>1, <2>1, <2>2 DEF PosterInv, PosterKept
<1>8. CASE UNCHANGED vars
  BY <1>1, <1>8 DEF vars, PosterInv, PosterKept
<1>9. QED BY <1>2, <1>3, <1>4, <1>5, <1>6, <1>7, <1>8 DEF Next

LEMMA PosterInvariant == Spec => []PosterInv
<1>1. ASSUME Init PROVE PosterInv
  <2>1. \A f \in Films : table[f].poster = None /\ table[f].posterSource = None
    BY <1>1 DEF Init
  <2>2. \A w \in Writers : PosterKept(work[w])
    BY <1>1 DEF Init, Idle, PosterKept
  <2>3. QED BY <1>1, <2>1, <2>2, MetaInit DEF PosterInv, Paired, Postered
<1>2. QED BY <1>1, PosterStep, PTL DEF Spec

(* The poster an administrator chose gives way to one of OMDB only in the  *)
(* refresh of all posters, or to a job that had read the card without it:  *)
(* the job that fills in posters and the import look only for the posters  *)
(* of cards that have none.                                                *)
THEOREM ManualPosters == Spec => ManualPosterKept
<1>1. ASSUME PosterInv, [Next]_vars, NEW f \in Films, NEW w \in Writers, Commits(w),
             table[f].posterSource = "manual", table'[f].posterSource = "omdb",
             work[w].kind # "refresh"
      PROVE  work[w].loaded[f].poster # table[f].poster
  <2>1. MetaInv /\ PosterKept(work[w]) /\ Postered(table[f])
    BY <1>1 DEF PosterInv, Paired
  <2>2. /\ table[f] \in Film /\ work[w].loaded[f] \in Film /\ work[w].mine[f] \in Film
        /\ table'[f] = Write(table[f], work[w].loaded[f], work[w].mine[f], work[w].sent[f])
    BY <1>1, <2>1, CommitWrites
  <2>3. /\ work[w].mine[f].posterSource = "omdb"
        /\ \/ "posterSource" \in work[w].sent[f]
           \/ work[w].mine[f].posterSource # work[w].loaded[f].posterSource
    BY <1>1, <2>2, WriteColumns
  <2>4. ~Postered(work[w].loaded[f])
    BY <1>1, <2>1, <2>2, <2>3 DEF PosterKept, KeepsPoster
  <2>5. QED BY <2>1, <2>4 DEF Postered
<1>2. PosterInv /\ [Next]_vars =>
        [\A f \in Films : \A w \in Writers :
           /\ Commits(w)
           /\ table[f].posterSource = "manual" /\ table'[f].posterSource = "omdb"
           => work[w].kind = "refresh" \/ work[w].loaded[f].poster # table[f].poster]_vars
  BY <1>1
<1>3. QED BY <1>2, PosterInvariant, PTL DEF Spec, ManualPosterKept

=============================================================================
