------------------------ MODULE ImportPipelineProofs ------------------------
(***************************************************************************)
(* Theorems about the imports, for any number of files and of overlapping  *)
(* runs and any number of faults.                                          *)
(*                                                                         *)
(* ImportInv is the inductive invariant.  The catalogue alone does not say *)
(* why its references hold: each run carries a row it looked up steps ago, *)
(* and a commit adds all it inserted at once.  So the invariant says of    *)
(* every run that its rows are sound on top of what is committed, that the *)
(* row it has reached is one it can see and the right one for its file,    *)
(* and that a run whose session failed has no rows left.                   *)
(*                                                                         *)
(* Three more invariants rest on it: SerialInv, that without overlap at    *)
(* most one run is busy, and what it looked up last is still so;           *)
(* AccountInv, that every candidate a run has not imported is still to do, *)
(* at hand, or in its report; and PathInv, that no two media files, of the *)
(* committed and of everyone's, have one path.                             *)
(***************************************************************************)
EXTENDS ImportPipeline, TLAPS

(* Run r moves; the other runs stay.                                       *)
Moves(r, pc, todo, file, row, poisoned) ==
    /\ run' \in [Runs -> Run]
    /\ \A s \in Runs \ {r} : run'[s] = run[s]
    /\ run'[r].pc = pc /\ run'[r].todo = todo
    /\ run'[r].file = file /\ run'[r].row = row
    /\ run'[r].poisoned = poisoned

-----------------------------------------------------------------------------
(* Where a run is when it is over.                                         *)
LEMMA IdleRun ==
    /\ Idle \in Run /\ Idle.pc = "idle" /\ Idle.todo = {} /\ Idle.file = None
    /\ Idle.row = None /\ Idle.poisoned = FALSE
  BY DEF Idle, Run, RunState

(* What each of the helpers of ImportPipeline makes of a run.              *)
LEMMA GotoMoves ==
    ASSUME run \in [Runs -> Run], NEW r \in Runs, NEW pc \in RunState, Goto(r, pc)
    PROVE  Moves(r, pc, run[r].todo, run[r].file, run[r].row, run[r].poisoned)
  <1>1. LET y == [run[r] EXCEPT !.pc = pc] IN
          /\ y \in Run /\ y.pc = pc /\ y.todo = run[r].todo /\ y.file = run[r].file
          /\ y.row = run[r].row /\ y.poisoned = run[r].poisoned
    <2>1. run[r] \in Run OBVIOUS
    <2> QED BY <2>1 DEF Run
  <1> QED BY <1>1 DEF Moves, Goto

LEMMA GoOnMoves ==
    ASSUME run \in [Runs -> Run], NEW r \in Runs, NEW pc \in RunState,
           NEW row \in SeriesRow \cup FilmRow \cup EditionRow \cup MediaRow \cup {None},
           GoOn(r, pc, row)
    PROVE  Moves(r, pc, run[r].todo, run[r].file, row, run[r].poisoned)
  <1>1. LET y == [run[r] EXCEPT !.pc = pc, !.row = row] IN
          /\ y \in Run /\ y.pc = pc /\ y.todo = run[r].todo /\ y.file = run[r].file
          /\ y.row = row /\ y.poisoned = run[r].poisoned
    <2>1. run[r] \in Run OBVIOUS
    <2> QED BY <2>1 DEF Run
  <1>2. run' = [run EXCEPT ![r] = [run[r] EXCEPT !.pc = pc, !.row = row]]
    BY Zenon DEF GoOn
  <1> QED BY <1>1, <1>2 DEF Moves

LEMMA LoopMoves ==
    ASSUME run \in [Runs -> Run], NEW r \in Runs,
           NEW errors \in SUBSET Files, NEW skipped \in SUBSET Files,
           Loop(r, errors, skipped)
    PROVE  Moves(r, "next", run[r].todo, None, None, run[r].poisoned)
  <1> DEFINE y == [run[r] EXCEPT !.pc = "next", !.file = None, !.row = None,
                                 !.errors = errors, !.skipped = skipped]
  <1>1. /\ y \in Run /\ y.pc = "next" /\ y.todo = run[r].todo /\ y.file = None
        /\ y.row = None /\ y.poisoned = run[r].poisoned
    <2>1. run[r] \in Run OBVIOUS
    <2> QED BY <2>1 DEF Run, RunState
  <1>2. run' = [run EXCEPT ![r] = y]
    BY Zenon DEF Loop
  <1> QED BY <1>1, <1>2 DEF Moves

LEMMA FinishMoves ==
    ASSUME run \in [Runs -> Run], NEW r \in Runs, Finish(r)
    PROVE  Moves(r, "idle", {}, None, None, FALSE)
  BY IdleRun DEF Moves, Finish

LEMMA PoisonMoves ==
    ASSUME run \in [Runs -> Run], NEW r \in Runs, Poison(r), run[r].file \in Files
    PROVE  Moves(r, "next", run[r].todo, None, None, TRUE)
  <1> DEFINE y == [run[r] EXCEPT !.poisoned = TRUE, !.pc = "next", !.file = None,
                     !.row = None, !.errors = run[r].errors \cup {run[r].file}]
  <1>1. /\ y \in Run /\ y.pc = "next" /\ y.todo = run[r].todo /\ y.file = None
        /\ y.row = None /\ y.poisoned = TRUE
    <2>1. run[r] \in Run OBVIOUS
    <2> QED BY <2>1 DEF Run, RunState
  <1>2. run' = [run EXCEPT ![r] = y]
    BY Zenon DEF Poison
  <1> QED BY <1>1, <1>2 DEF Moves

-----------------------------------------------------------------------------
(* A film is what the file it was made for names, and f belongs to it.     *)
Maker(m) == m.by[2]

NamedFilm(m) ==
    /\ m.title = TitleOf[Maker(m)] /\ m.episode = EpisodeOf[Maker(m)]
    /\ IF ShowOf[Maker(m)] = NoShow THEN m.series = None
       ELSE m.series \in SeriesRow /\ m.series.show = ShowOf[Maker(m)]

RightFilm(m, f) == NamedFilm(m) /\ L!Belongs(f, Maker(m))

RightEdition(e, f) == e.version = VersionOf[f] /\ RightFilm(e.film, f)

HasCandidate(o, f) == \E c \in o.candidates : c.file = f

Imported(f) == [file |-> f, status |-> "imported"]

(* The rows o, on top of the rows d: they refer to rows of the two, each   *)
(* film is what a file names, each file belongs to its film, and its       *)
(* candidate says so.                                                      *)
Sound(o, d) ==
    /\ \A m \in o.films : NamedFilm(m)
    /\ \A m \in o.films : m.series \in d.series \cup o.series \cup {None}
    /\ \A e \in o.editions : e.film \in d.films \cup o.films
    /\ \A m \in o.media : m.edition \in d.editions \cup o.editions
    /\ \A m \in o.media : RightEdition(m.edition, m.file)
    /\ \A f \in Files : Indexed(o.media, f) <=> Imported(f) \in o.candidates

(* The row run x has reached in the lookup chain for its file.             *)
Reached(x, o, d) ==
    /\ x.pc \in Bridging => x.file \in Files /\ HasCandidate(o, x.file)
    /\ x.pc = "film" =>
         IF ShowOf[x.file] = NoShow THEN x.row = None
         ELSE x.row \in d.series \cup o.series /\ x.row.show = ShowOf[x.file]
    /\ x.pc = "edition" =>
         x.row \in d.films \cup o.films /\ RightFilm(x.row, x.file)
    /\ x.pc \in {"path", "hash"} =>
         x.row \in d.editions \cup o.editions /\ RightEdition(x.row, x.file)
    /\ x.pc = "insert" =>
         /\ x.row \in MediaRow /\ x.row.file = x.file
         /\ x.row.edition \in d.editions \cup o.editions
         /\ RightEdition(x.row.edition, x.file)

(* What a run has done so far.                                             *)
Done(x, o) ==
    /\ x.pc \in {"idle", "query"} => o = NoRows
    /\ x.pc = "probe" => o.media = {}
    /\ x.poisoned => o = NoRows /\ x.pc \in {"next", "commit"}
    /\ ~x.poisoned /\ x.pc \notin {"idle", "query"} =>
         \A f \in x.todo : HasCandidate(o, f)

RunInv(x, o, d) == Sound(o, d) /\ Reached(x, o, d) /\ Done(x, o)

ImportInv ==
    /\ TypeOK
    /\ Sound(db, db)
    /\ \A r \in Runs : RunInv(run[r], own[r], db)

-----------------------------------------------------------------------------
(* A run without rows is no obstacle.                                      *)
LEMMA NothingInserted ==
    NoRows \in Rows /\ NoRows.media = {} /\ NoRows.candidates = {}
  BY DEF NoRows, Rows

LEMMA NothingIsSound ==
    ASSUME NEW d PROVE Sound(NoRows, d)
  BY DEF NoRows, Sound, Indexed

(* Run r changes its own rows into o, and no other.                        *)
Writes(r, o) ==
    /\ o \in Rows
    /\ own'[r] = o
    /\ own' \in [Runs -> Rows]
    /\ \A s \in Runs \ {r} : own'[s] = own[s]

LEMMA RollBackWrites ==
    ASSUME own \in [Runs -> Rows], NEW r \in Runs, RollBack(r)
    PROVE  Writes(r, NoRows)
  BY NothingInserted DEF RollBack, Writes

LEMMA InsertSeriesWrites ==
    ASSUME own \in [Runs -> Rows], NEW r \in Runs, NEW x \in SeriesRow,
           Insert(r, "series", x)
    PROVE  Writes(r, [own[r] EXCEPT !.series = @ \cup {x}])
  BY DEF Insert, Writes, Rows

LEMMA InsertFilmWrites ==
    ASSUME own \in [Runs -> Rows], NEW r \in Runs, NEW x \in FilmRow,
           Insert(r, "films", x)
    PROVE  Writes(r, [own[r] EXCEPT !.films = @ \cup {x}])
  BY DEF Insert, Writes, Rows

LEMMA InsertEditionWrites ==
    ASSUME own \in [Runs -> Rows], NEW r \in Runs, NEW x \in EditionRow,
           Insert(r, "editions", x)
    PROVE  Writes(r, [own[r] EXCEPT !.editions = @ \cup {x}])
  BY DEF Insert, Writes, Rows

(* A step of run r that commits nothing keeps the invariant if it leaves   *)
(* the run and its rows as the invariant wants them.                       *)
LEMMA OneRunSteps ==
    ASSUME ImportInv, NEW r \in Runs,
           UNCHANGED db, disk' \subseteq Files,
           faults' \in 0..MaxFaults, overlap' \in BOOLEAN,
           run' \in [Runs -> Run], own' \in [Runs -> Rows],
           \A s \in Runs \ {r} : run'[s] = run[s] /\ own'[s] = own[s],
           RunInv(run'[r], own'[r], db)
    PROVE  ImportInv'
  BY DEF ImportInv, TypeOK

-----------------------------------------------------------------------------
(* The bound on faults is kept.                                            *)
LEMMA FaultCounts == ASSUME TypeOK, Fault PROVE faults' \in 0..MaxFaults
  BY FaultsAssumption DEF TypeOK, Fault

(* Nothing is in the tables at first.                                      *)
LEMMA InitInv == Init => ImportInv
  <1> SUFFICES ASSUME Init PROVE ImportInv
    OBVIOUS
  <1>1. TypeOK
    <2>1. disk \subseteq Files /\ overlap \in BOOLEAN
      BY DEF Init
    <2>2. db \in Rows /\ own \in [Runs -> Rows]
      BY NothingInserted DEF Init
    <2>3. run \in [Runs -> Run]
      BY IdleRun DEF Init
    <2>4. faults \in 0..MaxFaults
      BY FaultsAssumption DEF Init
    <2> QED BY <2>1, <2>2, <2>3, <2>4 DEF TypeOK
  <1>2. Sound(db, db)
    BY NothingIsSound DEF Init
  <1>3. \A r \in Runs : RunInv(run[r], own[r], db)
    BY NothingIsSound, IdleRun DEF Init, RunInv, Reached, Done, Bridging
  <1> QED BY <1>1, <1>2, <1>3 DEF ImportInv

(* Each action keeps ImportInv.                                            *)
LEMMA CollectKeeps ==
    ASSUME ImportInv, NEW r \in Runs, Collect(r) PROVE ImportInv'
  <1> DEFINE y == [Idle EXCEPT !.pc = "query", !.todo = disk]
  <1>1. y \in Run /\ y.pc = "query" /\ ~y.poisoned
    BY DEF Idle, Run, RunState, ImportInv, TypeOK
  <1>2. own[r] = NoRows
    BY DEF ImportInv, RunInv, Done, Collect
  <1>3. run' \in [Runs -> Run] /\ run'[r] = y /\ \A s \in Runs \ {r} : run'[s] = run[s]
    BY <1>1 DEF Collect, ImportInv, TypeOK
  <1>4. RunInv(run'[r], own[r], db)
    BY <1>1, <1>2, <1>3, NothingIsSound DEF RunInv, Reached, Done, Bridging
  <1> QED BY <1>3, <1>4, OneRunSteps DEF Collect, ImportInv, TypeOK

LEMMA QueryKeeps ==
    ASSUME ImportInv, NEW r \in Runs, Query(r) PROVE ImportInv'
  <1> DEFINE new == {f \in run[r].todo : ~Known(f)}
             pending == {[file |-> f, status |-> "pending"] : f \in new}
  <1>1. own[r] = NoRows /\ run[r] \in Run /\ ~run[r].poisoned
    BY DEF ImportInv, TypeOK, RunInv, Done, Query
  <1>2. CASE Finish(r) /\ UNCHANGED own
    <2>1. Moves(r, "idle", {}, None, None, FALSE)
      BY <1>2, FinishMoves DEF ImportInv, TypeOK
    <2>2. RunInv(run'[r], own[r], db)
      BY <2>1, <1>1, NothingIsSound DEF RunInv, Reached, Done, Bridging, Moves
    <2> QED BY <2>1, <2>2, <1>2, OneRunSteps DEF Query, ImportInv, TypeOK, Moves
  <1>3. CASE /\ own' = [own EXCEPT ![r].candidates = pending]
             /\ run' = [run EXCEPT ![r].pc = "probe", ![r].todo = new]
    <2> DEFINE y == [run[r] EXCEPT !.pc = "probe", !.todo = new]
               o == [own[r] EXCEPT !.candidates = pending]
    <2>1. /\ y \in Run /\ y.pc = "probe" /\ y.todo = new /\ y.poisoned = FALSE
      BY <1>1 DEF Run, RunState
    <2>2. run' = [run EXCEPT ![r] = y]
      BY Zenon, <1>3
    <2>3. new \subseteq Files
      BY <1>1 DEF Run
    <2>4. pending \subseteq Candidate
      BY <2>3 DEF Candidate
    <2>5. Writes(r, o)
      BY <1>3, <2>4 DEF Writes, ImportInv, TypeOK, Rows
    <2>6. /\ o.series = {} /\ o.films = {} /\ o.editions = {} /\ o.media = {}
          /\ o.candidates = pending
      BY <1>1 DEF NoRows
    <2>7. \A f : Imported(f) \notin pending
      BY DEF Imported
    <2>8. Sound(o, db)
      BY <2>6, <2>7 DEF Sound, Indexed
    <2>9. ASSUME NEW f \in new PROVE HasCandidate(o, f)
      <3>1. [file |-> f, status |-> "pending"] \in o.candidates
        BY <2>6
      <3> QED BY <3>1 DEF HasCandidate
    <2>10. RunInv(run'[r], own'[r], db)
      BY <2>1, <2>2, <2>5, <2>6, <2>8, <2>9
         DEF RunInv, Reached, Done, Bridging, Writes, ImportInv, TypeOK
    <2> QED BY <2>1, <2>2, <2>5, <2>10, OneRunSteps DEF Query, Writes, ImportInv, TypeOK
  <1> QED BY <1>2, <1>3 DEF Query

LEMMA ProbeKeeps ==
    ASSUME ImportInv, NEW r \in Runs, Probe(r) PROVE ImportInv'
  <1>1. PICK bad \in SUBSET run[r].todo :
          /\ IF bad \subseteq run[r].todo \ disk THEN UNCHANGED faults ELSE Fault
          /\ own' = [own EXCEPT ![r].candidates =
                       {[file |-> f, status |-> IF f \in bad THEN "error" ELSE "probed"]
                          : f \in run[r].todo}]
          /\ run' = [run EXCEPT ![r].pc = "next", ![r].todo = @ \ bad]
    BY Zenon DEF Probe
  <1> DEFINE rated == {[file |-> f, status |-> IF f \in bad THEN "error" ELSE "probed"]
                         : f \in run[r].todo}
             y == [run[r] EXCEPT !.pc = "next", !.todo = run[r].todo \ bad]
             o == [own[r] EXCEPT !.candidates = rated]
  <1>2. /\ run[r] \in Run /\ ~run[r].poisoned /\ own[r] \in Rows /\ own[r].media = {}
        /\ Sound(own[r], db)
    BY DEF ImportInv, TypeOK, RunInv, Done, Probe
  <1>3. /\ y \in Run /\ y.pc = "next" /\ y.todo \subseteq run[r].todo /\ ~y.poisoned
    BY <1>2 DEF Run, RunState
  <1>4. run' = [run EXCEPT ![r] = y]
    BY Zenon, <1>1
  <1>5. rated \subseteq Candidate
    BY <1>2 DEF Candidate, Run
  <1>6. Writes(r, o)
    BY <1>1, <1>5 DEF Writes, ImportInv, TypeOK, Rows
  <1>7. /\ o.series = own[r].series /\ o.films = own[r].films
        /\ o.editions = own[r].editions /\ o.media = {} /\ o.candidates = rated
    BY <1>2 DEF Rows
  <1>8. \A f : Imported(f) \notin rated
    BY DEF Imported
  <1>9. Sound(o, db)
    BY <1>2, <1>7, <1>8 DEF Sound, Indexed
  <1>10. ASSUME NEW f \in run[r].todo PROVE HasCandidate(o, f)
    <2>1. [file |-> f, status |-> IF f \in bad THEN "error" ELSE "probed"] \in o.candidates
      BY <1>7
    <2> QED BY <2>1 DEF HasCandidate
  <1>11. RunInv(run'[r], own'[r], db)
    BY <1>3, <1>4, <1>6, <1>9, <1>10
       DEF RunInv, Reached, Done, Bridging, Writes, ImportInv, TypeOK
  <1>12. faults' \in 0..MaxFaults
    BY <1>1, FaultCounts DEF ImportInv, TypeOK
  <1> QED BY <1>3, <1>4, <1>6, <1>11, <1>12, OneRunSteps
             DEF Probe, Writes, ImportInv, TypeOK

(* The steps that move run r and touch no table.                           *)
LEMMA RunMoves ==
    ASSUME ImportInv, NEW r \in Runs, NEW pc, NEW todo, NEW file, NEW row, NEW poisoned,
           Moves(r, pc, todo, file, row, poisoned),
           UNCHANGED <<disk, db, own, overlap>>, faults' \in 0..MaxFaults,
           Reached(run'[r], own[r], db), Done(run'[r], own[r])
    PROVE  ImportInv'
  <1>1. RunInv(run'[r], own'[r], db)
    BY DEF ImportInv, RunInv
  <1> QED BY <1>1, OneRunSteps DEF Moves, ImportInv, TypeOK

LEMMA SkipProbeKeeps ==
    ASSUME ImportInv, NEW r \in Runs, SkipProbe(r) PROVE ImportInv'
  <1>1. Moves(r, "next", run[r].todo, run[r].file, run[r].row, run[r].poisoned)
    BY GotoMoves DEF SkipProbe, ImportInv, TypeOK, RunState
  <1>2. RunInv(run[r], own[r], db) /\ faults' \in 0..MaxFaults
    BY DEF ImportInv, TypeOK, SkipProbe
  <1>3. Reached(run'[r], own[r], db) /\ Done(run'[r], own[r])
    BY <1>1, <1>2 DEF RunInv, Reached, Done, Bridging, SkipProbe, Moves
  <1> QED BY <1>1, <1>2, <1>3, RunMoves DEF SkipProbe

LEMMA LeaveKeeps ==
    ASSUME ImportInv, NEW r \in Runs, Leave(r) PROVE ImportInv'
  <1>1. Moves(r, "commit", run[r].todo, run[r].file, run[r].row, run[r].poisoned)
    BY GotoMoves DEF Leave, ImportInv, TypeOK, RunState
  <1>2. RunInv(run[r], own[r], db) /\ faults' \in 0..MaxFaults
    BY DEF ImportInv, TypeOK, Leave
  <1>3. Reached(run'[r], own[r], db) /\ Done(run'[r], own[r])
    BY <1>1, <1>2 DEF RunInv, Reached, Done, Bridging, Leave, Moves
  <1> QED BY <1>1, <1>2, <1>3, RunMoves DEF Leave

LEMMA TakeKeeps ==
    ASSUME ImportInv, NEW r \in Runs, Take(r) PROVE ImportInv'
  <1>1. PICK f \in run[r].todo :
         run' = [run EXCEPT ![r].todo = @ \ {f},
                            ![r].pc = IF run[r].poisoned THEN "next" ELSE "series",
                            ![r].file = IF run[r].poisoned THEN None ELSE f,
                            ![r].errors = IF run[r].poisoned THEN @ \cup {f} ELSE @]
    BY Zenon DEF Take
  <1> DEFINE y == [run[r] EXCEPT
                     !.todo = run[r].todo \ {f},
                     !.pc = IF run[r].poisoned THEN "next" ELSE "series",
                     !.file = IF run[r].poisoned THEN None ELSE f,
                     !.errors = IF run[r].poisoned THEN run[r].errors \cup {f}
                                ELSE run[r].errors]
  <1>2. run[r] \in Run /\ run[r].pc = "next" /\ RunInv(run[r], own[r], db)
    BY DEF ImportInv, TypeOK, Take
  <1>3. f \in Files
    BY <1>2 DEF Run
  <1>4. /\ y \in Run /\ y.todo = run[r].todo \ {f} /\ y.poisoned = run[r].poisoned
        /\ run[r].poisoned => y.pc = "next"
        /\ ~run[r].poisoned => y.pc = "series" /\ y.file = f
    BY <1>2, <1>3 DEF Run, RunState, Bridging
  <1>5. run' = [run EXCEPT ![r] = y]
    BY Zenon, <1>1
  <1>6. Moves(r, y.pc, y.todo, y.file, y.row, y.poisoned)
    BY <1>4, <1>5 DEF Moves, ImportInv, TypeOK
  <1>7. run'[r] = y
    BY <1>5 DEF ImportInv, TypeOK
  <1>8. Reached(y, own[r], db) /\ Done(y, own[r])
    BY <1>2, <1>3, <1>4 DEF RunInv, Reached, Done, Bridging
  <1>9. UNCHANGED <<disk, db, own, overlap>> /\ faults' \in 0..MaxFaults
    BY DEF Take, ImportInv, TypeOK
  <1> QED BY <1>6, <1>7, <1>8, <1>9, RunMoves

(* Flush failures and failures of the whole run: all its rows are gone.    *)
LEMMA RunDropsRows ==
    ASSUME ImportInv, NEW r \in Runs, NEW pc, NEW todo, NEW file, NEW row, NEW poisoned,
           Moves(r, pc, todo, file, row, poisoned), RollBack(r),
           pc \in {"idle", "next", "commit"}, poisoned => pc \in {"next", "commit"},
           pc = "idle" \/ poisoned = TRUE,
           UNCHANGED <<disk, db, overlap>>, faults' \in 0..MaxFaults
    PROVE  ImportInv'
  <1>1. Writes(r, NoRows)
    BY RollBackWrites DEF ImportInv, TypeOK
  <1>2. RunInv(run'[r], own'[r], db)
    BY <1>1, NothingIsSound DEF Writes, Moves, RunInv, Reached, Done, Bridging
  <1> QED BY <1>1, <1>2, OneRunSteps DEF Moves, Writes, ImportInv, TypeOK

LEMMA PoisonKeeps ==
    ASSUME ImportInv, NEW r \in Runs, Poison(r), run[r].pc \in Bridging,
           UNCHANGED <<disk, db, overlap>>, faults' \in 0..MaxFaults
    PROVE  ImportInv'
  <1>1. run[r].file \in Files /\ run \in [Runs -> Run]
    BY DEF ImportInv, TypeOK, RunInv, Reached
  <1>2. Moves(r, "next", run[r].todo, None, None, TRUE)
    BY <1>1, PoisonMoves
  <1> QED BY <1>2, RunDropsRows DEF Poison

LEMMA PathTakenKeeps ==
    ASSUME ImportInv, NEW r \in Runs, PathTaken(r) PROVE ImportInv'
  BY PoisonKeeps DEF PathTaken, Bridging, ImportInv, TypeOK

LEMMA DeadlockedKeeps ==
    ASSUME ImportInv, NEW r \in Runs, Deadlocked(r) PROVE ImportInv'
  BY PoisonKeeps DEF Deadlocked, WaitsFor, Bridging, ImportInv, TypeOK

LEMMA FlushFailsKeeps ==
    ASSUME ImportInv, NEW r \in Runs, FlushFails(r) PROVE ImportInv'
  BY PoisonKeeps, FaultCounts DEF FlushFails, ImportInv

LEMMA RunFailsKeeps ==
    ASSUME ImportInv, NEW r \in Runs, RunFails(r) PROVE ImportInv'
  <1>1. Moves(r, "idle", {}, None, None, FALSE)
    BY FinishMoves DEF RunFails, ImportInv, TypeOK
  <1> QED BY <1>1, RunDropsRows, FaultCounts DEF RunFails, ImportInv

LEMMA CommitRefusedKeeps ==
    ASSUME ImportInv, NEW r \in Runs, CommitRefused(r) PROVE ImportInv'
  <1>1. Moves(r, "idle", {}, None, None, FALSE)
    BY FinishMoves DEF CommitRefused, ImportInv, TypeOK
  <1>2. RunInv(run[r], own[r], db) /\ faults' \in 0..MaxFaults
    BY DEF ImportInv, TypeOK, CommitRefused
  <1>3. Reached(run'[r], own[r], db) /\ Done(run'[r], own[r])
    BY <1>1, <1>2 DEF RunInv, Reached, Done, Bridging, CommitRefused, Moves
  <1> QED BY <1>1, <1>2, <1>3, RunMoves DEF CommitRefused

LEMMA CancelKeeps ==
    ASSUME ImportInv, NEW r \in Runs, Cancel(r) PROVE ImportInv'
  <1> DEFINE y == [run[r] EXCEPT !.stop = TRUE]
  <1>1. run[r] \in Run /\ RunInv(run[r], own[r], db)
    BY DEF ImportInv, TypeOK
  <1>2. /\ y \in Run /\ y.pc = run[r].pc /\ y.todo = run[r].todo
        /\ y.file = run[r].file /\ y.row = run[r].row /\ y.poisoned = run[r].poisoned
    BY <1>1 DEF Run
  <1>3. run'[r] = y /\ Moves(r, y.pc, y.todo, y.file, y.row, y.poisoned)
    BY <1>2 DEF Cancel, Moves, ImportInv, TypeOK
  <1>4. Reached(y, own[r], db) /\ Done(y, own[r])
    BY <1>1, <1>2 DEF RunInv, Reached, Done
  <1>5. faults' \in 0..MaxFaults
    BY FaultCounts DEF Cancel, ImportInv
  <1> QED BY <1>3, <1>4, <1>5, RunMoves DEF Cancel

LEMMA CrashKeeps ==
    ASSUME ImportInv, Crash PROVE ImportInv'
  <1>1. TypeOK'
    BY NothingInserted, IdleRun, FaultCounts DEF Crash, ImportInv, TypeOK
  <1>2. \A r \in Runs : RunInv(run'[r], own'[r], db)
    BY NothingIsSound, IdleRun DEF Crash, RunInv, Reached, Done, Bridging
  <1> QED BY <1>1, <1>2 DEF ImportInv, Crash

LEMMA FilesComeAndGo ==
    ASSUME ImportInv, NEW f \in Files, Arrive(f) \/ GoAway(f) PROVE ImportInv'
  BY FaultCounts DEF Arrive, GoAway, ImportInv, TypeOK

-----------------------------------------------------------------------------
(* What a run sees of each table are rows of that table.                   *)
LEMMA VisibleRows ==
    ASSUME TypeOK, NEW r \in Runs
    PROVE  /\ Visible(r, "series") = db.series \cup own[r].series
           /\ Visible(r, "films") = db.films \cup own[r].films
           /\ Visible(r, "editions") = db.editions \cup own[r].editions
           /\ Visible(r, "media") = db.media \cup own[r].media
           /\ db.series \cup own[r].series \subseteq SeriesRow
           /\ db.films \cup own[r].films \subseteq FilmRow
           /\ db.editions \cup own[r].editions \subseteq EditionRow
           /\ db.media \cup own[r].media \subseteq MediaRow
  BY DEF TypeOK, Rows, Visible

(* Run r, while it bridges a file.                                         *)
LEMMA BridgingRun ==
    ASSUME ImportInv, NEW r \in Runs, run[r].pc \in Bridging
    PROVE  /\ run[r] \in Run /\ run \in [Runs -> Run] /\ own[r] \in Rows
           /\ run[r].file \in Files /\ By(r) \in Runs \X Files
           /\ ~run[r].poisoned
           /\ Sound(own[r], db) /\ Reached(run[r], own[r], db)
           /\ HasCandidate(own[r], run[r].file)
           /\ \A f \in run[r].todo : HasCandidate(own[r], f)
           /\ faults \in 0..MaxFaults
  <1>1. /\ run[r] \in Run /\ run \in [Runs -> Run] /\ own[r] \in Rows
        /\ RunInv(run[r], own[r], db) /\ faults \in 0..MaxFaults
    BY DEF ImportInv, TypeOK
  <1>2. run[r].file \in Files /\ ~run[r].poisoned
    BY <1>1 DEF RunInv, Reached, Done, Bridging
  <1>3. By(r) \in Runs \X Files
    BY <1>2 DEF By
  <1> QED BY <1>1, <1>2, <1>3 DEF RunInv, Reached, Done, Bridging

LEMMA SeriesKeeps ==
    ASSUME ImportInv, NEW r \in Runs, Series(r) PROVE ImportInv'
  <1> DEFINE show == ShowOf[run[r].file]
             found == {s \in Visible(r, "series") : s.show = show}
             x == [show |-> show, by |-> By(r)]
             o == [own[r] EXCEPT !.series = @ \cup {x}]
  <1>1. run[r].pc = "series" /\ run[r].pc \in Bridging
    BY DEF Series, Bridging
  <1>2. UNCHANGED <<disk, db, overlap>> /\ faults' \in 0..MaxFaults
    BY <1>1, BridgingRun DEF Series
  <1>3. CASE show = NoShow
    <2>1. Moves(r, "film", run[r].todo, run[r].file, None, run[r].poisoned)
      BY <1>1, <1>3, BridgingRun, GoOnMoves DEF Series, RunState, Bridging
    <2>2. Reached(run'[r], own[r], db) /\ Done(run'[r], own[r])
      BY <1>1, <1>3, <2>1, BridgingRun DEF Reached, Done, Bridging, Moves
    <2> QED BY <1>2, <1>3, <2>1, <2>2, RunMoves DEF Series
  <1>4. CASE show # NoShow /\ \E s \in found : GoOn(r, "film", s) /\ UNCHANGED own
    <2>1. PICK s \in found : GoOn(r, "film", s) /\ UNCHANGED own
      BY <1>4
    <2>2. s \in SeriesRow /\ s \in db.series \cup own[r].series /\ s.show = show
      BY <2>1, VisibleRows DEF ImportInv
    <2>3. Moves(r, "film", run[r].todo, run[r].file, s, run[r].poisoned)
      BY <1>1, <2>1, <2>2, BridgingRun, GoOnMoves DEF RunState, Bridging
    <2>4. Reached(run'[r], own[r], db) /\ Done(run'[r], own[r])
      BY <1>1, <1>4, <2>2, <2>3, BridgingRun DEF Reached, Done, Bridging, Moves
    <2> QED BY <1>2, <2>1, <2>3, <2>4, RunMoves
  <1>5. CASE show # NoShow /\ Insert(r, "series", x) /\ GoOn(r, "film", x)
    <2>1. x \in SeriesRow
      BY <1>1, BridgingRun DEF SeriesRow, Image
    <2>2. Writes(r, o)
      BY <1>5, <2>1, InsertSeriesWrites DEF ImportInv, TypeOK
    <2>3. Moves(r, "film", run[r].todo, run[r].file, x, run[r].poisoned)
      BY <1>1, <1>5, <2>1, BridgingRun, GoOnMoves DEF RunState, Bridging
    <2>4. /\ o.series = own[r].series \cup {x} /\ o.films = own[r].films
          /\ o.editions = own[r].editions /\ o.media = own[r].media
          /\ o.candidates = own[r].candidates
      BY <1>1, BridgingRun DEF Rows
    <2>5. Sound(o, db)
      BY <1>1, <2>4, BridgingRun DEF Sound
    <2>6. x \in o.series /\ x.show = show
      BY <2>4
    <2>7. Reached(run'[r], o, db) /\ Done(run'[r], o)
      BY <1>1, <1>5, <2>3, <2>4, <2>6, BridgingRun
         DEF Reached, Done, Bridging, Moves, HasCandidate
    <2>8. RunInv(run'[r], own'[r], db)
      BY <2>2, <2>5, <2>7 DEF RunInv, Writes
    <2> QED BY <1>2, <2>2, <2>3, <2>8, OneRunSteps DEF Moves, Writes, ImportInv, TypeOK
  <1> QED BY <1>3, <1>4, <1>5 DEF Series, FindOrCreate

(* What run r knows of its file and of the series when it comes to the     *)
(* film.                                                                   *)
LEMMA AtFilm ==
    ASSUME ImportInv, NEW r \in Runs, run[r].pc = "film"
    PROVE  /\ run[r].file \in Files
           /\ IF ShowOf[run[r].file] = NoShow THEN run[r].row = None
              ELSE /\ run[r].row \in db.series \cup own[r].series
                   /\ run[r].row \in SeriesRow
                   /\ run[r].row.show = ShowOf[run[r].file]
           /\ run[r].row # None => run[r].row \in SeriesRow
  <1>1. Reached(run[r], own[r], db) /\ run[r].file \in Files
    BY BridgingRun DEF Bridging
  <1>2. db.series \cup own[r].series \subseteq SeriesRow
    BY VisibleRows DEF ImportInv
  <1> QED BY <1>1, <1>2 DEF Reached

(* The film that is found and the film that is made are right for it.      *)
LEMMA FoundFilmIsRight ==
    ASSUME ImportInv, NEW r \in Runs, run[r].pc = "film",
           NEW m \in db.films \cup own[r].films, IsFilmOf(m, run[r].row, run[r].file)
    PROVE  RightFilm(m, run[r].file)
  <1> DEFINE f == run[r].file
             g == Maker(m)
  <1>1. NamedFilm(m)
    BY DEF ImportInv, RunInv, Sound
  <1>2. CASE run[r].row = None
    <2>1. ShowOf[f] = NoShow
      BY <1>2, AtFilm, NoneAssumption
    <2>2. TitleOf[f] = TitleOf[g]
      BY <1>1, <1>2 DEF IsFilmOf, NamedFilm
    <2> QED BY <1>1, <2>1, <2>2 DEF RightFilm, L!Belongs
  <1>3. CASE run[r].row # None
    <2>1. ShowOf[f] # NoShow /\ run[r].row \in SeriesRow /\ run[r].row.show = ShowOf[f]
      BY <1>3, AtFilm
    <2>2. m.series = run[r].row /\ m.episode = EpisodeOf[f]
      BY <1>3 DEF IsFilmOf
    <2>3. ShowOf[f] = ShowOf[g] /\ EpisodeOf[f] = EpisodeOf[g]
      BY <1>1, <1>3, <2>1, <2>2 DEF NamedFilm
    <2> QED BY <1>1, <2>1, <2>3 DEF RightFilm, L!Belongs
  <1> QED BY <1>2, <1>3

LEMMA MadeFilmIsRight ==
    ASSUME ImportInv, NEW r \in Runs, run[r].pc = "film"
    PROVE  LET x == FilmNamed(run[r].file, run[r].row, By(r))
           IN  x \in FilmRow /\ RightFilm(x, run[r].file)
  <1> DEFINE f == run[r].file
             x == FilmNamed(f, run[r].row, By(r))
  <1>1. By(r) \in Runs \X Files /\ By(r)[2] = f /\ f \in Files
    BY BridgingRun DEF Bridging, By
  <1>2. /\ x.title = TitleOf[f] /\ x.episode = EpisodeOf[f] /\ x.series = run[r].row
        /\ Maker(x) = f
    BY <1>1 DEF FilmNamed, Maker
  <1>3. x \in FilmRow
    BY <1>1, AtFilm DEF FilmNamed, FilmRow, Image
  <1> HIDE DEF x
  <1>4. NamedFilm(x)
    BY <1>2, AtFilm DEF NamedFilm
  <1>5. L!Belongs(f, Maker(x))
    BY <1>2 DEF L!Belongs
  <1> QED BY <1>3, <1>4, <1>5 DEF RightFilm, x

LEMMA FilmKeeps ==
    ASSUME ImportInv, NEW r \in Runs, Film(r) PROVE ImportInv'
  <1> DEFINE file == run[r].file
             found == {m \in Visible(r, "films") : IsFilmOf(m, run[r].row, file)}
             x == FilmNamed(file, run[r].row, By(r))
             o == [own[r] EXCEPT !.films = @ \cup {x}]
  <1>1. run[r].pc = "film" /\ run[r].pc \in Bridging
    BY DEF Film, Bridging
  <1>2. UNCHANGED <<disk, db, overlap>> /\ faults' \in 0..MaxFaults
    BY <1>1, BridgingRun DEF Film
  <1>3. CASE \E m \in found : GoOn(r, "edition", m) /\ UNCHANGED own
    <2>1. PICK m \in found : GoOn(r, "edition", m) /\ UNCHANGED own
      BY <1>3
    <2>2. m \in FilmRow /\ m \in db.films \cup own[r].films
      BY <2>1, VisibleRows DEF ImportInv
    <2>3. Moves(r, "edition", run[r].todo, file, m, run[r].poisoned)
      BY <1>1, <2>1, <2>2, BridgingRun, GoOnMoves DEF RunState, Bridging
    <2>4. RightFilm(m, file)
      BY <1>1, <2>1, <2>2, FoundFilmIsRight
    <2>5. Reached(run'[r], own[r], db) /\ Done(run'[r], own[r])
      BY <1>1, <2>2, <2>3, <2>4, BridgingRun DEF Reached, Done, Bridging, Moves
    <2> QED BY <1>2, <2>1, <2>3, <2>5, RunMoves
  <1>4. CASE Insert(r, "films", x) /\ GoOn(r, "edition", x)
    <2>1. x \in FilmRow /\ RightFilm(x, file) /\ x.series = run[r].row
      BY <1>1, MadeFilmIsRight DEF FilmNamed
    <2>2. run[r].row \in db.series \cup own[r].series \cup {None}
      BY <1>1, AtFilm
    <2> HIDE DEF x
    <2>3. Writes(r, o)
      BY <1>4, <2>1, InsertFilmWrites DEF ImportInv, TypeOK
    <2>4. Moves(r, "edition", run[r].todo, file, x, run[r].poisoned)
      BY <1>1, <1>4, <2>1, BridgingRun, GoOnMoves DEF RunState, Bridging
    <2>5. /\ o.series = own[r].series /\ o.films = own[r].films \cup {x}
          /\ o.editions = own[r].editions
          /\ o.media = own[r].media /\ o.candidates = own[r].candidates
      BY <1>1, BridgingRun DEF Rows
    <2>6. Sound(o, db)
      BY <1>1, <2>1, <2>2, <2>5, BridgingRun DEF Sound, RightFilm
    <2>7. x \in o.films
      BY <2>5
    <2>8. Reached(run'[r], o, db) /\ Done(run'[r], o)
      BY <1>1, <2>1, <2>4, <2>5, <2>7, BridgingRun
         DEF Reached, Done, Bridging, Moves, HasCandidate
    <2>9. RunInv(run'[r], own'[r], db)
      BY <2>3, <2>6, <2>8 DEF RunInv, Writes
    <2> QED BY <1>2, <2>3, <2>4, <2>9, OneRunSteps DEF Moves, Writes, ImportInv, TypeOK
  <1> QED BY <1>3, <1>4 DEF Film, FindOrCreate

LEMMA EditionKeeps ==
    ASSUME ImportInv, NEW r \in Runs, Edition(r) PROVE ImportInv'
  <1> DEFINE file == run[r].file
             found == {m \in Visible(r, "editions") : m.film = run[r].row /\ m.version = VersionOf[file]}
             x == [film |-> run[r].row, version |-> VersionOf[file], by |-> By(r)]
             o == [own[r] EXCEPT !.editions = @ \cup {x}]
  <1>1. run[r].pc = "edition" /\ run[r].pc \in Bridging
    BY DEF Edition, Bridging
  <1>2. UNCHANGED <<disk, db, overlap>> /\ faults' \in 0..MaxFaults
    BY <1>1, BridgingRun DEF Edition
  <1>3. CASE \E m \in found : GoOn(r, "path", m) /\ UNCHANGED own
    <2>1. PICK m \in found : GoOn(r, "path", m) /\ UNCHANGED own
      BY <1>3
    <2>2. /\ m \in EditionRow /\ m \in db.editions \cup own[r].editions
          /\ m.film = run[r].row /\ m.version = VersionOf[file]
      BY <2>1, VisibleRows DEF ImportInv
    <2>3. Moves(r, "path", run[r].todo, file, m, run[r].poisoned)
      BY <1>1, <2>1, <2>2, BridgingRun, GoOnMoves DEF RunState, Bridging
    <2>4. RightEdition(m, file)
      BY <1>1, <2>2, BridgingRun, VisibleRows DEF RightEdition, Reached, ImportInv
    <2>5. Reached(run'[r], own[r], db) /\ Done(run'[r], own[r])
      BY <1>1, <2>2, <2>3, <2>4, BridgingRun DEF Reached, Done, Bridging, Moves
    <2> QED BY <1>2, <2>1, <2>3, <2>5, RunMoves
  <1>4. CASE Insert(r, "editions", x) /\ GoOn(r, "path", x)
    <2>1. x \in EditionRow
      BY <1>1, BridgingRun, VisibleRows DEF EditionRow, Image, Reached, ImportInv
    <2>2. Writes(r, o)
      BY <1>4, <2>1, InsertEditionWrites DEF ImportInv, TypeOK
    <2>3. Moves(r, "path", run[r].todo, file, x, run[r].poisoned)
      BY <1>1, <1>4, <2>1, BridgingRun, GoOnMoves DEF RunState, Bridging
    <2>4. /\ o.series = own[r].series /\ o.films = own[r].films
          /\ o.editions = own[r].editions \cup {x}
          /\ o.media = own[r].media /\ o.candidates = own[r].candidates
      BY <1>1, BridgingRun DEF Rows
    <2>5. Sound(o, db)
      BY <1>1, <2>4, BridgingRun DEF Sound, Reached
    <2>6. RightEdition(x, file)
      BY <1>1, BridgingRun, VisibleRows DEF RightEdition, Reached, ImportInv
    <2>7. x \in o.editions
      BY <2>4
    <2>8. Reached(run'[r], o, db) /\ Done(run'[r], o)
      BY <1>1, <2>3, <2>4, <2>6, <2>7, BridgingRun
         DEF Reached, Done, Bridging, Moves, HasCandidate
    <2>9. RunInv(run'[r], own'[r], db)
      BY <2>2, <2>5, <2>8 DEF RunInv, Writes
    <2> QED BY <1>2, <2>2, <2>3, <2>9, OneRunSteps DEF Moves, Writes, ImportInv, TypeOK
  <1> QED BY <1>3, <1>4 DEF Edition, FindOrCreate

LEMMA CheckPathKeeps ==
    ASSUME ImportInv, NEW r \in Runs, CheckPath(r) PROVE ImportInv'
  <1>1. run[r].pc = "path" /\ run[r].pc \in Bridging
    BY DEF CheckPath, Bridging
  <1>2. UNCHANGED <<disk, db, own, overlap>> /\ faults' \in 0..MaxFaults
    BY <1>1, BridgingRun DEF CheckPath
  <1>3. CASE Loop(r, run[r].errors, run[r].skipped)
    <2>1. Moves(r, "next", run[r].todo, None, None, run[r].poisoned)
      BY <1>1, <1>3, BridgingRun, LoopMoves DEF Run
    <2>2. Reached(run'[r], own[r], db) /\ Done(run'[r], own[r])
      BY <1>1, <2>1, BridgingRun DEF Reached, Done, Bridging, Moves
    <2> QED BY <1>2, <2>1, <2>2, RunMoves
  <1>4. CASE Goto(r, "hash")
    <2>1. Moves(r, "hash", run[r].todo, run[r].file, run[r].row, run[r].poisoned)
      BY <1>1, <1>4, BridgingRun, GotoMoves DEF RunState, Bridging
    <2>2. Reached(run'[r], own[r], db) /\ Done(run'[r], own[r])
      BY <1>1, <2>1, BridgingRun DEF Reached, Done, Bridging, Moves
    <2> QED BY <1>2, <2>1, <2>2, RunMoves
  <1> QED BY <1>3, <1>4 DEF CheckPath

LEMMA CheckContentKeeps ==
    ASSUME ImportInv, NEW r \in Runs, CheckContent(r) PROVE ImportInv'
  <1> DEFINE f == run[r].file
             hash == IF f \in disk THEN ContentOf[f] ELSE None
             m == [file |-> f, edition |-> run[r].row, content |-> hash]
  <1>1. run[r].pc = "hash" /\ run[r].pc \in Bridging
    BY DEF CheckContent, Bridging
  <1>2. UNCHANGED <<disk, db, own, overlap>> /\ faults' \in 0..MaxFaults
    BY <1>1, BridgingRun DEF CheckContent
  <1>3. CASE Loop(r, run[r].errors, run[r].skipped \cup {f})
    <2>1. Moves(r, "next", run[r].todo, None, None, run[r].poisoned)
      BY <1>1, <1>3, BridgingRun, LoopMoves DEF Run
    <2>2. Reached(run'[r], own[r], db) /\ Done(run'[r], own[r])
      BY <1>1, <2>1, BridgingRun DEF Reached, Done, Bridging, Moves
    <2> QED BY <1>2, <2>1, <2>2, RunMoves
  <1>4. CASE GoOn(r, "insert", m)
    <2>1. m \in MediaRow
      BY <1>1, BridgingRun, VisibleRows DEF MediaRow, Image, Reached, ImportInv
    <2>2. Moves(r, "insert", run[r].todo, f, m, run[r].poisoned)
      BY <1>1, <1>4, <2>1, BridgingRun, GoOnMoves DEF RunState, Bridging
    <2>3. Reached(run'[r], own[r], db) /\ Done(run'[r], own[r])
      BY <1>1, <2>1, <2>2, BridgingRun DEF Reached, Done, Bridging, Moves
    <2> QED BY <1>2, <2>2, <2>3, RunMoves
  <1> QED BY <1>3, <1>4 DEF CheckContent

LEMMA HashRaisesKeeps ==
    ASSUME ImportInv, NEW r \in Runs, HashRaises(r) PROVE ImportInv'
  <1>1. run[r].pc = "hash" /\ run[r].pc \in Bridging
    BY DEF HashRaises, Bridging
  <1>2. UNCHANGED <<disk, db, own, overlap>> /\ faults' \in 0..MaxFaults
    BY FaultCounts DEF HashRaises, ImportInv
  <1>3. Moves(r, "next", run[r].todo, None, None, run[r].poisoned)
    BY <1>1, BridgingRun, LoopMoves DEF HashRaises, Run
  <1>4. Reached(run'[r], own[r], db) /\ Done(run'[r], own[r])
    BY <1>1, <1>3, BridgingRun DEF Reached, Done, Bridging, Moves
  <1> QED BY <1>2, <1>3, <1>4, RunMoves

LEMMA InsertMediaKeeps ==
    ASSUME ImportInv, NEW r \in Runs, InsertMedia(r) PROVE ImportInv'
  <1> DEFINE f == run[r].file
             mark(c) == IF c.file = f THEN [c EXCEPT !.status = "imported"] ELSE c
             marked == {mark(c) : c \in own[r].candidates}
             o == [own[r] EXCEPT !.media = @ \cup {run[r].row}, !.candidates = marked]
  <1>1. run[r].pc = "insert" /\ run[r].pc \in Bridging
    BY DEF InsertMedia, Bridging
  <1>2. own' = [own EXCEPT ![r] = o]
    BY Zenon DEF InsertMedia
  <1>3. /\ run[r].row \in MediaRow /\ run[r].row.file = f
        /\ run[r].row.edition \in db.editions \cup own[r].editions
        /\ RightEdition(run[r].row.edition, f)
    BY <1>1, BridgingRun DEF Reached
  <1>4. own[r].candidates \subseteq Candidate
    BY <1>1, BridgingRun DEF Rows
  <1>5. ASSUME NEW c \in Candidate
        PROVE  /\ mark(c) \in Candidate /\ mark(c).file = c.file
               /\ c.file = f => mark(c) = Imported(f)
               /\ c.file # f => mark(c) = c
    BY DEF Candidate, Imported
  <1>6. marked \subseteq Candidate
    BY <1>4, <1>5
  <1>7. o \in Rows /\ Writes(r, o)
    <2>1. o \in Rows
      BY <1>1, <1>3, <1>6, BridgingRun DEF Rows
    <2> QED BY <1>2, <2>1 DEF Writes, ImportInv, TypeOK
  <1>8. /\ o.series = own[r].series /\ o.films = own[r].films
        /\ o.editions = own[r].editions
        /\ o.media = own[r].media \cup {run[r].row} /\ o.candidates = marked
    BY <1>1, BridgingRun DEF Rows
  <1>9. Imported(f) \in marked
    <2>1. PICK c \in own[r].candidates : c.file = f
      BY <1>1, BridgingRun DEF HasCandidate
    <2> QED BY <2>1, <1>4, <1>5
  <1>10. ASSUME NEW g \in Files, g # f
         PROVE  Imported(g) \in marked <=> Imported(g) \in own[r].candidates
    <2>1. Imported(g) \in Candidate /\ Imported(g).file = g
      BY DEF Imported, Candidate
    <2>2. ASSUME Imported(g) \in marked PROVE Imported(g) \in own[r].candidates
      <3>1. PICK c \in own[r].candidates : mark(c) = Imported(g)
        BY <2>2
      <3> QED BY <3>1, <2>1, <1>4, <1>5, <1>10
    <2>3. ASSUME Imported(g) \in own[r].candidates PROVE Imported(g) \in marked
      BY <2>3, <2>1, <1>4, <1>5, <1>10
    <2> QED BY <2>2, <2>3
  <1>11. ASSUME NEW g \in Files
         PROVE  Indexed(o.media, g) <=> Indexed(own[r].media, g) \/ g = f
    BY <1>3, <1>8 DEF Indexed
  <1>12. Sound(o, db)
    <2>1. \A g \in Files : Indexed(o.media, g) <=> Imported(g) \in o.candidates
      BY <1>1, <1>8, <1>9, <1>10, <1>11, BridgingRun DEF Sound
    <2> QED BY <1>1, <1>3, <1>8, <2>1, BridgingRun DEF Sound
  <1>13. Moves(r, "next", run[r].todo, None, None, run[r].poisoned)
    BY <1>1, BridgingRun, LoopMoves DEF InsertMedia, Run
  <1>14. ASSUME NEW g \in run[r].todo PROVE HasCandidate(o, g)
    <2>1. PICK c \in own[r].candidates : c.file = g
      BY <1>1, BridgingRun DEF HasCandidate
    <2>2. mark(c) \in o.candidates /\ mark(c).file = g
      BY <2>1, <1>4, <1>5, <1>8
    <2> QED BY <2>2 DEF HasCandidate
  <1>15. RunInv(run'[r], own'[r], db)
    BY <1>1, <1>7, <1>12, <1>13, <1>14, BridgingRun
       DEF RunInv, Reached, Done, Bridging, Moves, Writes
  <1>16. UNCHANGED <<disk, db, overlap>> /\ faults' \in 0..MaxFaults
    BY <1>1, BridgingRun DEF InsertMedia
  <1> QED BY <1>7, <1>13, <1>15, <1>16, OneRunSteps DEF Moves, Writes, ImportInv, TypeOK

(* What a run holds is still right when others have committed more.        *)
LEMMA MoreRowsCommitted ==
    ASSUME NEW x, NEW o, NEW d, NEW e, RunInv(x, o, d),
           d.series \subseteq e.series, d.films \subseteq e.films,
           d.editions \subseteq e.editions
    PROVE  RunInv(x, o, e)
  <1>1. Sound(o, e)
    BY DEF RunInv, Sound
  <1>2. Reached(x, o, e)
    BY DEF RunInv, Reached
  <1> QED BY <1>1, <1>2 DEF RunInv

(* The rows of a run that are sound on top of the committed ones are       *)
(* sound with them.                                                        *)
LEMMA CommitKeeps ==
    ASSUME ImportInv, NEW r \in Runs, Commit(r) PROVE ImportInv'
  <1>1. /\ db \in Rows /\ own[r] \in Rows
        /\ Sound(db, db) /\ Sound(own[r], db)
    BY DEF ImportInv, TypeOK, RunInv
  <1>2. /\ db' \in Rows
        /\ db'.series = db.series \cup own[r].series
        /\ db'.films = db.films \cup own[r].films
        /\ db'.editions = db.editions \cup own[r].editions
        /\ db'.media = db.media \cup own[r].media
        /\ db'.candidates = db.candidates \cup own[r].candidates
    BY <1>1 DEF Commit, Rows
  <1>3. Writes(r, NoRows) /\ Moves(r, "idle", {}, None, None, FALSE)
    BY RollBackWrites, FinishMoves DEF Commit, ImportInv, TypeOK
  <1>4. TypeOK'
    BY <1>2, <1>3 DEF Commit, Writes, Moves, ImportInv, TypeOK
  <1>5. Sound(db, db)'
    <2>1. ASSUME NEW f \in Files
          PROVE  Indexed(db'.media, f) <=> Indexed(db.media, f) \/ Indexed(own[r].media, f)
      BY <1>2 DEF Indexed
    <2>2. \A f \in Files : Indexed(db'.media, f) <=> Imported(f) \in db'.candidates
      BY <1>1, <1>2, <2>1 DEF Sound
    <2> QED BY <1>1, <1>2, <2>2 DEF Sound
  <1>6. RunInv(run'[r], own'[r], db')
    BY <1>3, NothingIsSound DEF RunInv, Reached, Done, Bridging, Writes, Moves
  <1>7. ASSUME NEW s \in Runs \ {r} PROVE RunInv(run'[s], own'[s], db')
    BY <1>2, <1>3, MoreRowsCommitted DEF Writes, Moves, ImportInv
  <1> QED BY <1>4, <1>5, <1>6, <1>7 DEF ImportInv

-----------------------------------------------------------------------------
(* ImportInv is inductive.                                                 *)
LEMMA NextInv == ImportInv /\ [Next]_vars => ImportInv'
  <1> SUFFICES ASSUME ImportInv, [Next]_vars PROVE ImportInv'
    OBVIOUS
  <1>1. ASSUME NEW r \in Runs, Collect(r) PROVE ImportInv'
    BY <1>1, CollectKeeps
  <1>2. ASSUME NEW r \in Runs, RunStep(r) PROVE ImportInv'
    BY <1>2, QueryKeeps, ProbeKeeps, SkipProbeKeeps, TakeKeeps, LeaveKeeps,
       SeriesKeeps, FilmKeeps, EditionKeeps, CheckPathKeeps, CheckContentKeeps,
       InsertMediaKeeps, PathTakenKeeps, DeadlockedKeeps, CommitKeeps,
       CommitRefusedKeeps DEF RunStep
  <1>3. ASSUME NEW r \in Runs,
               HashRaises(r) \/ FlushFails(r) \/ RunFails(r) \/ Cancel(r)
        PROVE  ImportInv'
    BY <1>3, HashRaisesKeeps, FlushFailsKeeps, RunFailsKeeps, CancelKeeps
  <1>4. ASSUME NEW f \in Files, Arrive(f) \/ GoAway(f) PROVE ImportInv'
    BY <1>4, FilesComeAndGo
  <1>5. CASE Crash
    BY <1>5, CrashKeeps
  <1>6. CASE UNCHANGED vars
    BY <1>6 DEF vars, ImportInv, TypeOK
  <1> QED BY <1>1, <1>2, <1>3, <1>4, <1>5, <1>6 DEF Next

LEMMA ImportInvAlways == Spec => []ImportInv
  BY InitInv, NextInv, PTL DEF Spec

(* Every variable keeps its type, whatever runs, files and faults there    *)
(* are.                                                                    *)
THEOREM TypesCorrect == Spec => []TypeOK
  <1>1. ImportInv => TypeOK
    BY DEF ImportInv
  <1> QED BY <1>1, ImportInvAlways, PTL

(* No committed row refers to a row that was rolled back: scan.py and      *)
(* pipeline.py insert a series, a film, an edition and a media file in     *)
(* separate flushes.                                                       *)
THEOREM ReferencesAlwaysHold == Spec => []ReferencesHold
  <1>1. ImportInv => ReferencesHold
    BY DEF ImportInv, Sound, ReferencesHold
  <1> QED BY <1>1, ImportInvAlways, PTL

(* A candidate says imported exactly if a media file has its path: the     *)
(* two are written in two flushes of one transaction.                      *)
THEOREM ImportedIffIndexedCorrect == Spec => []ImportedIffIndexed
  <1>1. ImportInv => ImportedIffIndexed
    BY DEF ImportInv, Sound, ImportedIffIndexed, Imported
  <1> QED BY <1>1, ImportInvAlways, PTL

(* Only a commit changes what is committed.                                *)
LEMMA OnlyCommits ==
    ASSUME [Next]_vars, db' # db PROVE \E r \in Runs : Commit(r)
  <1>1. ASSUME NEW r \in Runs, RunStep(r), ~Commit(r) PROVE UNCHANGED db
    BY <1>1 DEF RunStep, Query, Probe, SkipProbe, Take, Leave, Series, Film, Edition,
       CheckPath, CheckContent, InsertMedia, PathTaken, Deadlocked, CommitRefused
  <1>2. ASSUME NEW r \in Runs, \/ Collect(r) \/ HashRaises(r) \/ FlushFails(r)
                               \/ RunFails(r) \/ Cancel(r)
        PROVE  UNCHANGED db
    BY <1>2 DEF Collect, HashRaises, FlushFails, RunFails, Cancel
  <1>3. CASE \/ Crash \/ UNCHANGED vars
             \/ \E f \in Files : Arrive(f) \/ GoAway(f)
    BY <1>3 DEF Crash, vars, Arrive, GoAway
  <1> QED BY <1>1, <1>2, <1>3 DEF Next

-----------------------------------------------------------------------------
(* No two of the rows o and d together stand for the same thing.           *)
Unique(o, d) ==
    /\ \A s, t \in d.series \cup o.series : s.show = t.show => s = t
    /\ \A m, n \in d.films \cup o.films :
         m.series = n.series /\ m.series # None /\ m.episode = n.episode => m = n
    /\ \A m, n \in d.films \cup o.films :
         m.series = None /\ n.series = None /\ m.title = n.title => m = n
    /\ \A e, g \in d.editions \cup o.editions :
         e.film = g.film /\ e.version = g.version => e = g
    /\ \A m, n \in d.media \cup o.media : m.file = n.file => m = n
    /\ \A m, n \in d.media \cup o.media :
         m.content = n.content /\ m.content # None => m = n

(* What run x looked up last is still so.                                  *)
Fresh(x, o, d) ==
    /\ x.pc \in {"hash", "insert"} => ~Indexed(d.media \cup o.media, x.file)
    /\ x.pc = "insert" /\ x.row.content # None =>
         \A m \in d.media \cup o.media : m.content # x.row.content

Busy(r) == run[r].pc # "idle"

SerialInv ==
    ~overlap =>
      /\ Unique(db, db)
      /\ \A r, s \in Runs : Busy(r) /\ Busy(s) => r = s
      /\ \A r \in Runs : Unique(own[r], db) /\ Fresh(run[r], own[r], db)

(* Nothing is twice in empty tables.                                       *)
LEMMA InitSerial == Init => SerialInv
  BY NothingInserted, IdleRun DEF Init, SerialInv, Unique, Fresh, Busy, NoRows

(* A step of a run in progress that commits nothing.                       *)
LEMMA BusyRunSteps ==
    ASSUME ImportInv, SerialInv, NEW r \in Runs, Busy(r), UNCHANGED <<db, overlap>>,
           \A s \in Runs \ {r} : run'[s] = run[s] /\ own'[s] = own[s],
           ~overlap => Unique(own'[r], db) /\ Fresh(run'[r], own'[r], db)
    PROVE  SerialInv'
  BY DEF SerialInv, Busy

(* A step of run r that inserts nothing, and after which nothing is about  *)
(* to be.                                                                  *)
Quiet(r) ==
    /\ Busy(r) /\ UNCHANGED <<db, overlap>>
    /\ \A s \in Runs \ {r} : run'[s] = run[s] /\ own'[s] = own[s]
    /\ run'[r].pc \notin {"hash", "insert"}
    /\ \/ own'[r] = NoRows
       \/ /\ own'[r].series = own[r].series /\ own'[r].films = own[r].films
          /\ own'[r].editions = own[r].editions /\ own'[r].media = own[r].media

LEMMA NothingLookedUp ==
    ASSUME ImportInv, SerialInv, NEW r \in Runs, Quiet(r)
    PROVE  SerialInv'
  <1>1. Fresh(run'[r], own'[r], db)
    BY DEF Fresh, Quiet
  <1>2. ~overlap => Unique(own'[r], db)
    BY DEF SerialInv, Unique, NoRows, Quiet
  <1> QED BY <1>1, <1>2, BusyRunSteps DEF Quiet

LEMMA EarlySteps ==
    ASSUME ImportInv, NEW r \in Runs,
           Query(r) \/ Probe(r) \/ SkipProbe(r) \/ Take(r) \/ Leave(r)
    PROVE  Quiet(r)
  <1>1. run \in [Runs -> Run] /\ own \in [Runs -> Rows] /\ run[r] \in Run /\ own[r] \in Rows
    BY DEF ImportInv, TypeOK
  <1>2. Busy(r) /\ UNCHANGED <<db, overlap>>
    BY DEF Busy, Query, Probe, SkipProbe, Take, Leave
  <1>3. CASE Query(r)
    <2>1. CASE Finish(r) /\ UNCHANGED own
      BY <1>1, <1>2, <2>1, FinishMoves DEF Quiet, Moves
    <2>2. CASE /\ own' = [own EXCEPT ![r].candidates =
                  {[file |-> f, status |-> "pending"] : f \in {f \in run[r].todo : ~Known(f)}}]
               /\ run' = [run EXCEPT ![r].pc = "probe",
                                     ![r].todo = {f \in run[r].todo : ~Known(f)}]
      <3> DEFINE new == {f \in run[r].todo : ~Known(f)}
      <3>1. run' = [run EXCEPT ![r] = [run[r] EXCEPT !.pc = "probe", !.todo = new]]
        BY Zenon, <2>2
      <3>2. run'[r].pc = "probe" /\ \A s \in Runs \ {r} : run'[s] = run[s]
        BY <1>1, <3>1 DEF Run
      <3> HIDE DEF new
      <3>3. /\ own'[r].series = own[r].series /\ own'[r].films = own[r].films
            /\ own'[r].editions = own[r].editions /\ own'[r].media = own[r].media
            /\ \A s \in Runs \ {r} : own'[s] = own[s]
        BY <1>1, <2>2 DEF Rows
      <3> QED BY <1>2, <3>2, <3>3 DEF Quiet
    <2> QED BY <1>3, <2>1, <2>2 DEF Query
  <1>4. CASE Probe(r)
    <2>1. PICK bad \in SUBSET run[r].todo :
            /\ own' = [own EXCEPT ![r].candidates =
                  {[file |-> f, status |-> IF f \in bad THEN "error" ELSE "probed"]
                     : f \in run[r].todo}]
            /\ run' = [run EXCEPT ![r].pc = "next", ![r].todo = @ \ bad]
      BY Zenon, <1>4 DEF Probe
    <2>2. run' = [run EXCEPT ![r] = [run[r] EXCEPT !.pc = "next", !.todo = run[r].todo \ bad]]
      BY Zenon, <2>1
    <2>3. run'[r].pc = "next" /\ \A s \in Runs \ {r} : run'[s] = run[s]
      BY <1>1, <2>2 DEF Run
    <2>4. /\ own'[r].series = own[r].series /\ own'[r].films = own[r].films
          /\ own'[r].editions = own[r].editions /\ own'[r].media = own[r].media
          /\ \A s \in Runs \ {r} : own'[s] = own[s]
      BY <1>1, <2>1 DEF Rows
    <2> QED BY <1>2, <2>3, <2>4 DEF Quiet
  <1>5. CASE SkipProbe(r)
    BY <1>1, <1>2, <1>5, GotoMoves DEF Quiet, SkipProbe, Moves, RunState
  <1>6. CASE Leave(r)
    BY <1>1, <1>2, <1>6, GotoMoves DEF Quiet, Leave, Moves, RunState
  <1>7. CASE Take(r)
    <2>1. PICK f \in run[r].todo :
         run' = [run EXCEPT ![r].todo = @ \ {f},
                            ![r].pc = IF run[r].poisoned THEN "next" ELSE "series",
                            ![r].file = IF run[r].poisoned THEN None ELSE f,
                            ![r].errors = IF run[r].poisoned THEN @ \cup {f} ELSE @]
      BY Zenon, <1>7 DEF Take
    <2> DEFINE y == [run[r] EXCEPT
                       !.todo = run[r].todo \ {f},
                       !.pc = IF run[r].poisoned THEN "next" ELSE "series",
                       !.file = IF run[r].poisoned THEN None ELSE f,
                       !.errors = IF run[r].poisoned THEN run[r].errors \cup {f}
                                  ELSE run[r].errors]
    <2>2. run' = [run EXCEPT ![r] = y]
      BY Zenon, <2>1
    <2>3. y.pc \in {"next", "series"}
      BY <1>1 DEF Run
    <2>4. run'[r].pc \in {"next", "series"} /\ \A s \in Runs \ {r} : run'[s] = run[s]
      BY <1>1, <2>2, <2>3
    <2> QED BY <1>2, <1>7, <2>4 DEF Quiet, Take
  <1> QED BY <1>3, <1>4, <1>5, <1>6, <1>7

LEMMA FailingSteps ==
    ASSUME ImportInv, NEW r \in Runs,
           \/ PathTaken(r) \/ Deadlocked(r) \/ FlushFails(r)
           \/ RunFails(r) \/ CommitRefused(r) \/ HashRaises(r)
    PROVE  Quiet(r)
  <1>1. run \in [Runs -> Run] /\ own \in [Runs -> Rows]
    BY DEF ImportInv, TypeOK
  <1>2. Busy(r) /\ UNCHANGED <<db, overlap>>
    BY DEF Busy, Bridging, PathTaken, Deadlocked, WaitsFor, FlushFails, RunFails,
           CommitRefused, HashRaises
  <1>3. CASE PathTaken(r) \/ Deadlocked(r) \/ FlushFails(r)
    <2>1. run[r].pc \in Bridging /\ Poison(r)
      BY <1>3 DEF PathTaken, Deadlocked, WaitsFor, FlushFails, Bridging
    <2>2. Moves(r, "next", run[r].todo, None, None, TRUE) /\ Writes(r, NoRows)
      BY <1>1, <2>1, BridgingRun, PoisonMoves, RollBackWrites DEF Poison
    <2> QED BY <1>2, <2>2 DEF Quiet, Moves, Writes
  <1>4. CASE RunFails(r)
    <2>1. Moves(r, "idle", {}, None, None, FALSE) /\ Writes(r, NoRows)
      BY <1>1, <1>4, FinishMoves, RollBackWrites DEF RunFails
    <2> QED BY <1>2, <2>1 DEF Quiet, Moves, Writes
  <1>5. CASE CommitRefused(r)
    <2>1. Moves(r, "idle", {}, None, None, FALSE)
      BY <1>1, <1>5, FinishMoves DEF CommitRefused
    <2> QED BY <1>2, <1>5, <2>1 DEF Quiet, CommitRefused, Moves
  <1>6. CASE HashRaises(r)
    <2>1. Moves(r, "next", run[r].todo, None, None, run[r].poisoned)
      BY <1>6, BridgingRun, LoopMoves DEF HashRaises, Bridging, Run
    <2> QED BY <1>2, <1>6, <2>1 DEF Quiet, HashRaises, Moves
  <1> QED BY <1>3, <1>4, <1>5, <1>6

(* Each action keeps SerialInv.                                            *)
LEMMA SeriesSerial ==
    ASSUME ImportInv, SerialInv, NEW r \in Runs, Series(r) PROVE SerialInv'
  <1> DEFINE file == run[r].file
             x == [show |-> ShowOf[file], by |-> By(r)]
             found == {m \in Visible(r, "series") : m.show = ShowOf[file]}
  <1>1. run[r].pc \in Bridging /\ Busy(r) /\ UNCHANGED <<db, overlap>>
    BY DEF Series, Bridging, Busy
  <1>2. Visible(r, "series") = db.series \cup own[r].series
    BY VisibleRows DEF ImportInv
  <1>3. CASE ShowOf[file] = NoShow
    <2>1. Moves(r, "film", run[r].todo, file, None, run[r].poisoned)
      BY <1>1, <1>3, BridgingRun, GoOnMoves DEF Series, RunState, Bridging
    <2> QED BY <1>1, <1>3, <2>1, NothingLookedUp DEF Series, Moves, Quiet
  <1>4. CASE ShowOf[file] # NoShow /\ \E m \in found : GoOn(r, "film", m) /\ UNCHANGED own
    <2>1. PICK m \in found : GoOn(r, "film", m) /\ UNCHANGED own
      BY <1>4
    <2>2. m \in SeriesRow \cup FilmRow \cup EditionRow \cup MediaRow
      BY <1>2, VisibleRows DEF ImportInv
    <2>3. Moves(r, "film", run[r].todo, file, m, run[r].poisoned)
      BY <1>1, <2>1, <2>2, BridgingRun, GoOnMoves DEF RunState, Bridging
    <2> QED BY <1>1, <2>1, <2>3, NothingLookedUp DEF Moves, Quiet
  <1>5. CASE ShowOf[file] # NoShow /\ found = {} /\ Insert(r, "series", x) /\ GoOn(r, "film", x)
    <2>1. x \in SeriesRow
      BY <1>1, BridgingRun, VisibleRows DEF SeriesRow, Image, Reached, ImportInv
    <2>2. Writes(r, [own[r] EXCEPT !.series = @ \cup {x}])
      BY <1>5, <2>1, InsertSeriesWrites DEF ImportInv, TypeOK
    <2>3. Moves(r, "film", run[r].todo, file, x, run[r].poisoned)
      BY <1>1, <1>5, <2>1, BridgingRun, GoOnMoves DEF RunState, Bridging
    <2>4. /\ own'[r].series = own[r].series \cup {x}
          /\ own'[r].films = own[r].films
          /\ own'[r].editions = own[r].editions
          /\ own'[r].media = own[r].media
      BY <1>1, <2>2, BridgingRun DEF Writes, Rows
    <2>5. \A m \in db.series \cup own[r].series : ~(m.show = ShowOf[file])
      BY <1>2, <1>5
    <2>6. ~overlap => Unique(own'[r], db)
      BY <2>4, <2>5 DEF SerialInv, Unique
    <2>7. Fresh(run'[r], own'[r], db)
      BY <2>3 DEF Fresh, Moves
    <2> QED BY <1>1, <2>2, <2>3, <2>6, <2>7, BusyRunSteps DEF Moves, Writes
  <1> QED BY <1>3, <1>4, <1>5 DEF Series, FindOrCreate

LEMMA FilmSerial ==
    ASSUME ImportInv, SerialInv, NEW r \in Runs, Film(r) PROVE SerialInv'
  <1> DEFINE file == run[r].file
             x == FilmNamed(file, run[r].row, By(r))
             found == {m \in Visible(r, "films") : IsFilmOf(m, run[r].row, file)}
  <1>1. run[r].pc = "film" /\ run[r].pc \in Bridging /\ Busy(r) /\ UNCHANGED <<db, overlap>>
    BY DEF Film, Bridging, Busy
  <1>2. Visible(r, "films") = db.films \cup own[r].films
    BY VisibleRows DEF ImportInv
  <1>4. CASE \E m \in found : GoOn(r, "edition", m) /\ UNCHANGED own
    <2>1. PICK m \in found : GoOn(r, "edition", m) /\ UNCHANGED own
      BY <1>4
    <2>2. m \in SeriesRow \cup FilmRow \cup EditionRow \cup MediaRow
      BY <1>2, VisibleRows DEF ImportInv
    <2>3. Moves(r, "edition", run[r].todo, file, m, run[r].poisoned)
      BY <1>1, <2>1, <2>2, BridgingRun, GoOnMoves DEF RunState, Bridging
    <2> QED BY <1>1, <2>1, <2>3, NothingLookedUp DEF Moves, Quiet
  <1>5. CASE found = {} /\ Insert(r, "films", x) /\ GoOn(r, "edition", x)
    <2>1. /\ x \in FilmRow /\ x.series = run[r].row
          /\ x.title = TitleOf[file] /\ x.episode = EpisodeOf[file]
      BY <1>1, MadeFilmIsRight DEF FilmNamed
    <2> HIDE DEF x
    <2>2. Writes(r, [own[r] EXCEPT !.films = @ \cup {x}])
      BY <1>5, <2>1, InsertFilmWrites DEF ImportInv, TypeOK
    <2>3. Moves(r, "edition", run[r].todo, file, x, run[r].poisoned)
      BY <1>1, <1>5, <2>1, BridgingRun, GoOnMoves DEF RunState, Bridging
    <2>4. /\ own'[r].series = own[r].series
          /\ own'[r].films = own[r].films \cup {x}
          /\ own'[r].editions = own[r].editions
          /\ own'[r].media = own[r].media
      BY <1>1, <2>2, BridgingRun DEF Writes, Rows
    <2>5. \A m \in db.films \cup own[r].films : ~IsFilmOf(m, run[r].row, file)
      BY <1>2, <1>5
    <2>6. ~overlap => Unique(own'[r], db)
      BY <2>1, <2>4, <2>5 DEF SerialInv, Unique, IsFilmOf
    <2>7. Fresh(run'[r], own'[r], db)
      BY <2>3 DEF Fresh, Moves
    <2> QED BY <1>1, <2>2, <2>3, <2>6, <2>7, BusyRunSteps DEF Moves, Writes
  <1> QED BY <1>4, <1>5 DEF Film, FindOrCreate

LEMMA EditionSerial ==
    ASSUME ImportInv, SerialInv, NEW r \in Runs, Edition(r) PROVE SerialInv'
  <1> DEFINE file == run[r].file
             x == [film |-> run[r].row, version |-> VersionOf[file], by |-> By(r)]
             found == {m \in Visible(r, "editions") : m.film = run[r].row /\ m.version = VersionOf[file]}
  <1>1. run[r].pc \in Bridging /\ Busy(r) /\ UNCHANGED <<db, overlap>>
    BY DEF Edition, Bridging, Busy
  <1>2. Visible(r, "editions") = db.editions \cup own[r].editions
    BY VisibleRows DEF ImportInv
  <1>4. CASE \E m \in found : GoOn(r, "path", m) /\ UNCHANGED own
    <2>1. PICK m \in found : GoOn(r, "path", m) /\ UNCHANGED own
      BY <1>4
    <2>2. m \in SeriesRow \cup FilmRow \cup EditionRow \cup MediaRow
      BY <1>2, VisibleRows DEF ImportInv
    <2>3. Moves(r, "path", run[r].todo, file, m, run[r].poisoned)
      BY <1>1, <2>1, <2>2, BridgingRun, GoOnMoves DEF RunState, Bridging
    <2> QED BY <1>1, <2>1, <2>3, NothingLookedUp DEF Moves, Quiet
  <1>5. CASE found = {} /\ Insert(r, "editions", x) /\ GoOn(r, "path", x)
    <2>1. x \in EditionRow
      BY <1>1, BridgingRun, VisibleRows DEF Edition, EditionRow, Image, Reached, ImportInv
    <2>2. Writes(r, [own[r] EXCEPT !.editions = @ \cup {x}])
      BY <1>5, <2>1, InsertEditionWrites DEF ImportInv, TypeOK
    <2>3. Moves(r, "path", run[r].todo, file, x, run[r].poisoned)
      BY <1>1, <1>5, <2>1, BridgingRun, GoOnMoves DEF RunState, Bridging
    <2>4. /\ own'[r].series = own[r].series
          /\ own'[r].films = own[r].films
          /\ own'[r].editions = own[r].editions \cup {x}
          /\ own'[r].media = own[r].media
      BY <1>1, <2>2, BridgingRun DEF Writes, Rows
    <2>5. \A m \in db.editions \cup own[r].editions : ~(m.film = run[r].row /\ m.version = VersionOf[file])
      BY <1>2, <1>5
    <2>6. ~overlap => Unique(own'[r], db)
      BY <2>4, <2>5 DEF SerialInv, Unique
    <2>7. Fresh(run'[r], own'[r], db)
      BY <2>3 DEF Fresh, Moves
    <2> QED BY <1>1, <2>2, <2>3, <2>6, <2>7, BusyRunSteps DEF Moves, Writes
  <1> QED BY <1>4, <1>5 DEF Edition, FindOrCreate

LEMMA CheckPathSerial ==
    ASSUME ImportInv, SerialInv, NEW r \in Runs, CheckPath(r) PROVE SerialInv'
  <1>1. run[r].pc \in Bridging /\ Busy(r) /\ UNCHANGED <<db, own, overlap>>
    BY DEF CheckPath, Bridging, Busy
  <1>2. CASE Loop(r, run[r].errors, run[r].skipped)
    <2>1. Moves(r, "next", run[r].todo, None, None, run[r].poisoned)
      BY <1>1, <1>2, BridgingRun, LoopMoves DEF Run
    <2> QED BY <1>1, <2>1, NothingLookedUp DEF Moves, Quiet
  <1>3. CASE ~Indexed(Visible(r, "media"), run[r].file) /\ Goto(r, "hash")
    <2>1. Moves(r, "hash", run[r].todo, run[r].file, run[r].row, run[r].poisoned)
      BY <1>1, <1>3, BridgingRun, GotoMoves DEF RunState, Bridging
    <2>2. ~Indexed(db.media \cup own[r].media, run[r].file)
      BY <1>3, VisibleRows DEF ImportInv
    <2>3. Fresh(run'[r], own[r], db)
      BY <2>1, <2>2 DEF Fresh, Moves
    <2> QED BY <1>1, <2>1, <2>3, BusyRunSteps DEF Moves, SerialInv
  <1> QED BY <1>2, <1>3 DEF CheckPath

LEMMA CheckContentSerial ==
    ASSUME ImportInv, SerialInv, NEW r \in Runs, CheckContent(r) PROVE SerialInv'
  <1> DEFINE f == run[r].file
             hash == IF f \in disk THEN ContentOf[f] ELSE None
             m == [file |-> f, edition |-> run[r].row, content |-> hash]
  <1>1. /\ run[r].pc = "hash" /\ run[r].pc \in Bridging /\ Busy(r)
        /\ UNCHANGED <<db, own, overlap>>
    BY DEF CheckContent, Bridging, Busy
  <1>2. CASE Loop(r, run[r].errors, run[r].skipped \cup {f})
    <2>1. Moves(r, "next", run[r].todo, None, None, run[r].poisoned)
      BY <1>1, <1>2, BridgingRun, LoopMoves DEF Run
    <2> QED BY <1>1, <2>1, NothingLookedUp DEF Moves, Quiet
  <1>3. CASE /\ ~(f \in disk /\ \E n \in Visible(r, "media") : n.content = hash)
             /\ GoOn(r, "insert", m)
    <2>1. m \in MediaRow
      BY <1>1, BridgingRun, VisibleRows DEF MediaRow, Image, Reached, ImportInv
    <2>2. Moves(r, "insert", run[r].todo, f, m, run[r].poisoned)
      BY <1>1, <1>3, <2>1, BridgingRun, GoOnMoves DEF RunState, Bridging
    <2>3. hash # None => \A n \in db.media \cup own[r].media : n.content # hash
      BY <1>3, VisibleRows DEF ImportInv
    <2>4. ~overlap => Fresh(run'[r], own[r], db)
      BY <1>1, <2>2, <2>3 DEF Fresh, Moves, SerialInv
    <2> QED BY <1>1, <2>2, <2>4, BusyRunSteps DEF Moves, SerialInv
  <1> QED BY <1>2, <1>3 DEF CheckContent

LEMMA InsertMediaSerial ==
    ASSUME ImportInv, SerialInv, NEW r \in Runs, InsertMedia(r) PROVE SerialInv'
  <1>1. /\ run[r].pc = "insert" /\ run[r].pc \in Bridging /\ Busy(r)
        /\ UNCHANGED <<db, overlap>>
    BY DEF InsertMedia, Bridging, Busy
  <1>2. Moves(r, "next", run[r].todo, None, None, run[r].poisoned)
    BY <1>1, BridgingRun, LoopMoves DEF InsertMedia, Run
  <1> DEFINE x == run[r].row
             marked == {IF c.file = run[r].file THEN [c EXCEPT !.status = "imported"]
                                               ELSE c : c \in own[r].candidates}
             o == [own[r] EXCEPT !.media = @ \cup {x}, !.candidates = marked]
  <1>3. own' = [own EXCEPT ![r] = o]
    BY Zenon DEF InsertMedia
  <1>4. own'[r] = o /\ \A s \in Runs \ {r} : own'[s] = own[s]
    BY <1>3 DEF ImportInv, TypeOK
  <1>5. x.file = run[r].file
    BY <1>1, BridgingRun DEF Reached
  <1> HIDE DEF marked
  <1>6. /\ o.series = own[r].series /\ o.films = own[r].films
        /\ o.editions = own[r].editions /\ o.media = own[r].media \cup {x}
    BY <1>1, BridgingRun DEF Rows
  <1>7. ASSUME ~overlap PROVE Unique(o, db)
    <2>1. Unique(own[r], db) /\ Fresh(run[r], own[r], db)
      BY <1>7 DEF SerialInv
    <2>2. \A m \in db.media \cup own[r].media :
            /\ m.file # x.file
            /\ x.content # None => m.content # x.content
      BY <1>1, <1>5, <2>1 DEF Fresh, Indexed
    <2> QED BY <1>6, <2>1, <2>2 DEF Unique
  <1>8. Fresh(run'[r], own'[r], db)
    BY <1>2 DEF Fresh, Moves
  <1> QED BY <1>1, <1>2, <1>4, <1>7, <1>8, BusyRunSteps DEF Moves

LEMMA CancelSerial ==
    ASSUME ImportInv, SerialInv, NEW r \in Runs, Cancel(r) PROVE SerialInv'
  <1> DEFINE y == [run[r] EXCEPT !.stop = TRUE]
  <1>1. y.pc = run[r].pc /\ y.file = run[r].file /\ y.row = run[r].row
    BY DEF ImportInv, TypeOK, Run
  <1>2. run'[r] = y /\ \A s \in Runs \ {r} : run'[s] = run[s]
    BY DEF Cancel, ImportInv, TypeOK
  <1>3. ~overlap => Unique(own[r], db) /\ Fresh(y, own[r], db)
    BY <1>1 DEF SerialInv, Fresh
  <1> QED BY <1>2, <1>3, BusyRunSteps DEF Cancel, Busy

LEMMA CommitSerial ==
    ASSUME ImportInv, SerialInv, NEW r \in Runs, Commit(r) PROVE SerialInv'
  <1> SUFFICES ASSUME ~overlap' PROVE SerialInv'
    BY DEF SerialInv
  <1>1. ~overlap /\ Busy(r)
    BY DEF Commit, Busy
  <1>2. /\ db'.series = db.series \cup own[r].series
        /\ db'.films = db.films \cup own[r].films
        /\ db'.editions = db.editions \cup own[r].editions
        /\ db'.media = db.media \cup own[r].media
    BY DEF Commit, Rows, ImportInv, TypeOK
  <1>3. Writes(r, NoRows) /\ Moves(r, "idle", {}, None, None, FALSE)
    BY RollBackWrites, FinishMoves DEF Commit, ImportInv, TypeOK
  <1>4. Unique(db, db)'
    <2>1. Unique(own[r], db)
      BY <1>1 DEF SerialInv
    <2> QED BY <1>2, <2>1 DEF Unique
  <1>5. Unique(NoRows, db')
    BY <1>4 DEF Unique, NoRows
  <1>6. ASSUME NEW s \in Runs PROVE run'[s].pc = "idle" /\ own'[s] = NoRows
    <2>1. CASE s = r
      BY <1>3, <2>1 DEF Writes, Moves
    <2>2. CASE s # r
      <3>1. ~Busy(s)
        BY <1>1, <2>2 DEF SerialInv
      <3>2. own[s] = NoRows
        BY <3>1 DEF Busy, ImportInv, RunInv, Done
      <3> QED BY <1>3, <2>2, <3>1, <3>2 DEF Busy, Writes, Moves
    <2> QED BY <2>1, <2>2
  <1> QED BY <1>4, <1>5, <1>6 DEF SerialInv, Busy, Fresh

LEMMA CollectSerial ==
    ASSUME ImportInv, SerialInv, NEW r \in Runs, Collect(r) PROVE SerialInv'
  <1> SUFFICES ASSUME ~overlap' PROVE SerialInv'
    BY DEF SerialInv
  <1>1. ~overlap /\ (\A s \in Runs : ~Busy(s)) /\ UNCHANGED <<db, own>>
    BY DEF Collect, Busy
  <1> DEFINE y == [Idle EXCEPT !.pc = "query", !.todo = disk]
  <1>2. y.pc = "query"
    BY DEF Idle
  <1>3. run'[r] = y /\ \A s \in Runs \ {r} : run'[s] = run[s]
    BY DEF Collect, ImportInv, TypeOK
  <1>4. Fresh(y, own[r], db)
    BY <1>2 DEF Fresh
  <1> QED BY <1>1, <1>3, <1>4 DEF SerialInv, Busy

LEMMA CrashSerial ==
    ASSUME SerialInv, Crash PROVE SerialInv'
  <1>1. \A r \in Runs : run'[r].pc = "idle" /\ own'[r] = NoRows
    BY IdleRun DEF Crash
  <1>2. Unique(db, db) => Unique(NoRows, db)
    BY DEF Unique, NoRows
  <1> QED BY <1>1, <1>2 DEF Crash, SerialInv, Busy, Fresh

(* SerialInv is inductive, given ImportInv.                                *)
LEMMA NextSerial == ImportInv /\ SerialInv /\ [Next]_vars => SerialInv'
  <1> SUFFICES ASSUME ImportInv, SerialInv, [Next]_vars PROVE SerialInv'
    OBVIOUS
  <1>1. ASSUME NEW r \in Runs, Collect(r) PROVE SerialInv'
    BY <1>1, CollectSerial
  <1>2. ASSUME NEW r \in Runs, RunStep(r) PROVE SerialInv'
    BY <1>2, EarlySteps, FailingSteps, NothingLookedUp, SeriesSerial, FilmSerial,
       EditionSerial, CheckPathSerial, CheckContentSerial, InsertMediaSerial, CommitSerial
       DEF RunStep
  <1>3. ASSUME NEW r \in Runs,
               HashRaises(r) \/ FlushFails(r) \/ RunFails(r) \/ Cancel(r)
        PROVE  SerialInv'
    BY <1>3, FailingSteps, NothingLookedUp, CancelSerial
  <1>4. ASSUME NEW f \in Files, Arrive(f) \/ GoAway(f) PROVE SerialInv'
    BY <1>4 DEF Arrive, GoAway, SerialInv, Busy
  <1>5. CASE Crash
    BY <1>5, CrashSerial
  <1>6. CASE UNCHANGED vars
    BY <1>6 DEF vars, SerialInv, Busy
  <1> QED BY <1>1, <1>2, <1>3, <1>4, <1>5, <1>6 DEF Next

(* Repeated runs make no duplicates as long as no two overlap              *)
(* (README.md:84), whatever fails and however files come and go.           *)
THEOREM SerialRunsCorrect == Spec => []SerialRunsMakeNoDuplicates
  <1>1. SerialInv => SerialRunsMakeNoDuplicates
    BY DEF SerialInv, Unique, SerialRunsMakeNoDuplicates, NoDuplicates
  <1> QED BY <1>1, ImportInvAlways, InitSerial, NextSerial, PTL DEF Spec

-----------------------------------------------------------------------------
(* What becomes of a candidate that run x inserted and did not import: it  *)
(* is still to do, at hand, reported, or indexed by now.                   *)
Accounted(x, o, d) ==
    /\ ~x.poisoned =>
         \A c \in o.candidates :
           c.status \in {"pending", "probed"} =>
             \/ c.file \in x.todo
             \/ x.stop
             \/ x.pc \in Bridging /\ c.file = x.file
             \/ c.file \in x.errors \cup x.skipped
             \/ Indexed(d.media \cup o.media, c.file)
    /\ x.pc = "commit" => x.stop \/ x.todo = {}

AccountInv == \A r \in Runs : Accounted(run[r], own[r], db)

(* The report and the cancellation of run r after its step.                *)
Reports(r, stop, errors, skipped) ==
    /\ run'[r].stop = stop
    /\ run'[r].errors = errors
    /\ run'[r].skipped = skipped

(* What the helpers make of the report of a run.                           *)
LEMMA GotoReports ==
    ASSUME run \in [Runs -> Run], NEW r \in Runs, NEW pc, Goto(r, pc)
    PROVE  Reports(r, run[r].stop, run[r].errors, run[r].skipped)
  BY DEF Goto, Reports, Run

LEMMA GoOnReports ==
    ASSUME run \in [Runs -> Run], NEW r \in Runs, NEW pc, NEW row, GoOn(r, pc, row)
    PROVE  Reports(r, run[r].stop, run[r].errors, run[r].skipped)
  <1>1. run' = [run EXCEPT ![r] = [run[r] EXCEPT !.pc = pc, !.row = row]]
    BY Zenon DEF GoOn
  <1> QED BY <1>1 DEF Reports, Run

LEMMA LoopReports ==
    ASSUME run \in [Runs -> Run], NEW r \in Runs, NEW errors, NEW skipped,
           Loop(r, errors, skipped)
    PROVE  Reports(r, run[r].stop, errors, skipped)
  <1>1. run' = [run EXCEPT ![r] = [run[r] EXCEPT !.pc = "next", !.file = None, !.row = None,
                                                 !.errors = errors, !.skipped = skipped]]
    BY Zenon DEF Loop
  <1> QED BY <1>1 DEF Reports, Run

(* No run has anything to account for at first.                            *)
LEMMA InitAccounted == Init => AccountInv
  BY IdleRun, NothingInserted DEF Init, AccountInv, Accounted

(* A step of one run that commits nothing.                                 *)
LEMMA AccountSteps ==
    ASSUME ImportInv, AccountInv, NEW r \in Runs, UNCHANGED db,
           \A s \in Runs \ {r} : run'[s] = run[s] /\ own'[s] = own[s],
           Accounted(run'[r], own'[r], db)
    PROVE  AccountInv'
  BY DEF AccountInv

(* A run without rows, or with a session that refuses them.                *)
LEMMA NothingToAccount ==
    ASSUME NEW x, NEW o, NEW d, x.poisoned = TRUE \/ o.candidates = {}, x.pc # "commit"
    PROVE  Accounted(x, o, d)
  BY DEF Accounted

(* Each action keeps AccountInv.                                           *)
LEMMA EarlyAccounts ==
    ASSUME ImportInv, AccountInv, NEW r \in Runs,
           Collect(r) \/ Query(r) \/ Probe(r)
    PROVE  AccountInv'
  <1>1. run \in [Runs -> Run] /\ own \in [Runs -> Rows] /\ run[r] \in Run /\ own[r] \in Rows
    BY DEF ImportInv, TypeOK
  <1>2. Collect(r) \/ Query(r) => own[r] = NoRows /\ own[r].candidates = {}
    BY NothingInserted DEF ImportInv, RunInv, Done, Collect, Query
  <1>3. CASE Collect(r)
    <2> DEFINE y == [Idle EXCEPT !.pc = "query", !.todo = disk]
    <2>1. y.pc = "query"
      BY DEF Idle
    <2>2. run'[r] = y /\ own' = own /\ db' = db /\ \A s \in Runs \ {r} : run'[s] = run[s]
      BY <1>1, <1>3 DEF Collect
    <2>3. Accounted(y, own[r], db)
      BY <1>2, <1>3, <2>1, NothingToAccount
    <2> QED BY <2>2, <2>3, AccountSteps
  <1>4. CASE Query(r)
    <2> DEFINE new == {f \in run[r].todo : ~Known(f)}
               pending == {[file |-> f, status |-> "pending"] : f \in new}
    <2>1. CASE Finish(r) /\ UNCHANGED own
      <3>1. Moves(r, "idle", {}, None, None, FALSE)
        BY <1>1, <2>1, FinishMoves
      <3> QED BY <1>2, <1>4, <2>1, <3>1, NothingToAccount, AccountSteps DEF Moves, Query
    <2>2. CASE /\ own' = [own EXCEPT ![r].candidates = pending]
               /\ run' = [run EXCEPT ![r].pc = "probe", ![r].todo = new]
      <3>1. run' = [run EXCEPT ![r] = [run[r] EXCEPT !.pc = "probe", !.todo = new]]
        BY Zenon, <2>2
      <3>2. /\ run'[r].pc = "probe" /\ run'[r].todo = new
            /\ \A s \in Runs \ {r} : run'[s] = run[s]
        BY <1>1, <3>1 DEF Run
      <3>3. own'[r].candidates = pending /\ \A s \in Runs \ {r} : own'[s] = own[s]
        BY <1>1, <2>2 DEF Rows
      <3>4. \A c \in pending : c.file \in new
        OBVIOUS
      <3>5. Accounted(run'[r], own'[r], db)
        BY <3>2, <3>3, <3>4 DEF Accounted
      <3> QED BY <1>4, <3>2, <3>3, <3>5, AccountSteps DEF Query
    <2> QED BY <1>4, <2>1, <2>2 DEF Query
  <1>5. CASE Probe(r)
    <2>1. PICK bad \in SUBSET run[r].todo :
            /\ own' = [own EXCEPT ![r].candidates =
                  {[file |-> f, status |-> IF f \in bad THEN "error" ELSE "probed"]
                     : f \in run[r].todo}]
            /\ run' = [run EXCEPT ![r].pc = "next", ![r].todo = @ \ bad]
      BY Zenon, <1>5 DEF Probe
    <2> DEFINE rated == {[file |-> f, status |-> IF f \in bad THEN "error" ELSE "probed"]
                           : f \in run[r].todo}
    <2>2. run' = [run EXCEPT ![r] = [run[r] EXCEPT !.pc = "next", !.todo = run[r].todo \ bad]]
      BY Zenon, <2>1
    <2>3. /\ run'[r].pc = "next" /\ run'[r].todo = run[r].todo \ bad
          /\ \A s \in Runs \ {r} : run'[s] = run[s]
      BY <1>1, <2>2 DEF Run
    <2>4. own'[r].candidates = rated /\ \A s \in Runs \ {r} : own'[s] = own[s]
      BY <1>1, <2>1 DEF Rows
    <2>5. \A c \in rated : c.status \in {"pending", "probed"} => c.file \in run[r].todo \ bad
      OBVIOUS
    <2>6. Accounted(run'[r], own'[r], db)
      BY <2>3, <2>4, <2>5 DEF Accounted
    <2> QED BY <1>5, <2>3, <2>4, <2>6, AccountSteps DEF Probe
  <1> QED BY <1>3, <1>4, <1>5

LEMMA LoopAccounts ==
    ASSUME ImportInv, AccountInv, NEW r \in Runs, SkipProbe(r) \/ Leave(r) \/ Take(r)
    PROVE  AccountInv'
  <1>1. run \in [Runs -> Run] /\ run[r] \in Run /\ Accounted(run[r], own[r], db)
    BY DEF ImportInv, TypeOK, AccountInv
  <1>2. CASE SkipProbe(r)
    <2>1. Moves(r, "next", run[r].todo, run[r].file, run[r].row, run[r].poisoned)
      BY <1>1, <1>2, GotoMoves DEF SkipProbe, RunState
    <2>2. Reports(r, run[r].stop, run[r].errors, run[r].skipped)
      BY <1>1, <1>2, GotoReports DEF SkipProbe
    <2>3. Accounted(run'[r], own[r], db)
      BY <1>1, <1>2, <2>1, <2>2 DEF Accounted, Moves, Reports, SkipProbe, Bridging
    <2> QED BY <1>2, <2>1, <2>3, AccountSteps DEF SkipProbe, Moves
  <1>3. CASE Leave(r)
    <2>1. Moves(r, "commit", run[r].todo, run[r].file, run[r].row, run[r].poisoned)
      BY <1>1, <1>3, GotoMoves DEF Leave, RunState
    <2>2. Reports(r, run[r].stop, run[r].errors, run[r].skipped)
      BY <1>1, <1>3, GotoReports DEF Leave
    <2>3. Accounted(run'[r], own[r], db)
      BY <1>1, <1>3, <2>1, <2>2 DEF Accounted, Moves, Reports, Leave, Bridging
    <2> QED BY <1>3, <2>1, <2>3, AccountSteps DEF Leave, Moves
  <1>4. CASE Take(r)
    <2>1. PICK f \in run[r].todo :
         run' = [run EXCEPT ![r].todo = @ \ {f},
                            ![r].pc = IF run[r].poisoned THEN "next" ELSE "series",
                            ![r].file = IF run[r].poisoned THEN None ELSE f,
                            ![r].errors = IF run[r].poisoned THEN @ \cup {f} ELSE @]
      BY Zenon, <1>4 DEF Take
    <2> DEFINE y == [run[r] EXCEPT
                       !.todo = run[r].todo \ {f},
                       !.pc = IF run[r].poisoned THEN "next" ELSE "series",
                       !.file = IF run[r].poisoned THEN None ELSE f,
                       !.errors = IF run[r].poisoned THEN run[r].errors \cup {f}
                                  ELSE run[r].errors]
    <2>2. run' = [run EXCEPT ![r] = y]
      BY Zenon, <2>1
    <2>3. /\ y.todo = run[r].todo \ {f} /\ y.poisoned = run[r].poisoned
          /\ y.stop = run[r].stop /\ y.skipped = run[r].skipped
          /\ run[r].poisoned => y.pc = "next"
          /\ ~run[r].poisoned => /\ y.pc = "series" /\ y.file = f
                                 /\ y.errors = run[r].errors
      BY <1>1 DEF Run
    <2>4. run'[r] = y /\ \A s \in Runs \ {r} : run'[s] = run[s]
      BY <1>1, <2>2
    <2>5. Accounted(y, own[r], db)
      BY <1>1, <1>4, <2>3 DEF Accounted, Take, Bridging
    <2> HIDE DEF y
    <2>6. UNCHANGED <<db, own>>
      BY <1>4 DEF Take
    <2> QED BY <2>4, <2>5, <2>6, AccountSteps
  <1> QED BY <1>2, <1>3, <1>4

(* Steps of the lookup chain that stay with their file.                    *)
LEMMA StayingAccounts ==
    ASSUME ImportInv, AccountInv, NEW r \in Runs, NEW pc, NEW row,
           run[r].pc \in Bridging, pc \in Bridging, UNCHANGED db,
           Moves(r, pc, run[r].todo, run[r].file, row, run[r].poisoned),
           Reports(r, run[r].stop, run[r].errors, run[r].skipped),
           \A s \in Runs \ {r} : own'[s] = own[s],
           own'[r].candidates = own[r].candidates, own'[r].media = own[r].media
    PROVE  AccountInv'
  <1>1. Accounted(run'[r], own'[r], db)
    BY DEF AccountInv, Accounted, Moves, Reports, Bridging
  <1> QED BY <1>1, AccountSteps DEF Moves

(* Run r has looked a row up, or inserted it, for the file at hand.        *)
LooksUp(r, pc) ==
    /\ run[r].pc \in Bridging /\ UNCHANGED db
    /\ \E row : Moves(r, pc, run[r].todo, run[r].file, row, run[r].poisoned)
    /\ Reports(r, run[r].stop, run[r].errors, run[r].skipped)
    /\ \A s \in Runs \ {r} : own'[s] = own[s]
    /\ own'[r].candidates = own[r].candidates /\ own'[r].media = own[r].media

LEMMA SeriesLooksUp ==
    ASSUME ImportInv, NEW r \in Runs, Series(r) PROVE LooksUp(r, "film")
  <1> DEFINE show == ShowOf[run[r].file]
             x == [show |-> show, by |-> By(r)]
  <1>1. run[r].pc \in Bridging /\ UNCHANGED db
    BY DEF Series, Bridging
  <1>2. PICK row \in SeriesRow \cup FilmRow \cup EditionRow \cup MediaRow \cup {None} :
          GoOn(r, "film", row) /\ (UNCHANGED own \/ (row \in SeriesRow /\ Insert(r, "series", row)))
    <2>1. x \in SeriesRow
      BY <1>1, BridgingRun DEF SeriesRow, Image
    <2>2. Visible(r, "series") \subseteq SeriesRow
      BY VisibleRows DEF ImportInv
    <2> QED BY <2>1, <2>2 DEF Series, FindOrCreate
  <1>3. Moves(r, "film", run[r].todo, run[r].file, row, run[r].poisoned)
    BY <1>1, <1>2, BridgingRun, GoOnMoves DEF RunState, Bridging
  <1>4. Reports(r, run[r].stop, run[r].errors, run[r].skipped)
    BY <1>1, <1>2, BridgingRun, GoOnReports
  <1>5. /\ \A s \in Runs \ {r} : own'[s] = own[s]
        /\ own'[r].candidates = own[r].candidates /\ own'[r].media = own[r].media
    <2>1. CASE UNCHANGED own
      BY <2>1
    <2>2. CASE row \in SeriesRow /\ Insert(r, "series", row)
      <3>1. Writes(r, [own[r] EXCEPT !.series = @ \cup {row}])
        BY <2>2, InsertSeriesWrites DEF ImportInv, TypeOK
      <3> QED BY <1>1, <3>1, BridgingRun DEF Writes, Rows
    <2> QED BY <1>2, <2>1, <2>2
  <1> QED BY <1>1, <1>3, <1>4, <1>5 DEF LooksUp

LEMMA FilmLooksUp ==
    ASSUME ImportInv, NEW r \in Runs, Film(r) PROVE LooksUp(r, "edition")
  <1> DEFINE x == FilmNamed(run[r].file, run[r].row, By(r))
  <1>1. run[r].pc = "film" /\ run[r].pc \in Bridging /\ UNCHANGED db
    BY DEF Film, Bridging
  <1>2. PICK row \in FilmRow :
          GoOn(r, "edition", row) /\ (UNCHANGED own \/ Insert(r, "films", row))
    <2>1. x \in FilmRow
      BY <1>1, MadeFilmIsRight
    <2>2. Visible(r, "films") \subseteq FilmRow
      BY VisibleRows DEF ImportInv
    <2> QED BY <2>1, <2>2 DEF Film, FindOrCreate
  <1>3. Moves(r, "edition", run[r].todo, run[r].file, row, run[r].poisoned)
    BY <1>1, <1>2, BridgingRun, GoOnMoves DEF RunState, Bridging
  <1>4. Reports(r, run[r].stop, run[r].errors, run[r].skipped)
    BY <1>1, <1>2, BridgingRun, GoOnReports
  <1>5. /\ \A s \in Runs \ {r} : own'[s] = own[s]
        /\ own'[r].candidates = own[r].candidates /\ own'[r].media = own[r].media
    <2>1. CASE UNCHANGED own
      BY <2>1
    <2>2. CASE Insert(r, "films", row)
      <3>1. Writes(r, [own[r] EXCEPT !.films = @ \cup {row}])
        BY <2>2, InsertFilmWrites DEF ImportInv, TypeOK
      <3> QED BY <1>1, <3>1, BridgingRun DEF Writes, Rows
    <2> QED BY <1>2, <2>1, <2>2
  <1> QED BY <1>1, <1>3, <1>4, <1>5 DEF LooksUp

LEMMA EditionLooksUp ==
    ASSUME ImportInv, NEW r \in Runs, Edition(r) PROVE LooksUp(r, "path")
  <1> DEFINE x == [film |-> run[r].row, version |-> VersionOf[run[r].file], by |-> By(r)]
  <1>1. run[r].pc = "edition" /\ run[r].pc \in Bridging /\ UNCHANGED db
    BY DEF Edition, Bridging
  <1>2. PICK row \in EditionRow :
          GoOn(r, "path", row) /\ (UNCHANGED own \/ Insert(r, "editions", row))
    <2>1. x \in EditionRow
      BY <1>1, BridgingRun, VisibleRows DEF EditionRow, Image, Reached, ImportInv
    <2>2. Visible(r, "editions") \subseteq EditionRow
      BY VisibleRows DEF ImportInv
    <2> QED BY <2>1, <2>2 DEF Edition, FindOrCreate
  <1>3. Moves(r, "path", run[r].todo, run[r].file, row, run[r].poisoned)
    BY <1>1, <1>2, BridgingRun, GoOnMoves DEF RunState, Bridging
  <1>4. Reports(r, run[r].stop, run[r].errors, run[r].skipped)
    BY <1>1, <1>2, BridgingRun, GoOnReports
  <1>5. /\ \A s \in Runs \ {r} : own'[s] = own[s]
        /\ own'[r].candidates = own[r].candidates /\ own'[r].media = own[r].media
    <2>1. CASE UNCHANGED own
      BY <2>1
    <2>2. CASE Insert(r, "editions", row)
      <3>1. Writes(r, [own[r] EXCEPT !.editions = @ \cup {row}])
        BY <2>2, InsertEditionWrites DEF ImportInv, TypeOK
      <3> QED BY <1>1, <3>1, BridgingRun DEF Writes, Rows
    <2> QED BY <1>2, <2>1, <2>2
  <1> QED BY <1>1, <1>3, <1>4, <1>5 DEF LooksUp

LEMMA LookupsAccount ==
    ASSUME ImportInv, AccountInv, NEW r \in Runs, Series(r) \/ Film(r) \/ Edition(r)
    PROVE  AccountInv'
  <1>1. PICK pc \in {"film", "edition", "path"} : LooksUp(r, pc)
    BY SeriesLooksUp, FilmLooksUp, EditionLooksUp
  <1> QED BY <1>1, StayingAccounts DEF LooksUp, Bridging

(* The candidate at hand is done with: reported, or indexed.               *)
LEMMA LoopingAccounts ==
    ASSUME ImportInv, AccountInv, NEW r \in Runs, UNCHANGED <<db, own>>,
           run[r].pc \in Bridging,
           NEW errors \in SUBSET Files, NEW skipped \in SUBSET Files,
           run[r].errors \subseteq errors, run[r].skipped \subseteq skipped,
           Loop(r, errors, skipped),
           run[r].file \in errors \cup skipped
             \/ Indexed(db.media \cup own[r].media, run[r].file)
    PROVE  AccountInv'
  <1>1. Moves(r, "next", run[r].todo, None, None, run[r].poisoned)
    BY BridgingRun, LoopMoves
  <1>2. Reports(r, run[r].stop, errors, skipped)
    BY BridgingRun, LoopReports
  <1>3. Accounted(run[r], own[r], db)
    BY DEF AccountInv
  <1>4. Accounted(run'[r], own[r], db)
    BY <1>1, <1>2, <1>3 DEF Accounted, Moves, Reports
  <1> QED BY <1>1, <1>4, AccountSteps DEF Moves

LEMMA ChecksAccount ==
    ASSUME ImportInv, AccountInv, NEW r \in Runs,
           CheckPath(r) \/ CheckContent(r) \/ HashRaises(r)
    PROVE  AccountInv'
  <1>1. run[r].pc \in Bridging /\ UNCHANGED <<db, own>>
    BY DEF CheckPath, CheckContent, HashRaises, Bridging
  <1>2. /\ run[r].file \in Files
        /\ run[r].errors \in SUBSET Files /\ run[r].skipped \in SUBSET Files
        /\ Visible(r, "media") = db.media \cup own[r].media
    BY <1>1, BridgingRun, VisibleRows DEF Run, ImportInv
  <1>3. CASE CheckPath(r)
    <2>1. CASE Indexed(Visible(r, "media"), run[r].file) /\ Loop(r, run[r].errors, run[r].skipped)
      BY <1>1, <1>2, <2>1, LoopingAccounts
    <2>2. CASE Goto(r, "hash")
      <3>1. Moves(r, "hash", run[r].todo, run[r].file, run[r].row, run[r].poisoned)
        BY <1>1, <2>2, BridgingRun, GotoMoves DEF RunState, Bridging
      <3>2. Reports(r, run[r].stop, run[r].errors, run[r].skipped)
        BY <1>1, <2>2, BridgingRun, GotoReports
      <3> QED BY <1>1, <3>1, <3>2, StayingAccounts DEF Bridging
    <2> QED BY <1>3, <2>1, <2>2 DEF CheckPath
  <1>4. CASE CheckContent(r)
    <2> DEFINE f == run[r].file
               m == [file |-> f, edition |-> run[r].row,
                     content |-> IF f \in disk THEN ContentOf[f] ELSE None]
    <2>1. CASE Loop(r, run[r].errors, run[r].skipped \cup {f})
      <3> DEFINE skipped == run[r].skipped \cup {f}
      <3>1. /\ skipped \in SUBSET Files /\ run[r].skipped \subseteq skipped
            /\ f \in run[r].errors \cup skipped
        BY <1>2
      <3> HIDE DEF skipped
      <3>2. Loop(r, run[r].errors, skipped)
        BY <2>1 DEF skipped
      <3> QED BY <1>1, <1>2, <3>1, <3>2, LoopingAccounts
    <2>2. CASE GoOn(r, "insert", m)
      <3>1. m \in MediaRow
        BY <1>1, <1>4, BridgingRun, VisibleRows
           DEF CheckContent, MediaRow, Image, Reached, ImportInv
      <3>2. Moves(r, "insert", run[r].todo, f, m, run[r].poisoned)
        BY <1>1, <2>2, <3>1, BridgingRun, GoOnMoves DEF RunState, Bridging
      <3>3. Reports(r, run[r].stop, run[r].errors, run[r].skipped)
        BY <1>1, <2>2, BridgingRun, GoOnReports
      <3> QED BY <1>1, <3>2, <3>3, StayingAccounts DEF Bridging
    <2> QED BY <1>4, <2>1, <2>2 DEF CheckContent
  <1>5. CASE HashRaises(r)
    BY <1>1, <1>2, <1>5, LoopingAccounts DEF HashRaises
  <1> QED BY <1>3, <1>4, <1>5

LEMMA InsertMediaAccounts ==
    ASSUME ImportInv, AccountInv, NEW r \in Runs, InsertMedia(r) PROVE AccountInv'
  <1>1. run[r].pc = "insert" /\ run[r].pc \in Bridging /\ UNCHANGED db
    BY DEF InsertMedia, Bridging
  <1>2. Moves(r, "next", run[r].todo, None, None, run[r].poisoned)
    BY <1>1, BridgingRun, LoopMoves DEF InsertMedia, Run
  <1>3. Reports(r, run[r].stop, run[r].errors, run[r].skipped)
    BY <1>1, BridgingRun, LoopReports DEF InsertMedia
  <1> DEFINE mark(c) == IF c.file = run[r].file THEN [c EXCEPT !.status = "imported"] ELSE c
             marked == {mark(c) : c \in own[r].candidates}
             o == [own[r] EXCEPT !.media = @ \cup {run[r].row}, !.candidates = marked]
  <1>4. own' = [own EXCEPT ![r] = o]
    BY Zenon DEF InsertMedia
  <1>5. own'[r] = o /\ \A s \in Runs \ {r} : own'[s] = own[s]
    BY <1>4 DEF ImportInv, TypeOK
  <1>6. own[r].candidates \subseteq Candidate
    BY <1>1, BridgingRun DEF Rows
  <1>7. ASSUME NEW c \in marked, c.status \in {"pending", "probed"}
        PROVE  c \in own[r].candidates /\ c.file # run[r].file
    <2>1. PICK b \in own[r].candidates : c = mark(b)
      OBVIOUS
    <2>2. b \in Candidate
      BY <1>6, <2>1
    <2> QED BY <1>7, <2>1, <2>2 DEF Candidate
  <1> HIDE DEF mark, marked
  <1>8. o.media = own[r].media \cup {run[r].row} /\ o.candidates = marked
    BY <1>1, BridgingRun DEF Rows
  <1>9. Accounted(run[r], own[r], db)
    BY DEF AccountInv
  <1>10. \A f : Indexed(db.media \cup own[r].media, f) => Indexed(db.media \cup o.media, f)
    BY <1>8 DEF Indexed
  <1> HIDE DEF o
  <1>11. Accounted(run'[r], o, db)
    BY <1>2, <1>3, <1>7, <1>8, <1>9, <1>10 DEF Accounted, Moves, Reports
  <1> QED BY <1>1, <1>2, <1>5, <1>11, AccountSteps DEF Moves

(* Failures leave nothing to account for.                                  *)
LEMMA FailuresAccount ==
    ASSUME ImportInv, AccountInv, NEW r \in Runs,
           \/ PathTaken(r) \/ Deadlocked(r) \/ FlushFails(r)
           \/ RunFails(r) \/ CommitRefused(r) \/ Cancel(r)
    PROVE  AccountInv'
  <1>1. run \in [Runs -> Run] /\ own \in [Runs -> Rows] /\ run[r] \in Run
    BY DEF ImportInv, TypeOK
  <1>2. CASE PathTaken(r) \/ Deadlocked(r) \/ FlushFails(r)
    <2>1. run[r].pc \in Bridging /\ Poison(r) /\ UNCHANGED db
      BY <1>2 DEF PathTaken, Deadlocked, WaitsFor, FlushFails, Bridging
    <2>2. Moves(r, "next", run[r].todo, None, None, TRUE) /\ Writes(r, NoRows)
      BY <1>1, <2>1, BridgingRun, PoisonMoves, RollBackWrites DEF Poison
    <2>3. Accounted(run'[r], own'[r], db)
      BY <2>2, NothingToAccount DEF Moves
    <2> QED BY <2>1, <2>2, <2>3, AccountSteps DEF Moves, Writes
  <1>3. CASE RunFails(r) \/ CommitRefused(r)
    <2>1. Moves(r, "idle", {}, None, None, FALSE) /\ UNCHANGED db
      BY <1>1, <1>3, FinishMoves DEF RunFails, CommitRefused
    <2>2. Writes(r, NoRows)
      <3>1. CASE RunFails(r)
        BY <1>1, <3>1, RollBackWrites DEF RunFails
      <3>2. CASE CommitRefused(r)
        <4>1. own[r] = NoRows
          BY <3>2 DEF CommitRefused, ImportInv, RunInv, Done
        <4> QED BY <1>1, <3>2, <4>1, NothingInserted DEF CommitRefused, Writes
      <3> QED BY <1>3, <3>1, <3>2
    <2>3. Accounted(run'[r], own'[r], db)
      BY <2>1, <2>2, NothingInserted, NothingToAccount DEF Moves, Writes
    <2> QED BY <2>1, <2>2, <2>3, AccountSteps DEF Moves, Writes
  <1>4. CASE Cancel(r)
    <2> DEFINE y == [run[r] EXCEPT !.stop = TRUE]
    <2>1. y.stop /\ y.pc = run[r].pc
      BY <1>1 DEF Run
    <2>2. run'[r] = y /\ UNCHANGED <<db, own>> /\ \A s \in Runs \ {r} : run'[s] = run[s]
      BY <1>1, <1>4 DEF Cancel
    <2>3. Accounted(run'[r], own[r], db)
      BY <2>1, <2>2 DEF Accounted
    <2> HIDE DEF y
    <2> QED BY <2>2, <2>3, AccountSteps
  <1> QED BY <1>2, <1>3, <1>4

LEMMA CommitAccounts ==
    ASSUME ImportInv, AccountInv, NEW r \in Runs, Commit(r) PROVE AccountInv'
  <1>1. db.media \subseteq db'.media
    BY DEF Commit, Rows, ImportInv, TypeOK
  <1>2. Writes(r, NoRows) /\ Moves(r, "idle", {}, None, None, FALSE)
    BY RollBackWrites, FinishMoves DEF Commit, ImportInv, TypeOK
  <1>3. Accounted(run'[r], own'[r], db')
    BY <1>2, NothingInserted, NothingToAccount DEF Moves, Writes
  <1>4. ASSUME NEW s \in Runs \ {r} PROVE Accounted(run'[s], own'[s], db')
    <2>1. Accounted(run[s], own[s], db)
      BY DEF AccountInv
    <2>2. Accounted(run[s], own[s], db')
      BY <1>1, <2>1 DEF Accounted, Indexed
    <2> QED BY <1>2, <2>2 DEF Moves, Writes
  <1> QED BY <1>3, <1>4 DEF AccountInv

(* AccountInv is inductive, given ImportInv.                               *)
LEMMA NextAccounts == ImportInv /\ AccountInv /\ [Next]_vars => AccountInv'
  <1> SUFFICES ASSUME ImportInv, AccountInv, [Next]_vars PROVE AccountInv'
    OBVIOUS
  <1>1. ASSUME NEW r \in Runs, RunStep(r) \/ Collect(r) PROVE AccountInv'
    BY <1>1, EarlyAccounts, LoopAccounts, LookupsAccount,
       ChecksAccount, InsertMediaAccounts, FailuresAccount, CommitAccounts DEF RunStep
  <1>2. ASSUME NEW r \in Runs,
               HashRaises(r) \/ FlushFails(r) \/ RunFails(r) \/ Cancel(r)
        PROVE  AccountInv'
    BY <1>2, FailuresAccount, ChecksAccount
  <1>3. ASSUME NEW f \in Files, Arrive(f) \/ GoAway(f) PROVE AccountInv'
    BY <1>3 DEF Arrive, GoAway, AccountInv
  <1>4. CASE Crash
    <2>1. \A r \in Runs : run'[r] = Idle /\ own'[r] = NoRows
      BY <1>4 DEF Crash
    <2> QED BY <2>1, IdleRun, NothingInserted, NothingToAccount DEF AccountInv
  <1>5. CASE UNCHANGED vars
    BY <1>5 DEF vars, AccountInv
  <1> QED BY <1>1, <1>2, <1>3, <1>4, <1>5 DEF Next

(* What NoSilentLoss says of one step.                                     *)
CommitAccountsFor ==
    \A r \in Runs : \A f \in Files :
      /\ db' # db /\ run[r].pc = "commit" /\ run'[r].pc = "idle"
      /\ \E c \in own[r].candidates : c.file = f /\ c.status \in {"pending", "probed"}
      => \/ run[r].stop
         \/ f \in run[r].errors \cup run[r].skipped
         \/ Indexed(db'.media, f)

(* A commit accounts for what it did not import.                           *)
LEMMA StepAccountsFor ==
    ASSUME ImportInv, AccountInv, [Next]_vars PROVE CommitAccountsFor
  <1> SUFFICES ASSUME NEW r \in Runs, NEW f \in Files, db' # db,
                      run[r].pc = "commit", run'[r].pc = "idle", ~run[r].stop,
                      NEW c \in own[r].candidates,
                      c.file = f, c.status \in {"pending", "probed"}
               PROVE  f \in run[r].errors \cup run[r].skipped \/ Indexed(db'.media, f)
    BY DEF CommitAccountsFor
  <1>1. PICK s \in Runs : Commit(s)
    BY OnlyCommits
  <1>2. s = r
    BY <1>1, FinishMoves DEF Commit, ImportInv, TypeOK, Moves
  <1>3. db'.media = db.media \cup own[r].media
    BY <1>1, <1>2 DEF Commit, Rows, ImportInv, TypeOK
  <1>4. Accounted(run[r], own[r], db) /\ ~run[r].poisoned
    BY <1>1, <1>2 DEF AccountInv, Commit
  <1> QED BY <1>3, <1>4 DEF Accounted, Bridging

(* A candidate a run commits without importing it is in its report, was    *)
(* indexed before, or the run was cancelled.                               *)
THEOREM NothingLostSilently == Spec => NoSilentLoss
  <1>1. ImportInv /\ AccountInv /\ [Next]_vars => CommitAccountsFor
    BY StepAccountsFor
  <1>2. ImportInv /\ AccountInv /\ [Next]_vars => AccountInv'
    BY NextAccounts
  <1>3. Spec => []AccountInv
    BY <1>2, InitAccounted, ImportInvAlways, PTL DEF Spec
  <1> QED BY <1>1, <1>3, ImportInvAlways, PTL DEF Spec, NoSilentLoss, CommitAccountsFor

-----------------------------------------------------------------------------
(* The media files of everyone have different paths: the unique key lets   *)
(* no run insert one that is committed or another has inserted, and a run  *)
(* has looked at its own before.                                           *)
AllMedia == db.media \cup UNION {own[r].media : r \in Runs}

PathInv ==
    /\ \A m, n \in AllMedia : m.file = n.file => m = n
    /\ \A r \in Runs : run[r].pc \in {"hash", "insert"} => ~Indexed(own[r].media, run[r].file)

LEMMA InitPaths == Init => PathInv
  <1> SUFFICES ASSUME Init PROVE PathInv
    OBVIOUS
  <1>1. AllMedia = {}
    BY NothingInserted DEF Init, AllMedia
  <1>2. \A r \in Runs : run[r].pc = "idle"
    BY IdleRun DEF Init
  <1> QED BY <1>1, <1>2 DEF PathInv

(* A step that brings no new media file.                                   *)
LEMMA PathsKept ==
    ASSUME PathInv, AllMedia' \subseteq AllMedia,
           \A r \in Runs : run'[r].pc \in {"hash", "insert"} =>
                              ~Indexed(own'[r].media, run'[r].file)
    PROVE  PathInv'
  BY DEF PathInv

LEMMA OneRunKeepsPaths ==
    ASSUME PathInv, NEW r \in Runs, UNCHANGED db,
           \A s \in Runs \ {r} : run'[s] = run[s] /\ own'[s] = own[s],
           own'[r].media \subseteq own[r].media,
           run'[r].pc \in {"hash", "insert"} => ~Indexed(own'[r].media, run'[r].file)
    PROVE  PathInv'
  <1>1. AllMedia' \subseteq AllMedia
    <2>1. \A s \in Runs : own'[s].media \subseteq own[s].media
      OBVIOUS
    <2> QED BY <2>1 DEF AllMedia
  <1> QED BY <1>1, PathsKept DEF PathInv

LEMMA QuietKeepsPaths ==
    ASSUME PathInv, NEW r \in Runs, Quiet(r) PROVE PathInv'
  <1>1. own'[r].media \subseteq own[r].media
    BY NothingInserted DEF Quiet
  <1> QED BY <1>1, OneRunKeepsPaths DEF Quiet

LEMMA LookupKeepsPaths ==
    ASSUME ImportInv, PathInv, NEW r \in Runs, Series(r) \/ Film(r) \/ Edition(r)
    PROVE  PathInv'
  <1>1. PICK pc \in {"film", "edition", "path"} : LooksUp(r, pc)
    BY SeriesLooksUp, FilmLooksUp, EditionLooksUp
  <1>2. PICK row : Moves(r, pc, run[r].todo, run[r].file, row, run[r].poisoned)
    BY <1>1 DEF LooksUp
  <1> QED BY <1>1, <1>2, OneRunKeepsPaths DEF LooksUp, Moves

LEMMA CheckPathKeepsPaths ==
    ASSUME ImportInv, PathInv, NEW r \in Runs, CheckPath(r) PROVE PathInv'
  <1>1. run[r].pc \in Bridging /\ UNCHANGED <<db, own>>
    BY DEF CheckPath, Bridging
  <1>2. CASE Loop(r, run[r].errors, run[r].skipped)
    <2>1. Moves(r, "next", run[r].todo, None, None, run[r].poisoned)
      BY <1>1, <1>2, BridgingRun, LoopMoves DEF Run
    <2> QED BY <1>1, <2>1, OneRunKeepsPaths DEF Moves
  <1>3. CASE ~Indexed(Visible(r, "media"), run[r].file) /\ Goto(r, "hash")
    <2>1. Moves(r, "hash", run[r].todo, run[r].file, run[r].row, run[r].poisoned)
      BY <1>1, <1>3, BridgingRun, GotoMoves DEF RunState, Bridging
    <2>2. ~Indexed(own[r].media, run[r].file)
      BY <1>3, VisibleRows DEF ImportInv, Indexed
    <2> QED BY <1>1, <2>1, <2>2, OneRunKeepsPaths DEF Moves
  <1> QED BY <1>2, <1>3 DEF CheckPath

LEMMA CheckContentKeepsPaths ==
    ASSUME ImportInv, PathInv, NEW r \in Runs, CheckContent(r) PROVE PathInv'
  <1> DEFINE f == run[r].file
             hash == IF f \in disk THEN ContentOf[f] ELSE None
             m == [file |-> f, edition |-> run[r].row, content |-> hash]
  <1>1. /\ run[r].pc = "hash" /\ run[r].pc \in Bridging
        /\ UNCHANGED <<db, own>>
    BY DEF CheckContent, Bridging
  <1>2. CASE Loop(r, run[r].errors, run[r].skipped \cup {f})
    <2>1. Moves(r, "next", run[r].todo, None, None, run[r].poisoned)
      BY <1>1, <1>2, BridgingRun, LoopMoves DEF Run
    <2> QED BY <1>1, <2>1, OneRunKeepsPaths DEF Moves
  <1>3. CASE GoOn(r, "insert", m)
    <2>1. m \in MediaRow
      BY <1>1, BridgingRun, VisibleRows DEF MediaRow, Image, Reached, ImportInv
    <2>2. Moves(r, "insert", run[r].todo, f, m, run[r].poisoned)
      BY <1>1, <1>3, <2>1, BridgingRun, GoOnMoves DEF RunState, Bridging
    <2>3. ~Indexed(own[r].media, f)
      BY <1>1 DEF PathInv
    <2> QED BY <1>1, <2>2, <2>3, OneRunKeepsPaths DEF Moves
  <1> QED BY <1>2, <1>3 DEF CheckContent

LEMMA InsertMediaKeepsPaths ==
    ASSUME ImportInv, PathInv, NEW r \in Runs, InsertMedia(r) PROVE PathInv'
  <1>1. /\ run[r].pc = "insert" /\ run[r].pc \in Bridging /\ UNCHANGED db
    BY DEF InsertMedia, Bridging
  <1>2. Moves(r, "next", run[r].todo, None, None, run[r].poisoned)
    BY <1>1, BridgingRun, LoopMoves DEF InsertMedia, Run
  <1> DEFINE x == run[r].row
             marked == {IF c.file = run[r].file THEN [c EXCEPT !.status = "imported"]
                                               ELSE c : c \in own[r].candidates}
             o == [own[r] EXCEPT !.media = @ \cup {x}, !.candidates = marked]
  <1>3. own' = [own EXCEPT ![r] = o]
    BY Zenon DEF InsertMedia
  <1>4. own'[r] = o /\ \A s \in Runs \ {r} : own'[s] = own[s]
    BY <1>3 DEF ImportInv, TypeOK
  <1>5. x.file = run[r].file
    BY <1>1, BridgingRun DEF Reached
  <1> HIDE DEF marked
  <1>6. o.media = own[r].media \cup {x}
    BY <1>1, BridgingRun DEF Rows
  <1>7. \A m \in AllMedia : m.file # x.file
    <2>1. ~Indexed(db.media, x.file) /\ ~Indexed(own[r].media, x.file)
      BY <1>1, <1>5 DEF InsertMedia, PathInv
    <2>2. \A s \in Runs \ {r} : ~Indexed(own[s].media, x.file)
      BY <1>1, <1>5 DEF InsertMedia, Blocked, WaitsFor
    <2> QED BY <2>1, <2>2 DEF AllMedia, Indexed
  <1>8. AllMedia' \subseteq AllMedia \cup {x}
    <2>1. \A s \in Runs : own'[s].media \subseteq own[s].media \cup {x}
      BY <1>4, <1>6
    <2> HIDE DEF x
    <2> QED BY <1>1, <2>1 DEF AllMedia
  <1>9. \A m, n \in AllMedia' : m.file = n.file => m = n
    <2> HIDE DEF x
    <2> QED BY <1>7, <1>8 DEF PathInv
  <1>10. \A s \in Runs : run'[s].pc \in {"hash", "insert"} => ~Indexed(own'[s].media, run'[s].file)
    BY <1>2, <1>4 DEF PathInv, Moves
  <1> QED BY <1>9, <1>10 DEF PathInv

(* What a run commits was nobody else's.                                   *)
LEMMA CommitKeepsPaths ==
    ASSUME ImportInv, PathInv, NEW r \in Runs, Commit(r) PROVE PathInv'
  <1>1. db'.media = db.media \cup own[r].media
    BY DEF Commit, Rows, ImportInv, TypeOK
  <1>2. Writes(r, NoRows) /\ Moves(r, "idle", {}, None, None, FALSE)
    BY RollBackWrites, FinishMoves DEF Commit, ImportInv, TypeOK
  <1>3. \A s \in Runs : own'[s].media \subseteq own[s].media
    BY <1>2, NothingInserted DEF Writes
  <1>4. AllMedia' \subseteq AllMedia
    BY <1>1, <1>3 DEF AllMedia
  <1>5. \A s \in Runs : run'[s].pc \in {"hash", "insert"} => ~Indexed(own'[s].media, run'[s].file)
    BY <1>2 DEF PathInv, Moves, Writes
  <1> QED BY <1>4, <1>5, PathsKept

LEMMA OtherStepsKeepPaths ==
    ASSUME ImportInv, PathInv,
           \/ \E r \in Runs : Collect(r) \/ Cancel(r)
           \/ \E f \in Files : Arrive(f) \/ GoAway(f)
           \/ Crash
    PROVE  PathInv'
  <1>1. ASSUME NEW r \in Runs, Collect(r) PROVE PathInv'
    <2> DEFINE y == [Idle EXCEPT !.pc = "query", !.todo = disk]
    <2>1. y.pc = "query"
      BY DEF Idle
    <2>2. run'[r] = y /\ \A s \in Runs \ {r} : run'[s] = run[s]
      BY <1>1 DEF Collect, ImportInv, TypeOK
    <2> HIDE DEF y
    <2> QED BY <1>1, <2>1, <2>2, OneRunKeepsPaths DEF Collect
  <1>2. ASSUME NEW r \in Runs, Cancel(r) PROVE PathInv'
    <2> DEFINE y == [run[r] EXCEPT !.stop = TRUE]
    <2>1. y.pc = run[r].pc /\ y.file = run[r].file
      BY DEF ImportInv, TypeOK, Run
    <2>2. run'[r] = y /\ \A s \in Runs \ {r} : run'[s] = run[s]
      BY <1>2 DEF Cancel, ImportInv, TypeOK
    <2> HIDE DEF y
    <2> QED BY <1>2, <2>1, <2>2, OneRunKeepsPaths DEF Cancel, PathInv
  <1>3. ASSUME NEW f \in Files, Arrive(f) \/ GoAway(f) PROVE PathInv'
    BY <1>3 DEF Arrive, GoAway, PathInv, AllMedia
  <1>4. CASE Crash
    <2>1. \A r \in Runs : run'[r].pc = "idle" /\ own'[r].media = {}
      BY <1>4, IdleRun, NothingInserted DEF Crash
    <2>2. AllMedia' \subseteq AllMedia
      BY <1>4, <2>1 DEF Crash, AllMedia
    <2> QED BY <2>1, <2>2, PathsKept
  <1> QED BY <1>1, <1>2, <1>3, <1>4

(* PathInv is inductive, given ImportInv.                                  *)
LEMMA NextPaths == ImportInv /\ PathInv /\ [Next]_vars => PathInv'
  <1> SUFFICES ASSUME ImportInv, PathInv, [Next]_vars PROVE PathInv'
    OBVIOUS
  <1>1. ASSUME NEW r \in Runs, RunStep(r) PROVE PathInv'
    BY <1>1, EarlySteps, FailingSteps, QuietKeepsPaths, LookupKeepsPaths, CheckPathKeepsPaths,
       CheckContentKeepsPaths, InsertMediaKeepsPaths, CommitKeepsPaths DEF RunStep
  <1>2. ASSUME NEW r \in Runs, HashRaises(r) \/ FlushFails(r) \/ RunFails(r) PROVE PathInv'
    BY <1>2, FailingSteps, QuietKeepsPaths
  <1>3. CASE UNCHANGED vars
    BY <1>3 DEF vars, PathInv, AllMedia
  <1> QED BY <1>1, <1>2, <1>3, OtherStepsKeepPaths DEF Next

-----------------------------------------------------------------------------
(* The entry of a media file is the one Library gives it, in the film that *)
(* the file named for which the film was made.                             *)
LEMMA EntryIsRight ==
    ASSUME NEW m \in MediaRow, RightEdition(m.edition, m.file)
    PROVE  /\ m.file \in Files /\ Maker(m.edition.film) \in Files
           /\ EntryOf(m) = L!Entry(m.file, Maker(m.edition.film))
           /\ L!Belongs(m.file, Maker(m.edition.film))
  <1> DEFINE film == m.edition.film
  <1>1. m.file \in Files /\ m.edition \in EditionRow /\ film \in FilmRow
    BY DEF MediaRow, EditionRow
  <1>2. Maker(film) \in Files
    BY <1>1 DEF FilmRow, Maker
  <1>3. /\ m.edition.version = VersionOf[m.file]
        /\ NamedFilm(film) /\ L!Belongs(m.file, Maker(film))
    BY DEF RightEdition, RightFilm
  <1>4. (IF film.series = None THEN NoShow ELSE film.series.show) = ShowOf[Maker(film)]
    BY <1>3, NoneAssumption DEF NamedFilm
  <1>5. film.title = TitleOf[Maker(film)] /\ film.episode = EpisodeOf[Maker(film)]
    BY <1>3 DEF NamedFilm
  <1> QED BY <1>1, <1>2, <1>3, <1>4, <1>5 DEF EntryOf, L!Entry

(* A step that adds media files is an import of Library: of the files that *)
(* had no entry, each in the film one of its media files is in.            *)
LEMMA IndexGrows ==
    ASSUME ImportInv, ImportInv', db.media \subseteq db'.media,
           \A m, n \in db'.media : m.file = n.file => m = n
    PROVE  L!Import
  <1> DEFINE index == {EntryOf(m) : m \in db.media}
             fs == {m.file : m \in db'.media \ db.media}
             medium(f) == CHOOSE m \in db'.media \ db.media : m.file = f
             named == [f \in fs |-> Maker(medium(f).edition.film)]
  <1>1. \A m \in db'.media :
          /\ m.file \in Files /\ Maker(m.edition.film) \in Files
          /\ EntryOf(m) = L!Entry(m.file, Maker(m.edition.film))
          /\ L!Belongs(m.file, Maker(m.edition.film))
    BY EntryIsRight DEF ImportInv, TypeOK, Rows, Sound
  <1>2. index' = {EntryOf(m) : m \in db'.media}
    BY DEF EntryOf
  <1>3. \A m \in db'.media \ db.media : m.file \in fs /\ medium(m.file) = m
    <2> SUFFICES ASSUME NEW m \in db'.media \ db.media
                 PROVE  m.file \in fs /\ medium(m.file) = m
      OBVIOUS
    <2>1. m.file \in fs
      OBVIOUS
    <2>2. medium(m.file) \in db'.media \ db.media /\ medium(m.file).file = m.file
      OBVIOUS
    <2> QED BY <2>1, <2>2
  <1>4. \A f \in fs : medium(f) \in db'.media \ db.media /\ medium(f).file = f
    BY <1>3
  <1>5. \A m \in db'.media : EntryOf(m).file = m.file
    BY DEF EntryOf
  <1>6. fs \in SUBSET L!New
    <2>1. ASSUME NEW f \in fs, NEW e \in index PROVE e.file # f
      <3>1. PICK m \in db.media : e = EntryOf(m)
        BY <2>1
      <3>2. e.file = m.file /\ m \in db'.media
        BY <1>5, <3>1
      <3> HIDE DEF medium
      <3> QED BY <1>4, <3>1, <3>2
    <2>2. fs \subseteq Files
      BY <1>1
    <2> HIDE DEF fs
    <2> QED BY <2>1, <2>2 DEF L!New
  <1> HIDE DEF medium
  <1>7. \A f \in fs : EntryOf(medium(f)) = L!Entry(f, named[f])
    BY <1>1, <1>4
  <1>8. named \in [fs -> Files] /\ \A f \in fs : L!Belongs(f, named[f])
    BY <1>1, <1>4
  <1>9. index' = index \cup {L!Entry(f, named[f]) : f \in fs}
    <2>1. ASSUME NEW e \in index', e \notin index
          PROVE  e \in {L!Entry(f, named[f]) : f \in fs}
      <3>1. PICK m \in db'.media : e = EntryOf(m)
        BY <1>2, <2>1
      <3>2. m \notin db.media
        BY <2>1, <3>1
      <3>3. m.file \in fs /\ EntryOf(m) = L!Entry(m.file, named[m.file])
        BY <1>3, <1>7, <3>1, <3>2
      <3> HIDE DEF fs, named
      <3> QED BY <3>1, <3>3
    <2>2. ASSUME NEW f \in fs PROVE L!Entry(f, named[f]) \in index'
      <3>1. medium(f) \in db'.media
        BY <1>4, <2>2
      <3> HIDE DEF fs, named
      <3> QED BY <1>2, <1>7, <2>2, <3>1
    <2>3. index \subseteq index'
      BY <1>2
    <2> HIDE DEF fs, named
    <2> QED BY <2>1, <2>2, <2>3
  <1> HIDE DEF fs, named
  <1> QED BY <1>6, <1>8, <1>9 DEF L!Import

(* No media file is ever withdrawn.                                        *)
LEMMA CommittedGrows ==
    ASSUME ImportInv, [Next]_vars PROVE UNCHANGED db \/ db.media \subseteq db'.media
  BY OnlyCommits DEF Commit, Rows, ImportInv, TypeOK

(* The imports implement Library: the committed index only grows, by each  *)
(* file at most once, in the film it belongs to.                           *)
THEOREM ImportsImplementLibrary == Spec => ImplementsLibrary
  <1> DEFINE index == {EntryOf(m) : m \in db.media}
  <1>1. Init => L!LibraryInit
    BY NothingInserted DEF Init, L!LibraryInit
  <1>2. ImportInv /\ ImportInv' /\ PathInv' /\ [Next]_vars => [L!Import]_index
    <2> SUFFICES ASSUME ImportInv, ImportInv', PathInv', [Next]_vars PROVE [L!Import]_index
      OBVIOUS
    <2>1. CASE UNCHANGED db
      BY <2>1 DEF EntryOf
    <2>2. CASE db.media \subseteq db'.media
      BY <2>2, IndexGrows DEF PathInv, AllMedia
    <2> QED BY <2>1, <2>2, CommittedGrows
  <1> QED BY <1>1, <1>2, ImportInvAlways, InitPaths, NextPaths, PTL
            DEF Spec, ImplementsLibrary, L!LibrarySpec

=============================================================================
