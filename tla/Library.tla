------------------------------ MODULE Library -------------------------------
(***************************************************************************)
(* What the imports promise together (README.md, section on importing):    *)
(* they only add to the index, every file at most once, in its own version *)
(* of the film it belongs to.  Nothing of runs, probes, rows and           *)
(* transactions is left.                                                   *)
(***************************************************************************)
CONSTANTS Files, NoShow, ShowOf, EpisodeOf, TitleOf, VersionOf

VARIABLE index   \* the entries of the catalogue that have a file

(* File f belongs to the film that file g names: the episode with that     *)
(* number of the show; or, when f is no episode, any film that has its     *)
(* title and year, be it an episode.                                       *)
Belongs(f, g) ==
    IF ShowOf[f] = NoShow THEN TitleOf[f] = TitleOf[g]
    ELSE ShowOf[f] = ShowOf[g] /\ EpisodeOf[f] = EpisodeOf[g]

Entry(f, g) ==
    [file |-> f, show |-> ShowOf[g], episode |-> EpisodeOf[g], title |-> TitleOf[g],
     version |-> VersionOf[f]]

LibraryInit == index = {}

New == {f \in Files : \A e \in index : e.file # f}

Import ==
    \E fs \in SUBSET New : \E named \in [fs -> Files] :
        /\ \A f \in fs : Belongs(f, named[f])
        /\ index' = index \cup {Entry(f, named[f]) : f \in fs}

LibrarySpec == LibraryInit /\ [][Import]_index

=============================================================================
