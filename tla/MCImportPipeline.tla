-------------------------- MODULE MCImportPipeline --------------------------
(* Instances of ImportPipeline for TLC.                                    *)
EXTENDS ImportPipeline, TLC

CONSTANTS f1, f2, r1, r2

(* An episode, and a film that has the title and year of the episode, both *)
(* in one quality and with one content: where the film is filed depends on *)
(* what is there, and who finds the rows of the other need not keep them.  *)
TitleShow == f1 :> "show" @@ f2 :> NoShow
TitleEpisode == f1 :> "s1e1" @@ f2 :> "none"
TitleTitle == f1 :> "pilot" @@ f2 :> "pilot"
TitleVersion == f1 :> "hd" @@ f2 :> "hd"
TitleContent == f1 :> "a" @@ f2 :> "a"

(* Two files of the same episode, in two editions and with one content.    *)
TheShow == f1 :> "show" @@ f2 :> "show"
TheEpisode == f1 :> "s1e1" @@ f2 :> "s1e1"
TheTitle == f1 :> "pilot" @@ f2 :> "pilot"
TheVersion == f1 :> "hd" @@ f2 :> "sd"
TheContent == f1 :> "a" @@ f2 :> "a"

=============================================================================
