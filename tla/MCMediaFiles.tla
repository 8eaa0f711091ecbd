---------------------------- MODULE MCMediaFiles ----------------------------
(* Instances of MediaFiles for TLC.                                        *)
EXTENDS MediaFiles, TLC

CONSTANTS m1, m2, m3, s1

File(folder, stem, ext) ==
    [root |-> "library", folder |-> folder, stem |-> stem, tag |-> "", ext |-> ext]

(* Two files of two editions of a film: with names of their own, and a     *)
(* library that was moved since they were indexed, or with one stem.       *)
TheEdition == m1 :> "hd" @@ m2 :> "sd"
TheFilm == "hd" :> "film" @@ "sd" :> "film"
TheStarts ==
    {[root |-> "elsewhere", files |-> m1 :> File("A", "x", "mkv") @@ m2 :> File("A", "y", "mp4")],
     [root |-> "library", files |-> m1 :> File("A", "x", "mkv") @@ m2 :> File("A", "x", "mp4")]}

(* Three files of three films in a library that was moved, two of them     *)
(* with one name in two folders.                                           *)
ThreeEditions == m1 :> "one" @@ m2 :> "two" @@ m3 :> "three"
ThreeFilms == "one" :> "first" @@ "two" :> "second" @@ "three" :> "third"
ThreeStarts ==
    {[root |-> "elsewhere",
      files |-> m1 :> File("A", "x", "mkv") @@ m2 :> File("B", "x", "mkv") @@ m3 :> File("A", "y", "mp4")]}

=============================================================================
