------------------------------ MODULE MCViewing ------------------------------
(* Instances of Viewing for TLC.                                           *)
EXTENDS Viewing, TLC

CONSTANTS t1, t2, f1, f2, m1, m2

Film(genres, rating, family, series) ==
    [genres |-> genres, persons |-> {}, rating |-> rating, family |-> family, series |-> series]

(* An episode of two files, rated for older children, and a family video   *)
(* whose files are gone.                                                   *)
TheFilms == f1 :> Film({"drama"}, "12+", FALSE, "show") @@ f2 :> Film({"drama", "comedy"}, None, TRUE, None)
TheMedia == m1 :> [film |-> f1, height |-> 1080, audio |-> "ac3"]
         @@ m2 :> [film |-> f1, height |-> 720, audio |-> None]

(* The administrator of the first start, and a child.                      *)
TheAccounts == <<NewUser("root", "admin", None), NewUser("kid", "child", "7_12")>>

ThreadSymmetry == Permutations(Threads)

=============================================================================
