------------------------------- MODULE MCTrash -------------------------------
(* Instances of Trash: two paths that share a file name, a file the user may *)
(* create at a path that cleanup vacated.                                    *)
EXTENDS Trash, TLC

CONSTANTS d1, d2, p1, p2, n1, f1, f2, f3

MCNameOf == p1 :> n1 @@ p2 :> n1
MCHomeOf == f1 :> p1 @@ f2 :> p2 @@ f3 :> p1
MCHasSide == {f1}
ProcSymmetry == Permutations(Proc)
=============================================================================
