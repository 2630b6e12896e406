----------------------------- MODULE MCMigration -----------------------------
(* Instances of Migration for TLC. *)
EXTENDS Migration, TLC

CONSTANTS o1, o2, o3, p1, p2

(* Two openers share a process; the third lives in another. *)
MCProcessOf == o1 :> p1 @@ o2 :> p1 @@ o3 :> p2

Symmetry == Permutations({o1, o2})

MCWrite == [from : Versions \union {0}, to : Versions, part : 0 .. Parts]

=============================================================================
