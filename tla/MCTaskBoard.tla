----------------------------- MODULE MCTaskBoard -----------------------------
(* Instances of TaskBoard for TLC. *)
EXTENDS TaskBoard, TLC

CONSTANTS c1, c2, c3, c4, todo, done, w1, w2

BoardSymmetry == Permutations(Cards) \cup Permutations(Columns) \cup Permutations(Workers)
=============================================================================
