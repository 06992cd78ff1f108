---------------------------- MODULE MCAdminAccess ----------------------------
(* Instances of AdminAccess for TLC. *)
EXTENDS AdminAccess, TLC

CONSTANTS ann, bob, eve, g1, g2, i1, i2, w1, w2

AccessSymmetry == Permutations(Users) \cup Permutations(Groups)
                  \cup Permutations(Invitations) \cup Permutations(Workers)
=============================================================================
