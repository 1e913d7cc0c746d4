----------------------------- MODULE MCShareMount -----------------------------
(* Two containers on one node, one on another, and an administrator there. *)
EXTENDS ShareMount, TLC

CONSTANTS n1, n2, c1, c2, c3, admin

MCAt == c1 :> n1 @@ c2 :> n1 @@ c3 :> n2 @@ admin :> n2

MCSymmetry == Permutations({c1, c2})
=============================================================================
