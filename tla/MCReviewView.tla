---------------------------- MODULE MCReviewView ----------------------------
(* Small instances of ReviewView: the names are interchangeable. *)
EXTENDS ReviewView, TLC

MCSymmetry == Permutations(Claims) \cup Permutations(Runs)
=============================================================================
