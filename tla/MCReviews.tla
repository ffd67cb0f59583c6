----------------------------- MODULE MCReviews -----------------------------
(* Instances of Reviews for TLC. *)
EXTENDS Reviews, TLC

Interchangeable ==
    Permutations(Senders) \cup Permutations(Pollers) \cup Permutations(Parks)
=============================================================================
