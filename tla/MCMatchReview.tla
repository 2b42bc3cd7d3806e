--------------------------- MODULE MCMatchReview ---------------------------
(* Small instances of MatchReview. *)
EXTENDS MatchReview, TLC

CONSTANT Shop

OneShop == [l \in Listings |-> Shop]

Interchangeable ==
    Permutations(Variants) \cup Permutations(Listings) \cup Permutations(Cases)
        \cup Permutations(Reviewers) \cup Permutations(Matchers)
=============================================================================
