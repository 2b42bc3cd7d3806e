-------------------------- MODULE DecisionRegister --------------------------
(***************************************************************************)
(* What matching promises about a listing, in one page: it is verified for *)
(* at most one variant, and the matcher does not take it from the variant  *)
(* a person has verified it for (0006_matching_review_memory.sql,          *)
(* match_relations_one_verified_per_listing; persistDecision: "Emberi      *)
(* dontes all").                                                           *)
(***************************************************************************)
CONSTANTS Variants, Listings, Words, Human

VARIABLE verified    \* per listing, the <<variant, word>> it is verified for

Pairs == Variants \X Words

HumanPairs == Variants \X Human

Init == verified = [l \in Listings |-> {}]

(* The matcher verifies a listing that no person's word stands for.        *)
Matched(l) ==
    /\ verified[l] \cap HumanPairs = {}
    /\ \E p \in Pairs : verified' = [verified EXCEPT ![l] = {p}]

(* A person says which variant it is.                                      *)
Decided(l) ==
    \E p \in HumanPairs : verified' = [verified EXCEPT ![l] = {p}]

(* A person rejects the pair, or the listing has become something else.    *)
GivenUp(l) == verified' = [verified EXCEPT ![l] = {}]

Next == \E l \in Listings : Matched(l) \/ Decided(l) \/ GivenUp(l)

Spec == Init /\ [][Next]_verified
=============================================================================
