---------------------------- MODULE SearchRounds ----------------------------
(***************************************************************************)
(* The repeated search for what was not found: every pair of a variant and *)
(* a shop has a row of variant_shop_status that says when it is searched   *)
(* for again, and the scheduler sends rounds of at most RoundLimit due     *)
(* pairs.  A pair whose evaluation throws, or whose listing a person has   *)
(* given to another variant (persistDecision returns before the row),      *)
(* keeps its row and is due again at once, at the head of the list.        *)
(*                                                                         *)
(* The shops are active and the variants not archived.  Rows that were     *)
(* never searched have no order among them in the database; here it is one *)
(* and stays (FirstOrder).  Days are scaled by InDays.                     *)
(***************************************************************************)
EXTENDS Integers, Sequences, SequencesExt, FiniteSets

CONSTANTS
    Pairs,          \* <<variant, shop>>: the rows of variant_shop_status
    TrackedPairs,   \* those of tracked products
    BrokenPairs,    \* those whose evaluation never writes the row
    FirstOrder,     \* the order of the rows nobody has searched
    RoundLimit,     \* pairs of one round (200)
    Outcomes,       \* the statuses an evaluation may end in
    InDays,         \* [1, 3, 7, 14, 30 -> the days of the model]
    NotPlanned,     \* next_search_at IS NULL
    MaxPairChanges  \* bound: steps of people, of other jobs and of the shops

(* R orders S: of two, one comes before the other.                         *)
Orders(R, S) ==
    /\ R \subseteq S \X S
    /\ \A p, q \in S : <<p, q>> \in R <=> p # q /\ <<q, p>> \notin R
    /\ \A p, q, r \in S : <<p, q>> \in R /\ <<q, r>> \in R => <<p, r>> \in R

ASSUME RoundsAssumption ==
    /\ IsFiniteSet(Pairs)
    /\ TrackedPairs \subseteq Pairs /\ BrokenPairs \subseteq Pairs
    /\ RoundLimit \in Nat
    /\ Orders(FirstOrder, Pairs)
    /\ \A d \in {1, 3, 7, 14, 30} : InDays[d] \in Nat \ {0}

VARIABLES
    pairStatus,     \* [Pairs -> status]
    untilSearch,    \* [Pairs -> days to next_search_at, 0 when it is due]
    searchOrder,    \* <<p, q>>: last_search_at of p is before that of q
    roundList,      \* what the running round has still to evaluate
    leftOut,        \* [Pairs -> places that others could have in the rounds
                    \*  that left the pair out since it was due]
    pairChanges     \* bound

pairVars == <<pairStatus, untilSearch, searchOrder, roundList, leftOut, pairChanges>>

-----------------------------------------------------------------------------
Settled == {"auto_verified", "human_verified", "suspended"}

nextSearchFor(s) ==
    CASE s \in {"auto_verified", "human_verified"} -> 7
      [] s \in {"needs_review", "ambiguous"} -> 14
      [] s \in {"insufficient_evidence", "not_found_after_full_search"} -> 7
      [] s \in {"source_unhealthy", "listing_missing"} -> 1
      [] s = "rejected" -> 30
      [] OTHER -> 3

Due == {p \in Pairs : untilSearch[p] = 0 /\ pairStatus[p] \notin Settled}

(* Mutant: the latest search first.                                        *)
AheadNewest(q, p) ==
    IF q \in TrackedPairs <=> p \in TrackedPairs THEN <<p, q>> \in searchOrder
    ELSE q \in TrackedPairs

(* ORDER BY: tracked products first, then the oldest search.               *)
Ahead(q, p) ==
    IF q \in TrackedPairs <=> p \in TrackedPairs THEN <<q, p>> \in searchOrder
    ELSE q \in TrackedPairs

(* LIMIT                                                                   *)
ThisRound == {p \in Due : Cardinality({q \in Due : Ahead(q, p)}) < RoundLimit}

(* The tracked pairs come first and the failing ones are always due: the   *)
(* places of a round that these leave to others.                           *)
AlwaysThere == TrackedPairs \cup BrokenPairs

Places == RoundLimit - Cardinality(ThisRound \cap AlwaysThere)

InTurn(ps) ==
    {s \in [1..Cardinality(ps) -> ps] :
        ToSet(s) = ps /\ \A i, j \in DOMAIN s : i < j => Ahead(s[i], s[j])}

LastInOrder(p) == {d \in searchOrder : d[1] # p} \cup ((Pairs \ {p}) \X {p})

Written(p, s, days) ==
    /\ pairStatus' = [pairStatus EXCEPT ![p] = s]
    /\ untilSearch' = [untilSearch EXCEPT ![p] = days]

StillLeftOut == leftOut' = [p \in Pairs |-> IF p \in Due' THEN leftOut[p] ELSE 0]

-----------------------------------------------------------------------------
RoundsInit ==
    /\ pairStatus = [p \in Pairs |-> "unsearched"]
    /\ untilSearch = [p \in Pairs |-> 0]
    /\ searchOrder = FirstOrder
    /\ roundList = <<>> /\ leftOut = [p \in Pairs |-> 0] /\ pairChanges = 0

(* main.ts asks the same question as the job; one job by its key. *)
StartRound ==
    /\ roundList = <<>> /\ Due # {}
    /\ roundList' \in InTurn(ThisRound)
    /\ leftOut' = [p \in Pairs |->
                      IF p \in Due \ ThisRound THEN leftOut[p] + Places ELSE 0]
    /\ UNCHANGED <<pairStatus, untilSearch, searchOrder, pairChanges>>

(* persistDecision: the row is written whatever it has become meanwhile. *)
PairEvaluated(p) ==
    \E s \in Outcomes :
        /\ Written(p, s, InDays[nextSearchFor(s)])
        /\ searchOrder' = LastInOrder(p)

SearchPair ==
    /\ roundList # <<>>
    /\ roundList' = Tail(roundList)
    /\ IF Head(roundList) \in BrokenPairs
       THEN UNCHANGED <<pairStatus, untilSearch, searchOrder>>
       ELSE PairEvaluated(Head(roundList))
    /\ StillLeftOut /\ UNCHANGED pairChanges

DayPasses ==
    /\ \E p \in Pairs : untilSearch[p] \notin {0, NotPlanned}
    /\ untilSearch' = [p \in Pairs |->
           IF untilSearch[p] \in {0, NotPlanned} THEN untilSearch[p] ELSE untilSearch[p] - 1]
    /\ UNCHANGED <<pairStatus, searchOrder, roundList, pairChanges>>
    /\ StillLeftOut

-----------------------------------------------------------------------------
(* What happens to the rows outside the rounds.                            *)
Changes ==
    /\ pairChanges < MaxPairChanges
    /\ pairChanges' = pairChanges + 1
    /\ UNCHANGED roundList

(* search-all-shops, after search-now and for a new variant *)
SearchElsewhere(p) == Changes /\ p \notin BrokenPairs /\ PairEvaluated(p)

ApprovePair(p) ==
    /\ Changes
    /\ pairStatus' = [pairStatus EXCEPT ![p] = "human_verified"]
    /\ UNCHANGED <<untilSearch, searchOrder>>

RejectPair(p) ==
    /\ Changes
    /\ Written(p, "rejected", InDays[30]) /\ searchOrder' = LastInOrder(p)

NotFoundByHand(p) ==
    /\ Changes
    /\ Written(p, "not_found_after_full_search", InDays[30]) /\ UNCHANGED searchOrder

(* markListingMissing, of the pair whose relation the listing has. *)
ListingGone(p) ==
    /\ Changes
    /\ Written(p, "listing_missing", InDays[1]) /\ UNCHANGED searchOrder

(* A new identity, and search-now (which leaves the status). *)
EditVariant(v) ==
    /\ Changes
    /\ pairStatus' = [p \in Pairs |-> IF p[1] = v THEN "unsearched" ELSE pairStatus[p]]
    /\ untilSearch' = [p \in Pairs |-> IF p[1] = v THEN 0 ELSE untilSearch[p]]
    /\ UNCHANGED searchOrder

SearchNow(v) ==
    /\ Changes
    /\ untilSearch' = [p \in Pairs |-> IF p[1] = v THEN 0 ELSE untilSearch[p]]
    /\ UNCHANGED <<pairStatus, searchOrder>>

(* The operation "recheck" and the command line's. *)
BringForward ==
    /\ Changes
    /\ untilSearch' = [p \in Pairs |->
           IF pairStatus[p] \in Settled THEN untilSearch[p] ELSE 0]
    /\ UNCHANGED <<pairStatus, searchOrder>>

(* A listing promoted to a variant of its own: the shop it came from has   *)
(* it, with no search planned.                                             *)
PromotedThere(p) ==
    /\ Changes /\ pairStatus[p] = "unsearched"
    /\ Written(p, "auto_verified", NotPlanned) /\ searchOrder' = LastInOrder(p)

ChangeOfPair(p) ==
    \/ SearchElsewhere(p) \/ ApprovePair(p) \/ RejectPair(p)
    \/ NotFoundByHand(p) \/ ListingGone(p) \/ PromotedThere(p)

RoundsNext ==
    \/ StartRound \/ SearchPair \/ DayPasses
    \/ BringForward /\ StillLeftOut
    \/ \E p \in Pairs : ChangeOfPair(p) /\ StillLeftOut
    \/ \E v \in {p[1] : p \in Pairs} : (EditVariant(v) \/ SearchNow(v)) /\ StillLeftOut

RoundsSpec == RoundsInit /\ [][RoundsNext]_pairVars

-----------------------------------------------------------------------------
RoundsTypeOK ==
    /\ \A p \in Pairs : untilSearch[p] \in Nat \cup {NotPlanned} /\ leftOut[p] \in Nat
    /\ Orders(searchOrder, Pairs)
    /\ ToSet(roundList) \subseteq Pairs /\ Len(roundList) <= RoundLimit

(* No pair is forgotten for the sake of others like it: of the places that *)
(* rounds give to pairs that are neither tracked nor failing while they    *)
(* leave a due pair out, none is wasted and none goes to the same pair     *)
(* twice, whoever makes which others due meanwhile; and a tracked pair     *)
(* never waits for one that is not.  Where the tracked and the failing     *)
(* ones fill the round, the others wait as long as they do: nothing in the *)
(* code prevents it.                                                       *)
NoPairForgotten ==
    \A p \in Pairs :
        /\ leftOut[p] <= Cardinality(Pairs \ (AlwaysThere \cup {p}))
        /\ p \in TrackedPairs => leftOut[p] = 0
=============================================================================
