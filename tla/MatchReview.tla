----------------------------- MODULE MatchReview -----------------------------
(***************************************************************************)
(* Matching and review of one another's decisions: the matcher evaluates   *)
(* variants for shops and listings for variants (apps/worker/src/lib/      *)
(* matching.ts), and people decide the cases it leaves open (apps/api/src/ *)
(* routes/review.ts, review-actions.ts, review-batch.ts).                  *)
(*                                                                         *)
(* They meet in four tables: match_relations, variant_shop_status,         *)
(* rejected_candidates and review_cases.  A matcher reads them, decides,   *)
(* and writes what it decided in a later transaction; a person sees a case *)
(* on a card, the API loads the case again, and the decision is written    *)
(* in a transaction after that.  A transaction is one step, except that a  *)
(* statement which takes no lock (alreadyVerified) is a step of its own,   *)
(* since PostgreSQL runs READ COMMITTED.                                   *)
(*                                                                         *)
(* How similar two records are is data: the engine's outcome is a choice   *)
(* within what decideMatch allows for the memory it was given.             *)
(***************************************************************************)
EXTENDS Naturals, FiniteSets

CONSTANTS
    Variants,      \* canonical_variants
    Listings,      \* source_listings
    Shops,
    ShopOf,        \* the shop of a listing
    Cases,         \* rows of review_cases in use at a time
    Matchers,      \* slots of the matching queues
    Reviewers,     \* people with a review card
    MaxDrifts,     \* bound: changes of a listing's identity
    MaxTurns,      \* bound: jobs begun and cards taken up
    None

ASSUME MatchAssumption ==
    /\ ShopOf \in [Listings -> Shops]
    /\ MaxDrifts \in Nat
    /\ MaxTurns \in Nat
    /\ None \notin Variants \cup Listings \cup Cases

VARIABLES
    hash,        \* identity_hash of each listing
    relation,    \* match_relations with valid_to IS NULL, one per pair
    status,      \* variant_shop_status
    rejected,    \* rejected_candidates: <<variant, listing, hash>>
    cases,       \* review_cases
    matcher,     \* what a matching job keeps in memory
    card,        \* what a reviewer, and the API for them, keep in memory
    turns        \* jobs begun and cards taken up

vars == <<hash, relation, status, rejected, cases, matcher, card, turns>>

Hashes == 0..MaxDrifts

(* decision_origin, verified_kind and locked_by_human of a relation: a     *)
(* person approved it; a person had a variant made of the listing, which   *)
(* leaves verified_kind empty and nothing locked; the matcher verified it. *)
Human == {"approved", "promoted"}
Words == Human \cup {"matched"}

NoRelation == [status |-> "none", word |-> "none"]
RelationRow == {NoRelation} \cup [status : {"verified", "drifted"}, word : Words]

(* "searched" stands for every status the research takes up again; a       *)
(* matched_listing_id that its writer leaves alone may stay behind.        *)
StatusRow ==
    [is : {"none"}, listing : {None}]
        \cup [is : {"searched"}, listing : Listings \cup {None}]
        \cup [is : {"auto_verified", "human_verified"}, listing : Listings]

Open == {"open", "in_progress", "deferred"}

NoCase == [status |-> "none", type |-> "none", variant |-> None, listing |-> None]
CaseRow ==
    {NoCase} \cup [status : Open \cup {"resolved"},
                   type : {"pair", "mapping_drift"},
                   variant : Variants, listing : Listings]

NoDecision == [is |-> "none", listing |-> None]
Decision ==
    {NoDecision}
        \cup [is : {"auto_verified", "human_verified", "needs_review", "rejected"},
              listing : Listings]
        \cup [is : {"no_match"}, listing : Listings \cup {None}]

Idle == [pc |-> "idle", origin |-> "none", variant |-> None, shop |-> None,
         decision |-> NoDecision, verified |-> {}, case |-> None]

NoCard == [pc |-> "none", case |-> None, current |-> FALSE, listing |-> None]

(* Every row has its type; a pair that its status calls verified names the *)
(* listing it is verified with (matching.ts: without it the product page   *)
(* showed a verified pair as one to be checked).                           *)
TypeOK ==
    /\ turns \in 0..MaxTurns
    /\ hash \in [Listings -> Hashes]
    /\ relation \in [Variants \X Listings -> RelationRow]
    /\ status \in [Variants \X Shops -> StatusRow]
    /\ rejected \subseteq Variants \X Listings \X Hashes
    /\ cases \in [Cases -> CaseRow]
    /\ matcher \in
         [Matchers ->
            [pc : {"idle", "decided", "checked", "queued", "linked", "labelled"},
             origin : {"none", "search", "cluster", "promote"},
             variant : Variants \cup {None}, shop : Shops \cup {None},
             decision : Decision, verified : SUBSET Listings,
             case : Cases \cup {None}]]
    /\ card \in
         [Reviewers ->
            [pc : {"none", "looking", "loaded"}, case : Cases \cup {None},
             current : BOOLEAN, listing : Listings \cup {None}]]

-----------------------------------------------------------------------------
Turn ==
    /\ turns < MaxTurns
    /\ turns' = turns + 1

Verified(v, l) == relation[<<v, l>>].status = "verified"

Active(v, l) == relation[<<v, l>>].status # "none"

ListingsOf(s) == {l \in Listings : ShopOf[l] = s}

(* review_cases_open_pair_uq: new_match and ambiguous are one bucket.      *)
OpenCases(type, v, s) ==
    {c \in Cases : /\ cases[c].status \in Open
                   /\ cases[c].type = type
                   /\ cases[c].variant = v
                   /\ ShopOf[cases[c].listing] = s}

(* A row that is closed, and that no card and no job holds, is as good as  *)
(* a new one.                                                              *)
Unused ==
    {c \in Cases : /\ cases[c].status \in {"none", "resolved"}
                   /\ \A p \in Reviewers : card[p].case # c
                   /\ \A m \in Matchers : matcher[m].case # c}

(* row_version + 1: a card that shows such a case is not current any more. *)
Outdated(cards, C) ==
    [p \in Reviewers |-> IF cards[p].pc = "looking" /\ cards[p].case \in C
                           THEN [cards[p] EXCEPT !.current = FALSE] ELSE cards[p]]

(* Mutant: without the index. *)
MayOpenAlways(c) == TRUE

(* What review_cases_open_pair_uq lets an UPDATE of the status do.         *)
MayOpen(c) ==
    OpenCases(cases[c].type, cases[c].variant, ShopOf[cases[c].listing]) \subseteq {c}

Resolved(C) ==
    [c \in Cases |-> IF c \in C THEN [cases[c] EXCEPT !.status = "resolved"]
                                ELSE cases[c]]

NewCase(type, v, l) ==
    [status |-> "open", type |-> type, variant |-> v, listing |-> l]

-----------------------------------------------------------------------------
(* A search of a variant in a shop (evaluateVariantForShop).  A rejected   *)
(* pair of unchanged identity is no candidate, and a rejection of whatever *)
(* identity rules out an automatic match.                                  *)
Candidates(v, s) == {l \in ListingsOf(s) : <<v, l, hash[l]>> \notin rejected}

History(v, l) == \E h \in Hashes : <<v, l, h>> \in rejected

SearchDecisions(v, s) ==
    {[is |-> "no_match", listing |-> None]}
        \cup [is : {"needs_review", "rejected"}, listing : Candidates(v, s)]
        \cup [is : {"auto_verified"},
              listing : {l \in Candidates(v, s) : ~History(v, l)}]
        \cup [is : {"human_verified"},
              listing : {l \in Candidates(v, s) :
                           Verified(v, l) /\ relation[<<v, l>>].word = "approved"}]

Search(m, v, s) ==
    /\ Turn
    /\ matcher[m] = Idle
    /\ \E d \in SearchDecisions(v, s) :
          matcher' = [matcher EXCEPT ![m] =
              [Idle EXCEPT !.pc = "decided", !.origin = "search",
                           !.variant = v, !.shop = s, !.decision = d]]
    /\ UNCHANGED <<hash, relation, status, rejected, cases, card>>

(* A listing is held against the variants that resemble it and the best is *)
(* kept (evaluateListingForClustering): decideMatch is given no memory of  *)
(* rejections and no verified listings here, and a rejected variant is     *)
(* passed over.                                                            *)
ClusterDecisions(l) ==
    [is : {"auto_verified", "needs_review", "no_match"}, listing : {l}]

Cluster(m, v, l) ==
    /\ Turn
    /\ matcher[m] = Idle
    /\ \E d \in ClusterDecisions(l) :
          matcher' = [matcher EXCEPT ![m] =
              [Idle EXCEPT !.pc = "decided", !.origin = "cluster",
                           !.variant = v, !.shop = ShopOf[l], !.decision = d]]
    /\ UNCHANGED <<hash, relation, status, rejected, cases, card>>

-----------------------------------------------------------------------------
(* Mutant: only an approval counts as a person's word. *)
HeldByApproval(v, l) ==
    \E w \in Variants \ {v} : Verified(w, l) /\ relation[<<w, l>>].word = "approved"

(* persistDecision.  The machine may take a listing back from a variant it *)
(* verified itself, never from one a person did; then it writes nothing.   *)
HeldByPerson(v, l) ==
    \E w \in Variants \ {v} : Verified(w, l) /\ relation[<<w, l>>].word \in Human

(* Mutant: every case that is not resolved is closed. *)
AutoResolvableAll(v, s) ==
    {c \in Cases : /\ cases[c].status \in Open /\ cases[c].variant = v
                   /\ ShopOf[cases[c].listing] = s}

(* 'open' cases of the pair, of any type, are closed as auto_resolved.     *)
AutoResolvable(v, s) ==
    {c \in Cases : /\ cases[c].status = "open" /\ cases[c].variant = v
                   /\ ShopOf[cases[c].listing] = s}

CloseAutomatically(v, s) ==
    /\ card' = Outdated(card, AutoResolvable(v, s))
    /\ cases' = Resolved(AutoResolvable(v, s))

MatchedRelation(v, l) ==
    [p \in Variants \X Listings |->
        IF p = <<v, l>>
          THEN [status |-> "verified",
                word |-> IF Active(v, l) THEN relation[<<v, l>>].word ELSE "matched"]
        ELSE IF p[2] = l /\ Verified(p[1], l) THEN NoRelation
        ELSE relation[p]]

(* Mutant: matched_listing_id is not among the columns that are written.   *)
LabelledOnly(v, s, is, l) == status' = [status EXCEPT ![<<v, s>>].is = is]

(* The pair is verified, and its status names the listing.                 *)
Labelled(v, s, is, l) ==
    status' = [status EXCEPT ![<<v, s>>] = [is |-> is, listing |-> l]]

PersistVerified(m) ==
    LET v == matcher[m].variant
        l == matcher[m].decision.listing
        s == matcher[m].shop
    IN  /\ matcher[m].pc = "decided"
        /\ matcher[m].decision.is = "auto_verified"
        /\ \/ /\ HeldByPerson(v, l)
              /\ UNCHANGED <<relation, status, cases, card>>
           \/ /\ ~HeldByPerson(v, l)
              /\ relation' = MatchedRelation(v, l)
              /\ Labelled(v, s, "auto_verified", l)
              /\ CloseAutomatically(v, s)
        /\ matcher' = [matcher EXCEPT ![m] = Idle]
        /\ UNCHANGED <<hash, rejected, turns>>

(* The search found the listing that a person has approved.                *)
PersistConfirmed(m) ==
    /\ matcher[m].pc = "decided"
    /\ matcher[m].decision.is = "human_verified"
    /\ Labelled(matcher[m].variant, matcher[m].shop, "human_verified",
                matcher[m].decision.listing)
    /\ matcher' = [matcher EXCEPT ![m] = Idle]
    /\ UNCHANGED <<hash, relation, rejected, cases, card, turns>>

(* The pair is to be searched again, and its listing is cleared.           *)
Unmatched(v, s) ==
    status' = [status EXCEPT ![<<v, s>>] = [is |-> "searched", listing |-> None]]

PersistRejected(m) ==
    LET v == matcher[m].variant
        l == matcher[m].decision.listing
    IN  /\ matcher[m].pc = "decided"
        /\ matcher[m].decision.is = "rejected"
        /\ Unmatched(v, matcher[m].shop)
        /\ CloseAutomatically(v, matcher[m].shop)
        /\ rejected' = rejected \cup {<<v, l, hash[l]>>}
        /\ matcher' = [matcher EXCEPT ![m] = Idle]
        /\ UNCHANGED <<hash, relation, turns>>

(* SELECT ... alreadyVerified                                              *)
ReadVerified(m) ==
    /\ matcher[m].pc = "decided"
    /\ matcher[m].decision.is \in {"needs_review", "no_match"}
    /\ matcher' = [matcher EXCEPT ![m].pc = "checked",
                      ![m].verified = {l \in ListingsOf(matcher[m].shop) :
                                         Verified(matcher[m].variant, l)}]
    /\ UNCHANGED <<hash, relation, status, rejected, cases, card, turns>>

(* One listing does not overrule the verified match of another one.        *)
VerifiedElsewhere(m) ==
    /\ matcher[m].origin = "cluster"
    /\ matcher[m].verified \ {matcher[m].decision.listing} # {}

KeepStatus(m) ==
    IF VerifiedElsewhere(m) THEN UNCHANGED status
                            ELSE Unmatched(matcher[m].variant, matcher[m].shop)

PersistNoMatch(m) ==
    /\ matcher[m].pc = "checked"
    /\ matcher[m].decision.is = "no_match"
    /\ KeepStatus(m)
    /\ matcher' = [matcher EXCEPT ![m] = Idle]
    /\ UNCHANGED <<hash, relation, rejected, cases, card, turns>>

(* The pair becomes a question for people unless it is decided: the case   *)
(* it has is given the new candidate, or one is opened.                    *)
Ask(v, l) ==
    LET C == OpenCases("pair", v, ShopOf[l]) IN
    \/ \E c \in C :
          /\ cases' = [cases EXCEPT ![c].listing = l]
          /\ card' = Outdated(card, {c})
    \/ /\ C = {}
       /\ \E c \in Unused : cases' = [cases EXCEPT ![c] = NewCase("pair", v, l)]
       /\ UNCHANGED card

PersistReview(m) ==
    /\ matcher[m].pc = "checked"
    /\ matcher[m].decision.is = "needs_review"
    /\ KeepStatus(m)
    /\ IF matcher[m].verified = {}
         THEN Ask(matcher[m].variant, matcher[m].decision.listing)
         ELSE UNCHANGED <<cases, card>>
    /\ matcher' = [matcher EXCEPT ![m] = Idle]
    /\ UNCHANGED <<hash, relation, rejected, turns>>

(* The worker dies, or a statement throws: the job is run again, from the  *)
(* evaluation, or is given up.                                             *)
MatcherDies(m) ==
    /\ matcher[m] # Idle
    /\ matcher' = [matcher EXCEPT ![m] = Idle]
    /\ UNCHANGED <<hash, relation, status, rejected, cases, card, turns>>

-----------------------------------------------------------------------------
(* The listing is made into a variant, new or with the same identity, on   *)
(* a person's word or by the clustering (promoteListingToVariant).         *)
(* linkListingToVariant runs outside a transaction: the relation, unless   *)
(* an index of match_relations is in its way; the status of the pair, in   *)
(* any case, and a search in the other shops; the case, if there is one.   *)
Link(m, v, decision, c) ==
    LET l == decision.listing IN
    /\ relation' =
         IF Active(v, l) \/ \E w \in Variants : Verified(w, l) THEN relation
         ELSE [relation EXCEPT ![<<v, l>>] =
                 [status |-> "verified",
                  word |-> IF c = None THEN "matched" ELSE "promoted"]]
    /\ matcher' = [matcher EXCEPT ![m] =
         [Idle EXCEPT !.pc = "linked", !.origin = "promote", !.variant = v,
                      !.shop = ShopOf[l], !.case = c, !.decision = decision]]
    /\ UNCHANGED <<hash, status, rejected, cases, card>>

(* The machine links only a variant that it has just made.                 *)
LinkNew(m, v, l) ==
    /\ Turn
    /\ matcher[m] = Idle
    /\ \A k \in Listings : relation[<<v, k>>] = NoRelation
    /\ \A s \in Shops : status[<<v, s>>].is = "none"
    /\ Link(m, v, [is |-> "auto_verified", listing |-> l], None)

LinkPromoted(m, v) ==
    /\ matcher[m].pc = "queued"
    /\ Link(m, v, matcher[m].decision, matcher[m].case)
    /\ UNCHANGED turns

LabelLinked(m) ==
    /\ matcher[m].pc = "linked"
    /\ status' = [p \in Variants \X Shops |->
         IF p = <<matcher[m].variant, matcher[m].shop>> THEN matcher[m].decision
         ELSE IF p[1] = matcher[m].variant /\ status[p].is = "none"
           THEN [is |-> "searched", listing |-> None]
         ELSE status[p]]
    /\ matcher' = [matcher EXCEPT ![m] =
                     IF matcher[m].case = None THEN Idle
                                               ELSE [matcher[m] EXCEPT !.pc = "labelled"]]
    /\ UNCHANGED <<hash, relation, rejected, cases, card, turns>>

ClosePromoted(m) ==
    LET C == {matcher[m].case} IN
    /\ matcher[m].pc = "labelled"
    /\ card' = Outdated(card, C)
    /\ cases' = Resolved(C)
    /\ matcher' = [matcher EXCEPT ![m] = Idle]
    /\ UNCHANGED <<hash, relation, status, rejected, turns>>

-----------------------------------------------------------------------------
(* A person takes up a case; the card shows it as it is now.               *)
Look(p, c) ==
    /\ Turn
    /\ card[p] = NoCard
    /\ cases[c].status \in Open
    /\ card' = [card EXCEPT ![p] =
                   [NoCard EXCEPT !.pc = "looking", !.case = c, !.current = TRUE]]
    /\ UNCHANGED <<hash, relation, status, rejected, cases, matcher>>

PutAway(p) ==
    /\ card[p].pc = "looking"
    /\ card' = [card EXCEPT ![p] = NoCard]
    /\ UNCHANGED <<hash, relation, status, rejected, cases, matcher, turns>>

(* loadOpenCase: the case is open and has the version of the card.  What   *)
(* follows is another transaction.  (A refused load leaves the card.)      *)
LoadOpenCase(p) ==
    /\ card[p].pc = "looking"
    /\ card[p].current
    /\ cases[card[p].case].status \in Open
    /\ card' = [card EXCEPT ![p].pc = "loaded",
                            ![p].listing = cases[card[p].case].listing]
    /\ UNCHANGED <<hash, relation, status, rejected, cases, matcher, turns>>

(* closeCase, by id alone                                                  *)
CloseCase(p) ==
    LET c == card[p].case IN
    /\ card' = Outdated([card EXCEPT ![p] = NoCard], {c})
    /\ cases' = Resolved({c})

ApprovedRelation(v, l) ==
    [q \in Variants \X Listings |->
        IF q = <<v, l>> THEN [status |-> "verified", word |-> "approved"]
        ELSE IF q[2] = l /\ Verified(q[1], l) THEN NoRelation
        ELSE relation[q]]

(* applyApprove, for the listing of the case or another one of the shop    *)
(* that the card offers.                                                   *)
Approve(p, l) ==
    LET c == card[p].case
        v == cases[c].variant
    IN  /\ card[p].pc = "loaded"
        /\ ShopOf[l] = ShopOf[card[p].listing]
        /\ relation' = ApprovedRelation(v, l)
        /\ Labelled(v, ShopOf[l], "human_verified", l)
        /\ CloseCase(p)
        /\ UNCHANGED <<hash, rejected, matcher, turns>>

(* applyReject, for any listing the card offers.                           *)
Reject(p, l) ==
    LET v == cases[card[p].case].variant IN
        /\ card[p].pc = "loaded"
        /\ ShopOf[l] = ShopOf[card[p].listing]
        /\ relation' = [relation EXCEPT ![<<v, l>>] = NoRelation]
        /\ rejected' = rejected \cup {<<v, l, hash[l]>>}
        /\ Unmatched(v, ShopOf[l])
        /\ CloseCase(p)
        /\ UNCHANGED <<hash, matcher, turns>>

(* ... or only its status is written: the row keeps its matched listing.   *)
Demoted(row) == [row EXCEPT !.is = "searched"]

MarkNotFound(p) ==
    /\ card[p].pc = "loaded"
    /\ status' = [status EXCEPT
         ![<<cases[card[p].case].variant, ShopOf[card[p].listing]>>] = Demoted(@)]
    /\ CloseCase(p)
    /\ UNCHANGED <<hash, relation, rejected, matcher, turns>>

(* select-candidate: the other candidates are rejected, the case goes on   *)
(* with the chosen one.                                                    *)
SelectCandidate(p, l, others) ==
    LET c == card[p].case IN
    /\ card[p].pc = "loaded"
    /\ ShopOf[l] = ShopOf[card[p].listing]
    /\ others \subseteq ListingsOf(ShopOf[l]) \ {l}
    /\ rejected' = rejected \cup
         {<<cases[c].variant, k, hash[k]>> : k \in others}
    /\ card' = Outdated([card EXCEPT ![p] = NoCard], {c})
    /\ cases' = [cases EXCEPT ![c].listing = l]
    /\ UNCHANGED <<hash, relation, status, matcher, turns>>

(* edit-canonical-and-rerun: every shop is to be searched again.           *)
EditCanonical(p) ==
    LET v == cases[card[p].case].variant IN
    /\ card[p].pc = "loaded"
    /\ status' = [q \in Variants \X Shops |->
         IF q[1] = v /\ status[q].is # "none"
           THEN Demoted(status[q]) ELSE status[q]]
    /\ card' = [card EXCEPT ![p] = NoCard]
    /\ UNCHANGED <<hash, relation, rejected, cases, matcher, turns>>

(* promote-listing: a job, whose worker makes or finds the variant.  (It   *)
(* waits here for a slot before it is asked for, not after.)               *)
PromoteListing(p, m) ==
    /\ card[p].pc = "loaded"
    /\ matcher[m] = Idle
    /\ matcher' = [matcher EXCEPT ![m] =
         [Idle EXCEPT !.pc = "queued", !.origin = "promote", !.case = card[p].case,
                      !.decision = [is |-> "human_verified", listing |-> card[p].listing]]]
    /\ card' = [card EXCEPT ![p] = NoCard]
    /\ UNCHANGED <<hash, relation, status, rejected, cases, turns>>

(* defer: the version is checked by a statement of its own, as a load is.  *)
Defer(p) ==
    LET c == card[p].case IN
    /\ card[p].pc = "loaded"
    /\ MayOpen(c)
    /\ card' = Outdated([card EXCEPT ![p] = NoCard], {c})
    /\ cases' = [cases EXCEPT ![c].status = "deferred"]
    /\ UNCHANGED <<hash, relation, status, rejected, matcher, turns>>

(* assign checks nothing: a person, or nobody, takes the case of a card.   *)
Assign(p, to) ==
    LET c == card[p].case IN
    /\ card[p].pc = "looking"
    /\ MayOpen(c)
    /\ card' = Outdated([card EXCEPT ![p] = NoCard], {c})
    /\ cases' = [cases EXCEPT ![c].status = to]
    /\ UNCHANGED <<hash, relation, status, rejected, matcher, turns>>

(* The retention job: a deferred case is open again when its time is over. *)
Undefer(c) ==
    /\ cases[c].status = "deferred"
    /\ cases' = [cases EXCEPT ![c].status = "open"]
    /\ UNCHANGED <<hash, relation, status, rejected, matcher, card, turns>>

-----------------------------------------------------------------------------
(* persistListing finds another product behind the listing: its verified   *)
(* relation drifts, and a case asks what to do with it.                    *)
Drift(l) ==
    LET V == {v \in Variants : Active(v, l)}
        new == {v \in V : OpenCases("mapping_drift", v, ShopOf[l]) = {}}
    IN  /\ hash[l] < MaxDrifts
        /\ hash' = [hash EXCEPT ![l] = @ + 1]
        /\ relation' = [q \in Variants \X Listings |->
             IF q[2] = l /\ Verified(q[1], l)
               THEN [relation[q] EXCEPT !.status = "drifted"] ELSE relation[q]]
        /\ \E f \in [new -> Unused] :
              /\ \A v, w \in new : f[v] = f[w] => v = w
              /\ cases' = [c \in Cases |->
                   IF \E v \in new : f[v] = c
                     THEN NewCase("mapping_drift", CHOOSE v \in new : f[v] = c, l)
                     ELSE cases[c]]
        /\ UNCHANGED <<status, rejected, matcher, card, turns>>

(* markListingMissing takes the status of the pairs of a listing down.     *)
Missing(l) ==
    /\ status' = [q \in Variants \X Shops |->
         IF q[2] = ShopOf[l] /\ Active(q[1], l) /\ status[q].is # "none"
           THEN Demoted(status[q]) ELSE status[q]]
    /\ UNCHANGED <<hash, relation, rejected, cases, matcher, card, turns>>

-----------------------------------------------------------------------------
Init ==
    /\ hash = [l \in Listings |-> 0]
    /\ relation = [q \in Variants \X Listings |-> NoRelation]
    /\ status = [q \in Variants \X Shops |-> [is |-> "none", listing |-> None]]
    /\ rejected = {}
    /\ cases = [c \in Cases |-> NoCase]
    /\ matcher = [m \in Matchers |-> Idle]
    /\ card = [p \in Reviewers |-> NoCard]
    /\ turns = 0

Persist(m) ==
    \/ PersistVerified(m)
    \/ PersistConfirmed(m)
    \/ PersistRejected(m)
    \/ PersistNoMatch(m)
    \/ PersistReview(m)

MatcherStep(m) ==
    \/ \E v \in Variants :
          \/ \E s \in Shops : Search(m, v, s)
          \/ \E l \in Listings : Cluster(m, v, l) \/ LinkNew(m, v, l)
          \/ LinkPromoted(m, v)
    \/ ReadVerified(m)
    \/ Persist(m)
    \/ LabelLinked(m)
    \/ ClosePromoted(m)
    \/ MatcherDies(m)

Decides(p) ==
    \/ \E l \in Listings : Approve(p, l) \/ Reject(p, l)
    \/ MarkNotFound(p)

ReviewerStep(p) ==
    \/ \E c \in Cases : Look(p, c)
    \/ PutAway(p)
    \/ LoadOpenCase(p)
    \/ Decides(p)
    \/ \E l \in Listings, others \in SUBSET Listings : SelectCandidate(p, l, others)
    \/ EditCanonical(p)
    \/ \E m \in Matchers : PromoteListing(p, m)
    \/ Defer(p)
    \/ \E to \in {"open", "in_progress"} : Assign(p, to)

Next ==
    \/ \E m \in Matchers : MatcherStep(m)
    \/ \E p \in Reviewers : ReviewerStep(p)
    \/ \E c \in Cases : Undefer(c)
    \/ \E l \in Listings : Drift(l) \/ Missing(l)

Spec == Init /\ [][Next]_vars

-----------------------------------------------------------------------------
(* For each listing, the pairs it is verified for.                         *)
VerifiedPairs ==
    [l \in Listings |->
        {<<v, relation[<<v, l>>].word>> : v \in {w \in Variants : Verified(w, l)}}]

Register == INSTANCE DecisionRegister WITH verified <- VerifiedPairs

(* Whatever searches, clusterings, promotions and reviews of the same      *)
(* listing do to each other, a listing is verified for one variant at most *)
(* and the matcher never takes it from the variant a person has verified   *)
(* it for (persistDecision, match_relations_one_verified_per_listing).     *)
PersonOverMatcher == Register!Spec

(* What a person has begun or put off is not closed by the matcher, nor    *)
(* made new (persistDecision: "az emberi szandek erosebb").                *)
TakenCasesLeft ==
    [][\A m \in Matchers : Persist(m) =>
         \A c \in Cases : cases[c].status \in {"in_progress", "deferred"} =>
             cases'[c].status = cases[c].status]_vars

(* A pair is one question: however often it is evaluated, deferred, taken  *)
(* and given back, one case of each kind is open for a variant in a shop.  *)
OneQuestion ==
    \A v \in Variants, s \in Shops, type \in {"pair", "mapping_drift"} :
        Cardinality(OpenCases(type, v, s)) <= 1
=============================================================================
