------------------------- MODULE MatchReviewProofs -------------------------
(***************************************************************************)
(* Proofs for MatchReview, for any variants, listings, shops, matchers and *)
(* reviewers and any bounds: a pair is one question, the matcher leaves    *)
(* people's cases alone, and what is verified follows DecisionRegister.    *)
(*                                                                         *)
(* The cards and the jobs outlive the transactions they were read in.      *)
(* What makes the invariants inductive is that a case someone holds is not *)
(* used for another question meanwhile (Held).                             *)
(***************************************************************************)
EXTENDS MatchReview, FiniteSetTheorems, TLAPS

MatcherRow ==
    [pc : {"idle", "decided", "checked", "queued", "linked", "labelled"},
     origin : {"none", "search", "cluster", "promote"},
     variant : Variants \cup {None}, shop : Shops \cup {None},
     decision : Decision, verified : SUBSET Listings,
     case : Cases \cup {None}]

CardRow ==
    [pc : {"none", "looking", "loaded"}, case : Cases \cup {None},
     current : BOOLEAN, listing : Listings \cup {None}]

(* A job that has decided knows for which variant and shop, and one that   *)
(* promotes a listing knows the listing and the case.                      *)
Ready(r) ==
    /\ r.pc \in {"decided", "checked"} => r.variant \in Variants /\ r.shop \in Shops
    /\ r.pc = "queued" => r.decision.is = "human_verified" /\ r.case \in Cases
    /\ r.pc = "linked" =>
          /\ r.variant \in Variants /\ r.shop \in Shops
          /\ r.decision.is \in {"auto_verified", "human_verified"}
    /\ r.pc = "labelled" => r.case \in Cases

Prepared == \A m \in Matchers : Ready(matcher[m])

(* The case of a card or a job is still the question it was.               *)
Held ==
    /\ \A m \in Matchers :
          matcher[m].case \in Cases => cases[matcher[m].case].status # "none"
    /\ \A p \in Reviewers :
          /\ card[p].pc # "none" =>
                card[p].case \in Cases /\ cases[card[p].case].status # "none"
          /\ card[p].pc = "loaded" =>
                /\ card[p].listing \in Listings
                /\ ShopOf[cases[card[p].case].listing] = ShopOf[card[p].listing]

Same(c, d) ==
    /\ cases[c].status \in Open /\ cases[d].status \in Open
    /\ cases[c].type = cases[d].type /\ cases[c].variant = cases[d].variant
    /\ ShopOf[cases[c].listing] = ShopOf[cases[d].listing]

OneEach == \A c, d \in Cases : Same(c, d) => c = d

ReviewInv == TypeOK /\ Prepared /\ Held /\ OneEach

-----------------------------------------------------------------------------
LEMMA RowsTyped ==
    TypeOK <=> /\ turns \in 0..MaxTurns
               /\ hash \in [Listings -> Hashes]
               /\ relation \in [Variants \X Listings -> RelationRow]
               /\ status \in [Variants \X Shops -> StatusRow]
               /\ rejected \subseteq Variants \X Listings \X Hashes
               /\ cases \in [Cases -> CaseRow]
               /\ matcher \in [Matchers -> MatcherRow]
               /\ card \in [Reviewers -> CardRow]
BY DEF TypeOK, MatcherRow, CardRow

LEMMA ConstantRows ==
    /\ NoRelation \in RelationRow
    /\ \A w \in Words : [status |-> "verified", word |-> w] \in RelationRow
    /\ Idle \in MatcherRow /\ NoCard \in CardRow /\ NoDecision \in Decision
    /\ [is |-> "searched", listing |-> None] \in StatusRow
    /\ [is |-> "none", listing |-> None] \in StatusRow
    /\ \A l \in Listings : /\ [is |-> "auto_verified", listing |-> l] \in StatusRow
                           /\ [is |-> "human_verified", listing |-> l] \in StatusRow
    /\ \A row \in StatusRow : Demoted(row) \in StatusRow
    /\ NoCase \in CaseRow
    /\ \A type \in {"pair", "mapping_drift"}, v \in Variants, l \in Listings :
          NewCase(type, v, l) \in CaseRow
BY DEF NoRelation, RelationRow, Idle, MatcherRow, NoCard, CardRow, NoDecision, Decision,
       StatusRow, Demoted, NoCase, CaseRow, NewCase, Open

(* A case that is a question has a variant and a listing.                  *)
LEMMA CaseParts ==
    ASSUME NEW r \in CaseRow, r.status # "none"
    PROVE  /\ r \in [status : Open \cup {"resolved"}, type : {"pair", "mapping_drift"},
                     variant : Variants, listing : Listings]
           /\ r.variant \in Variants /\ r.listing \in Listings
           /\ r.type \in {"pair", "mapping_drift"}
BY DEF CaseRow, NoCase

LEMMA StatusUpdate ==
    ASSUME NEW r \in CaseRow, r.status # "none", NEW st \in Open \cup {"resolved"},
           NEW q, q = [r EXCEPT !.status = st]
    PROVE  /\ q \in CaseRow /\ q.status = st
           /\ q.type = r.type /\ q.variant = r.variant /\ q.listing = r.listing
<1>1. r \in [status : Open \cup {"resolved"}, type : {"pair", "mapping_drift"},
             variant : Variants, listing : Listings]
    BY CaseParts
<1> QED
    BY <1>1 DEF CaseRow

LEMMA ListingUpdate ==
    ASSUME NEW r \in CaseRow, r.status # "none", NEW l \in Listings,
           NEW q, q = [r EXCEPT !.listing = l]
    PROVE  /\ q \in CaseRow /\ q.status = r.status
           /\ q.type = r.type /\ q.variant = r.variant /\ q.listing = l
<1>1. r \in [status : Open \cup {"resolved"}, type : {"pair", "mapping_drift"},
             variant : Variants, listing : Listings]
    BY CaseParts
<1> QED
    BY <1>1 DEF CaseRow

LEMMA OutdatedCards ==
    ASSUME NEW cards \in [Reviewers -> CardRow], NEW C
    PROVE  /\ Outdated(cards, C) \in [Reviewers -> CardRow]
           /\ \A p \in Reviewers :
                /\ Outdated(cards, C)[p].pc = cards[p].pc
                /\ Outdated(cards, C)[p].case = cards[p].case
                /\ Outdated(cards, C)[p].listing = cards[p].listing
BY DEF Outdated, CardRow

LEMMA DecisionListing ==
    ASSUME NEW d \in Decision,
           d.is \in {"auto_verified", "human_verified", "needs_review", "rejected"}
    PROVE  d.listing \in Listings
BY DEF Decision, NoDecision

-----------------------------------------------------------------------------
(* What a step may do to the cases: a case in use stays the same question. *)
Stays(c) ==
    /\ cases'[c].status # "none"
    /\ cases'[c].type = cases[c].type /\ cases'[c].variant = cases[c].variant
    /\ ShopOf[cases'[c].listing] = ShopOf[cases[c].listing]

CasesMove ==
    /\ cases' \in [Cases -> CaseRow]
    /\ \A c \in Cases \ Unused : cases[c].status # "none" => Stays(c)

LEMMA CasesUnchanged ==
    ASSUME ReviewInv, UNCHANGED cases
    PROVE  CasesMove /\ OneEach'
BY DEF ReviewInv, TypeOK, CasesMove, Stays, OneEach, Same

LEMMA ResolveMove ==
    ASSUME ReviewInv, NEW C, cases' = Resolved(C),
           \A c \in Cases : c \in C => cases[c].status # "none"
    PROVE  CasesMove /\ OneEach'
<1>1. cases \in [Cases -> CaseRow]
    BY DEF ReviewInv, TypeOK
<1>2. ASSUME NEW c \in Cases
      PROVE  /\ cases'[c] \in CaseRow
             /\ cases[c].status # "none" => Stays(c)
             /\ cases'[c].status \in Open => cases'[c] = cases[c]
  <2>1. CASE c \notin C
      BY <1>1, <2>1 DEF Resolved, Stays
  <2>2. CASE c \in C
    <3>1. cases'[c] = [cases[c] EXCEPT !.status = "resolved"]
        BY <2>2 DEF Resolved
    <3>2. cases[c] \in CaseRow /\ cases[c].status # "none"
        BY <1>1, <2>2
    <3>3. /\ cases'[c] \in CaseRow /\ cases'[c].status = "resolved"
          /\ cases'[c].type = cases[c].type /\ cases'[c].variant = cases[c].variant
          /\ cases'[c].listing = cases[c].listing
        BY <3>1, <3>2, StatusUpdate
    <3> QED
        BY <3>3 DEF Stays, Open
  <2> QED
      BY <2>1, <2>2
<1>3. cases' \in [Cases -> CaseRow]
    BY <1>2 DEF Resolved
<1>4. OneEach'
    BY <1>2 DEF ReviewInv, OneEach, Same
<1> QED
    BY <1>2, <1>3, <1>4 DEF CasesMove

(* Another listing of the same shop: the question is the same.             *)
LEMMA ListingMove ==
    ASSUME ReviewInv, NEW c \in Cases, NEW l \in Listings,
           cases[c].status # "none", ShopOf[cases[c].listing] = ShopOf[l],
           cases' = [cases EXCEPT ![c].listing = l]
    PROVE  CasesMove /\ OneEach'
<1>1. cases \in [Cases -> CaseRow] /\ cases[c] \in CaseRow
    BY DEF ReviewInv, TypeOK
<1>2. /\ cases'[c] = [cases[c] EXCEPT !.listing = l]
      /\ \A d \in Cases : d # c => cases'[d] = cases[d]
    BY <1>1
<1>3. /\ cases'[c] \in CaseRow /\ cases'[c].status = cases[c].status
      /\ cases'[c].type = cases[c].type /\ cases'[c].variant = cases[c].variant
      /\ cases'[c].listing = l
    BY <1>1, <1>2, ListingUpdate
<1>4. cases' \in [Cases -> CaseRow]
    BY <1>1, <1>2, <1>3
<1>5. \A d \in Cases : cases[d].status # "none" => Stays(d)
    BY <1>2, <1>3 DEF Stays
<1>6. OneEach'
    BY <1>2, <1>3 DEF ReviewInv, OneEach, Same
<1> QED
    BY <1>4, <1>5, <1>6 DEF CasesMove

(* A case is opened, or stays open in another way, where it may.           *)
LEMMA StatusMove ==
    ASSUME ReviewInv, NEW c \in Cases, NEW st \in Open,
           cases[c].status # "none", cases[c].status \in Open \/ MayOpen(c),
           cases' = [cases EXCEPT ![c].status = st]
    PROVE  CasesMove /\ OneEach'
<1>1. cases \in [Cases -> CaseRow] /\ cases[c] \in CaseRow
    BY DEF ReviewInv, TypeOK
<1>2. /\ cases'[c] = [cases[c] EXCEPT !.status = st]
      /\ \A d \in Cases : d # c => cases'[d] = cases[d]
    BY <1>1
<1>4. /\ cases'[c] \in CaseRow /\ cases'[c].status = st
      /\ cases'[c].type = cases[c].type /\ cases'[c].variant = cases[c].variant
      /\ cases'[c].listing = cases[c].listing
    BY <1>1, <1>2, StatusUpdate
<1>5. cases' \in [Cases -> CaseRow]
    BY <1>1, <1>2, <1>4
<1>6. \A d \in Cases : cases[d].status # "none" => Stays(d)
    BY <1>2, <1>4 DEF Stays, Open
<1>7. ASSUME NEW d \in Cases, d # c,
             cases[d].status \in Open, cases[d].type = cases[c].type,
             cases[d].variant = cases[c].variant,
             ShopOf[cases[d].listing] = ShopOf[cases[c].listing]
      PROVE  FALSE
  <2>1. CASE cases[c].status \in Open
      BY <1>7, <2>1 DEF ReviewInv, OneEach, Same
  <2>2. CASE MayOpen(c)
      BY <1>7, <2>2 DEF MayOpen, OpenCases
  <2> QED
      BY <2>1, <2>2
<1>8. OneEach'
    BY <1>2, <1>4, <1>7 DEF ReviewInv, OneEach, Same
<1> QED
    BY <1>5, <1>6, <1>8 DEF CasesMove

(* New cases, one each, for questions that nobody asks yet.                *)
LEMMA NewMove ==
    ASSUME ReviewInv, NEW type \in {"pair", "mapping_drift"}, NEW l \in Listings,
           NEW V \in SUBSET Variants, \A v \in V : OpenCases(type, v, ShopOf[l]) = {},
           NEW f \in [V -> Unused], \A v, w \in V : f[v] = f[w] => v = w,
           cases' = [c \in Cases |->
               IF \E v \in V : f[v] = c
                 THEN NewCase(type, CHOOSE v \in V : f[v] = c, l) ELSE cases[c]]
    PROVE  CasesMove /\ OneEach'
<1>1. cases \in [Cases -> CaseRow]
    BY DEF ReviewInv, TypeOK
<1>2. \A v \in V : f[v] \in Unused /\ f[v] \in Cases /\ (CHOOSE w \in V : f[w] = f[v]) = v
  <2> TAKE v \in V
  <2>1. f[v] \in Unused /\ Unused \subseteq Cases
      BY DEF Unused
  <2>2. (CHOOSE w \in V : f[w] = f[v]) \in V /\ f[CHOOSE w \in V : f[w] = f[v]] = f[v]
      OBVIOUS
  <2> QED
      BY <2>1, <2>2
<1>3. \A v \in V : cases'[f[v]] = NewCase(type, v, l)
    BY <1>2
<1>4. \A c \in Cases : (\A v \in V : f[v] # c) => cases'[c] = cases[c]
    OBVIOUS
<1>5. ASSUME NEW c \in Cases PROVE cases'[c] \in CaseRow
  <2>1. CASE \E v \in V : f[v] = c
      BY <1>3, <2>1, ConstantRows
  <2>2. CASE \A v \in V : f[v] # c
      BY <1>1, <1>4, <2>2
  <2> QED
      BY <2>1, <2>2
<1>6. cases' \in [Cases -> CaseRow]
    BY <1>5
<1>7. \A c \in Cases \ Unused : cases'[c] = cases[c]
    BY <1>2, <1>4
<1>8. ASSUME NEW v \in V, NEW d \in Cases, \A w \in V : f[w] # d
      PROVE  ~Same(f[v], d)' /\ ~Same(d, f[v])'
  <2>1. cases'[f[v]] = NewCase(type, v, l) /\ cases'[d] = cases[d] /\ f[v] \in Cases
      BY <1>2, <1>3, <1>4, <1>8
  <2>2. ~(/\ cases[d].status \in Open /\ cases[d].type = type
          /\ cases[d].variant = v /\ ShopOf[cases[d].listing] = ShopOf[l])
      BY DEF OpenCases
  <2>3. /\ NewCase(type, v, l).type = type /\ NewCase(type, v, l).variant = v
        /\ NewCase(type, v, l).listing = l
      BY DEF NewCase
  <2> QED
      BY <2>1, <2>2, <2>3 DEF Same
<1>9. ASSUME NEW v \in V, NEW w \in V, Same(f[v], f[w])'
      PROVE  v = w
  <2>1. cases'[f[v]] = NewCase(type, v, l) /\ cases'[f[w]] = NewCase(type, w, l)
      BY <1>3
  <2>2. NewCase(type, v, l).variant = v /\ NewCase(type, w, l).variant = w
      BY DEF NewCase
  <2> QED
      BY <1>9, <2>1, <2>2 DEF Same
<1>10. OneEach'
  <2> SUFFICES ASSUME NEW c \in Cases, NEW d \in Cases, Same(c, d)' PROVE c = d
      BY DEF OneEach
  <2>1. CASE (\A v \in V : f[v] # c) /\ (\A v \in V : f[v] # d)
      BY <1>4, <2>1 DEF ReviewInv, OneEach, Same
  <2>2. CASE \E v \in V : f[v] = c
      BY <1>8, <1>9, <2>2
  <2>3. CASE \E v \in V : f[v] = d
      BY <1>8, <1>9, <2>3
  <2> QED
      BY <2>1, <2>2, <2>3
<1> QED
    BY <1>6, <1>7, <1>10 DEF CasesMove, Stays

-----------------------------------------------------------------------------
(* A job goes on with the case it had, or with none.                       *)
JobsKeep == \A m \in Matchers :
    matcher'[m].case \in Cases => matcher'[m].case = matcher[m].case

(* A card is put away, or shows what it did.                               *)
CardsKeep == \A p \in Reviewers : card'[p].pc # "none" =>
    /\ card'[p].pc = card[p].pc /\ card'[p].case = card[p].case
    /\ card'[p].listing = card[p].listing

LEMMA HeldKept ==
    ASSUME ReviewInv, CasesMove, JobsKeep, CardsKeep
    PROVE  Held'
<1>1. \A c \in Cases : (\E m \in Matchers : matcher[m].case = c)
                          \/ (\E p \in Reviewers : card[p].case = c) => c \notin Unused
    BY DEF Unused
<1>2. ASSUME NEW m \in Matchers, matcher'[m].case \in Cases
      PROVE  cases'[matcher'[m].case].status # "none"
  <2>1. matcher'[m].case = matcher[m].case /\ cases[matcher[m].case].status # "none"
      BY <1>2 DEF JobsKeep, ReviewInv, Held
  <2> QED
      BY <1>1, <1>2, <2>1 DEF CasesMove, Stays
<1>3. ASSUME NEW p \in Reviewers, card'[p].pc # "none"
      PROVE  /\ card'[p].case \in Cases /\ cases'[card'[p].case].status # "none"
             /\ card'[p].pc = "loaded" =>
                   /\ card'[p].listing \in Listings
                   /\ ShopOf[cases'[card'[p].case].listing] = ShopOf[card'[p].listing]
  <2> DEFINE c == card[p].case
  <2>1. card'[p].pc = card[p].pc /\ card'[p].case = c /\ card'[p].listing = card[p].listing
      BY <1>3 DEF CardsKeep
  <2>2. c \in Cases /\ cases[c].status # "none" /\ c \notin Unused
      BY <1>1, <1>3, <2>1 DEF ReviewInv, Held
  <2>3. Stays(c)
      BY <2>2 DEF CasesMove
  <2> QED
      BY <1>3, <2>1, <2>2, <2>3 DEF ReviewInv, Held, Stays
<1> QED
    BY <1>2, <1>3 DEF Held

LEMMA MatcherMove ==
    ASSUME ReviewInv, NEW m \in Matchers, NEW r \in MatcherRow, Ready(r),
           r.case \in {None, matcher[m].case}, matcher' = [matcher EXCEPT ![m] = r]
    PROVE  matcher' \in [Matchers -> MatcherRow] /\ Prepared' /\ JobsKeep
<1>1. matcher \in [Matchers -> MatcherRow]
    BY RowsTyped DEF ReviewInv
<1>2. \A k \in Matchers : matcher'[k] = IF k = m THEN r ELSE matcher[k]
    BY <1>1
<1>3. matcher' \in [Matchers -> MatcherRow]
    BY <1>1
<1>4. Prepared'
    BY <1>2 DEF ReviewInv, Prepared, Ready
<1>5. JobsKeep
    BY <1>2, MatchAssumption DEF JobsKeep
<1> QED
    BY <1>3, <1>4, <1>5

LEMMA Rests ==
    ASSUME ReviewInv, NEW m \in Matchers, matcher' = [matcher EXCEPT ![m] = Idle]
    PROVE  matcher' \in [Matchers -> MatcherRow] /\ Prepared' /\ JobsKeep
<1>1. Idle \in MatcherRow /\ Ready(Idle) /\ Idle.case = None
    BY ConstantRows DEF Idle, Ready
<1> QED
    BY <1>1, MatcherMove

LEMMA MatchersUnchanged ==
    ASSUME ReviewInv, UNCHANGED matcher
    PROVE  matcher' \in [Matchers -> MatcherRow] /\ Prepared' /\ JobsKeep
BY RowsTyped DEF ReviewInv, Prepared, Ready, JobsKeep

LEMMA CardsUnchanged ==
    ASSUME ReviewInv, UNCHANGED card
    PROVE  card' \in [Reviewers -> CardRow] /\ CardsKeep
BY RowsTyped DEF ReviewInv, CardsKeep

LEMMA CardsOutdated ==
    ASSUME ReviewInv, NEW C, card' = Outdated(card, C)
    PROVE  card' \in [Reviewers -> CardRow] /\ CardsKeep
BY RowsTyped, OutdatedCards DEF ReviewInv, CardsKeep

LEMMA CardPutAway ==
    ASSUME ReviewInv, NEW p \in Reviewers, NEW C,
           \/ card' = Outdated([card EXCEPT ![p] = NoCard], C)
           \/ card' = [card EXCEPT ![p] = NoCard]
    PROVE  card' \in [Reviewers -> CardRow] /\ CardsKeep
<1>1. card \in [Reviewers -> CardRow] /\ NoCard.pc = "none"
    BY RowsTyped DEF ReviewInv, NoCard
<1>2. [card EXCEPT ![p] = NoCard] \in [Reviewers -> CardRow]
    BY <1>1, ConstantRows
<1>3. \A q \in Reviewers : /\ q # p => [card EXCEPT ![p] = NoCard][q] = card[q]
                           /\ q = p => [card EXCEPT ![p] = NoCard][q] = NoCard
    BY <1>1
<1> DEFINE away == [card EXCEPT ![p] = NoCard]
<1> HIDE DEF away
<1>4. CASE card' = Outdated(away, C)
  <2>1. /\ Outdated(away, C) \in [Reviewers -> CardRow]
        /\ \A q \in Reviewers : /\ Outdated(away, C)[q].pc = away[q].pc
                                 /\ Outdated(away, C)[q].case = away[q].case
                                 /\ Outdated(away, C)[q].listing = away[q].listing
      BY <1>2, OutdatedCards DEF away
  <2> QED
      BY <1>1, <1>3, <1>4, <2>1 DEF CardsKeep, away
<1>5. CASE card' = away
    BY <1>1, <1>2, <1>3, <1>5 DEF CardsKeep, away
<1> QED
    BY <1>4, <1>5 DEF away

(* What a step has to show, table by table.                                *)
LEMMA Assembled ==
    ASSUME ReviewInv,
           turns' \in 0..MaxTurns, hash' \in [Listings -> Hashes],
           relation' \in [Variants \X Listings -> RelationRow],
           status' \in [Variants \X Shops -> StatusRow],
           rejected' \subseteq Variants \X Listings \X Hashes,
           matcher' \in [Matchers -> MatcherRow], Prepared', JobsKeep,
           card' \in [Reviewers -> CardRow], CardsKeep,
           CasesMove, OneEach'
    PROVE  ReviewInv'
<1>1. Held'
    BY HeldKept
<1>2. TypeOK'
    BY DEF TypeOK, MatcherRow, CardRow, CasesMove
<1> QED
    BY <1>1, <1>2 DEF ReviewInv

-----------------------------------------------------------------------------
LEMMA TurnTyped ==
    ASSUME ReviewInv, Turn \/ UNCHANGED turns
    PROVE  turns' \in 0..MaxTurns
BY MatchAssumption DEF ReviewInv, TypeOK, Turn

(* The variables of the tables, as they are.                               *)
LEMMA Tables ==
    ASSUME ReviewInv
    PROVE  /\ hash \in [Listings -> Hashes]
           /\ relation \in [Variants \X Listings -> RelationRow]
           /\ status \in [Variants \X Shops -> StatusRow]
           /\ rejected \subseteq Variants \X Listings \X Hashes
           /\ cases \in [Cases -> CaseRow]
           /\ matcher \in [Matchers -> MatcherRow]
           /\ card \in [Reviewers -> CardRow]
BY RowsTyped DEF ReviewInv

LEMMA EvaluateKeeps ==
    ASSUME ReviewInv, NEW m \in Matchers, NEW v \in Variants,
           \/ \E s \in Shops : Search(m, v, s)
           \/ \E l \in Listings : Cluster(m, v, l)
    PROVE  ReviewInv'
<1>1. PICK s \in Shops, o \in {"search", "cluster"}, d \in Decision :
          matcher' = [matcher EXCEPT ![m] =
              [Idle EXCEPT !.pc = "decided", !.origin = o,
                           !.variant = v, !.shop = s, !.decision = d]]
  <2>1. CASE \E s \in Shops : Search(m, v, s)
    <3>1. PICK s \in Shops : Search(m, v, s)
        BY <2>1
    <3>2. SearchDecisions(v, s) \subseteq Decision
      <4>1. Candidates(v, s) \subseteq Listings
          BY DEF Candidates, ListingsOf
      <4>2. ASSUME NEW S \in SUBSET Listings,
                   NEW is \in {"auto_verified", "human_verified", "needs_review", "rejected"}
            PROVE  [is : {is}, listing : S] \subseteq Decision
          BY DEF Decision
      <4> QED
          BY <4>1 DEF SearchDecisions, Decision
    <3> QED
        BY <3>1, <3>2 DEF Search
  <2>2. CASE \E l \in Listings : Cluster(m, v, l)
    <3>1. PICK l \in Listings : Cluster(m, v, l)
        BY <2>2
    <3>2. ClusterDecisions(l) \subseteq Decision /\ ShopOf[l] \in Shops
        BY MatchAssumption DEF ClusterDecisions, Decision
    <3> QED
        BY <3>1, <3>2 DEF Cluster
  <2> QED
      BY <2>1, <2>2
<1> DEFINE r == [Idle EXCEPT !.pc = "decided", !.origin = o, !.variant = v, !.shop = s,
                             !.decision = d]
<1>2. r \in MatcherRow /\ Ready(r) /\ r.case = None
    BY DEF Idle, MatcherRow, Ready
<1> HIDE DEF r
<1>3. matcher' \in [Matchers -> MatcherRow] /\ Prepared' /\ JobsKeep
    BY <1>1, <1>2, MatcherMove DEF r
<1>4. Turn /\ UNCHANGED <<hash, relation, status, rejected, cases, card>>
    BY DEF Search, Cluster
<1> QED
    BY <1>3, <1>4, TurnTyped, Tables, CasesUnchanged, CardsUnchanged, Assembled

(* The row a job leaves after persistDecision.                             *)
LEMMA SearchedTyped ==
    ASSUME ReviewInv, NEW v \in Variants, NEW s \in Shops, Unmatched(v, s) \/ UNCHANGED status
    PROVE  status' \in [Variants \X Shops -> StatusRow]
BY Tables, ConstantRows DEF Unmatched

LEMMA JobParts ==
    ASSUME ReviewInv, NEW m \in Matchers, matcher[m].pc \in {"decided", "checked"}
    PROVE  /\ matcher[m].variant \in Variants /\ matcher[m].shop \in Shops
           /\ matcher[m].decision \in Decision
           /\ matcher[m].decision.is \in {"auto_verified", "human_verified",
                                          "needs_review", "rejected"} =>
                 matcher[m].decision.listing \in Listings
<1>1. Ready(matcher[m]) /\ matcher[m] \in MatcherRow
    BY Tables DEF ReviewInv, Prepared
<1>2. matcher[m].decision \in Decision
    BY <1>1 DEF MatcherRow
<1> QED
    BY <1>1, <1>2, DecisionListing DEF Ready

LEMMA MatchedTyped ==
    ASSUME ReviewInv, NEW v \in Variants, NEW l \in Listings
    PROVE  MatchedRelation(v, l) \in [Variants \X Listings -> RelationRow]
<1>1. Active(v, l) => relation[<<v, l>>].word \in Words
    BY Tables DEF Active, RelationRow, NoRelation
<1>2. \A w \in Words : [status |-> "verified", word |-> w] \in RelationRow
    BY ConstantRows
<1>3. "matched" \in Words
    BY DEF Words
<1>4. NoRelation \in RelationRow
    BY ConstantRows
<1> QED
    BY <1>1, <1>2, <1>3, <1>4, Tables DEF MatchedRelation

LEMMA ClosedAutomatically ==
    ASSUME ReviewInv, NEW v, NEW s, CloseAutomatically(v, s)
    PROVE  card' \in [Reviewers -> CardRow] /\ CardsKeep /\ CasesMove /\ OneEach'
<1>1. \A c \in Cases : c \in AutoResolvable(v, s) => cases[c].status # "none"
    BY DEF AutoResolvable
<1> QED
    BY <1>1, ResolveMove, CardsOutdated DEF CloseAutomatically

LEMMA VerifiedKeeps ==
    ASSUME ReviewInv, NEW m \in Matchers, PersistVerified(m)
    PROVE  ReviewInv'
<1> DEFINE v == matcher[m].variant
           l == matcher[m].decision.listing
           s == matcher[m].shop
<1>1. v \in Variants /\ s \in Shops /\ l \in Listings
    BY JobParts DEF PersistVerified
<1>2. matcher' \in [Matchers -> MatcherRow] /\ Prepared' /\ JobsKeep
    BY Rests DEF PersistVerified
<1>3. UNCHANGED <<hash, rejected, turns>>
    BY DEF PersistVerified
<1>4. CASE UNCHANGED <<relation, status, cases, card>>
    BY <1>2, <1>3, <1>4, TurnTyped, Tables, CasesUnchanged, CardsUnchanged, Assembled
<1>5. CASE /\ relation' = MatchedRelation(v, l)
           /\ Labelled(v, s, "auto_verified", l)
           /\ CloseAutomatically(v, s)
  <2>1. relation' \in [Variants \X Listings -> RelationRow]
      BY <1>1, <1>5, MatchedTyped
  <2>2. status' \in [Variants \X Shops -> StatusRow]
      BY <1>1, <1>5, Tables, ConstantRows DEF Labelled
  <2>3. card' \in [Reviewers -> CardRow] /\ CardsKeep /\ CasesMove /\ OneEach'
      BY <1>5, ClosedAutomatically
  <2> QED
      BY <1>2, <1>3, <2>1, <2>2, <2>3, TurnTyped, Tables, Assembled
<1> QED
    BY <1>4, <1>5 DEF PersistVerified

LEMMA ConfirmedKeeps ==
    ASSUME ReviewInv, NEW m \in Matchers, PersistConfirmed(m)
    PROVE  ReviewInv'
<1>1. /\ matcher[m].variant \in Variants /\ matcher[m].shop \in Shops
      /\ matcher[m].decision.listing \in Listings
    BY JobParts DEF PersistConfirmed
<1>2. status' \in [Variants \X Shops -> StatusRow]
    BY <1>1, Tables, ConstantRows DEF PersistConfirmed, Labelled
<1>3. matcher' \in [Matchers -> MatcherRow] /\ Prepared' /\ JobsKeep
    BY Rests DEF PersistConfirmed
<1>4. UNCHANGED <<hash, relation, rejected, cases, card, turns>>
    BY DEF PersistConfirmed
<1> QED
    BY <1>2, <1>3, <1>4, TurnTyped, Tables, CasesUnchanged, CardsUnchanged, Assembled

LEMMA RejectedKeeps ==
    ASSUME ReviewInv, NEW m \in Matchers, PersistRejected(m)
    PROVE  ReviewInv'
<1> DEFINE v == matcher[m].variant
           l == matcher[m].decision.listing
<1>1. v \in Variants /\ matcher[m].shop \in Shops /\ l \in Listings
    BY JobParts DEF PersistRejected
<1>2. matcher' \in [Matchers -> MatcherRow] /\ Prepared' /\ JobsKeep
    BY Rests DEF PersistRejected
<1>3. status' \in [Variants \X Shops -> StatusRow]
    BY <1>1, SearchedTyped DEF PersistRejected
<1>4. rejected' \subseteq Variants \X Listings \X Hashes
    BY <1>1, Tables DEF PersistRejected
<1>5. card' \in [Reviewers -> CardRow] /\ CardsKeep /\ CasesMove /\ OneEach'
    BY ClosedAutomatically DEF PersistRejected
<1>6. UNCHANGED <<hash, relation, turns>>
    BY DEF PersistRejected
<1> QED
    BY <1>2, <1>3, <1>4, <1>5, <1>6, TurnTyped, Tables, Assembled

LEMMA CheckKeeps ==
    ASSUME ReviewInv, NEW m \in Matchers, ReadVerified(m)
    PROVE  ReviewInv'
<1> DEFINE V == {l \in ListingsOf(matcher[m].shop) : Verified(matcher[m].variant, l)}
           r == [matcher[m] EXCEPT !.pc = "checked", !.verified = V]
<1>1. matcher[m] \in MatcherRow /\ Ready(matcher[m]) /\ matcher[m].pc = "decided"
    BY Tables DEF ReviewInv, Prepared, ReadVerified
<1>2. V \subseteq Listings
    BY DEF ListingsOf
<1> HIDE DEF V
<1>3. r \in MatcherRow /\ Ready(r) /\ r.case = matcher[m].case
    BY <1>1, <1>2 DEF MatcherRow, Ready
<1>4. matcher' = [matcher EXCEPT ![m] = r]
    BY Tables DEF ReadVerified, V
<1> HIDE DEF r
<1>5. matcher' \in [Matchers -> MatcherRow] /\ Prepared' /\ JobsKeep
    BY <1>3, <1>4, MatcherMove
<1>6. UNCHANGED <<hash, relation, status, rejected, cases, card, turns>>
    BY DEF ReadVerified
<1> QED
    BY <1>5, <1>6, TurnTyped, Tables, CasesUnchanged, CardsUnchanged, Assembled

LEMMA AskMove ==
    ASSUME ReviewInv, NEW v \in Variants, NEW l \in Listings, Ask(v, l)
    PROVE  card' \in [Reviewers -> CardRow] /\ CardsKeep /\ CasesMove /\ OneEach'
<1>1. CASE \E c \in OpenCases("pair", v, ShopOf[l]) :
              /\ cases' = [cases EXCEPT ![c].listing = l]
              /\ card' = Outdated(card, {c})
  <2>1. PICK c \in OpenCases("pair", v, ShopOf[l]) :
              /\ cases' = [cases EXCEPT ![c].listing = l]
              /\ card' = Outdated(card, {c})
      BY <1>1
  <2>2. /\ c \in Cases /\ cases[c].status # "none"
        /\ ShopOf[cases[c].listing] = ShopOf[l]
      BY DEF OpenCases, Open
  <2> QED
      BY <2>1, <2>2, ListingMove, CardsOutdated
<1>2. CASE /\ OpenCases("pair", v, ShopOf[l]) = {}
           /\ \E c \in Unused : cases' = [cases EXCEPT ![c] = NewCase("pair", v, l)]
           /\ UNCHANGED card
  <2>1. PICK c \in Unused : cases' = [cases EXCEPT ![c] = NewCase("pair", v, l)]
      BY <1>2
  <2> DEFINE f == [w \in {v} |-> c]
  <2>2. f \in [{v} -> Unused] /\ f[v] = c
      OBVIOUS
  <2>3. (CHOOSE w \in {v} : f[w] = c) = v
      BY <2>2
  <2>4. cases \in [Cases -> CaseRow]
      BY Tables
  <2>5. cases' = [d \in Cases |->
               IF \E w \in {v} : f[w] = d
                 THEN NewCase("pair", CHOOSE w \in {v} : f[w] = d, l) ELSE cases[d]]
      BY <2>1, <2>2, <2>3, <2>4
  <2> HIDE DEF f
  <2>6. CasesMove /\ OneEach'
    <3>1. \A w \in {v} : OpenCases("pair", w, ShopOf[l]) = {}
        BY <1>2
    <3>2. \A w, x \in {v} : f[w] = f[x] => w = x
        OBVIOUS
    <3>3. {v} \in SUBSET Variants
        OBVIOUS
    <3> QED
        BY <2>2, <2>5, <3>1, <3>2, <3>3, NewMove
  <2> QED
      BY <1>2, <2>6, CardsUnchanged
<1> QED
    BY <1>1, <1>2 DEF Ask

LEMMA QuestionKeeps ==
    ASSUME ReviewInv, NEW m \in Matchers, PersistNoMatch(m) \/ PersistReview(m)
    PROVE  ReviewInv'
<1>1. /\ matcher[m].variant \in Variants /\ matcher[m].shop \in Shops
      /\ matcher[m].decision.is = "needs_review" => matcher[m].decision.listing \in Listings
    BY JobParts DEF PersistNoMatch, PersistReview
<1>2. matcher' \in [Matchers -> MatcherRow] /\ Prepared' /\ JobsKeep
    BY Rests DEF PersistNoMatch, PersistReview
<1>3. status' \in [Variants \X Shops -> StatusRow]
    BY <1>1, SearchedTyped DEF PersistNoMatch, PersistReview, KeepStatus
<1>4. UNCHANGED <<hash, relation, rejected, turns>>
    BY DEF PersistNoMatch, PersistReview
<1>5. CASE UNCHANGED <<cases, card>>
    BY <1>2, <1>3, <1>4, <1>5, TurnTyped, Tables, CasesUnchanged, CardsUnchanged, Assembled
<1>6. CASE /\ matcher[m].decision.is = "needs_review"
           /\ Ask(matcher[m].variant, matcher[m].decision.listing)
  <2>1. card' \in [Reviewers -> CardRow] /\ CardsKeep /\ CasesMove /\ OneEach'
      BY <1>1, <1>6, AskMove
  <2> QED
      BY <1>2, <1>3, <1>4, <2>1, TurnTyped, Tables, Assembled
<1> QED
    BY <1>5, <1>6 DEF PersistNoMatch, PersistReview

LEMMA DieKeeps ==
    ASSUME ReviewInv, NEW m \in Matchers, MatcherDies(m)
    PROVE  ReviewInv'
<1>1. matcher' \in [Matchers -> MatcherRow] /\ Prepared' /\ JobsKeep
    BY Rests DEF MatcherDies
<1>2. UNCHANGED <<hash, relation, status, rejected, cases, card, turns>>
    BY DEF MatcherDies
<1> QED
    BY <1>1, <1>2, TurnTyped, Tables, CasesUnchanged, CardsUnchanged, Assembled

-----------------------------------------------------------------------------
LEMMA LinkKeeps ==
    ASSUME ReviewInv, NEW m \in Matchers, NEW v \in Variants, NEW d \in Decision,
           d.is \in {"auto_verified", "human_verified"}, NEW c \in {None, matcher[m].case},
           Link(m, v, d, c), Turn \/ UNCHANGED turns
    PROVE  ReviewInv'
<1> DEFINE l == d.listing
           r == [Idle EXCEPT !.pc = "linked", !.origin = "promote", !.variant = v,
                             !.shop = ShopOf[l], !.case = c, !.decision = d]
<1>1. l \in Listings /\ ShopOf[l] \in Shops
    BY DecisionListing, MatchAssumption
<1>2. c \in Cases \cup {None}
    BY Tables DEF MatcherRow
<1>3. r \in MatcherRow /\ Ready(r) /\ r.case = c
    BY <1>1, <1>2 DEF Idle, MatcherRow, Ready
<1>4. matcher' = [matcher EXCEPT ![m] = r]
    BY DEF Link
<1> HIDE DEF r
<1>5. matcher' \in [Matchers -> MatcherRow] /\ Prepared' /\ JobsKeep
    BY <1>3, <1>4, MatcherMove
<1>6. relation' \in [Variants \X Listings -> RelationRow]
  <2>1. PICK w \in Words :
            \/ relation' = relation
            \/ relation' = [relation EXCEPT ![<<v, l>>] = [status |-> "verified", word |-> w]]
      BY DEF Link, Words, Human
  <2> QED
      BY <1>1, <2>1, Tables, ConstantRows
<1>7. UNCHANGED <<hash, status, rejected, cases, card>>
    BY DEF Link
<1> QED
    BY <1>5, <1>6, <1>7, TurnTyped, Tables, CasesUnchanged, CardsUnchanged, Assembled

LEMMA PromoteKeeps ==
    ASSUME ReviewInv, NEW m \in Matchers, NEW v \in Variants,
           (\E l \in Listings : LinkNew(m, v, l)) \/ LinkPromoted(m, v)
    PROVE  ReviewInv'
<1>1. CASE \E l \in Listings : LinkNew(m, v, l)
  <2>1. PICK l \in Listings : LinkNew(m, v, l)
      BY <1>1
  <2> DEFINE d == [is |-> "auto_verified", listing |-> l]
  <2>2. d \in Decision /\ d.is = "auto_verified"
      BY DEF Decision
  <2>3. Link(m, v, d, None) /\ Turn
      BY <2>1 DEF LinkNew
  <2> HIDE DEF d
  <2> QED
      BY <2>2, <2>3, LinkKeeps
<1>2. CASE LinkPromoted(m, v)
  <2>1. /\ matcher[m].decision \in Decision /\ matcher[m].decision.is = "human_verified"
        /\ Link(m, v, matcher[m].decision, matcher[m].case) /\ UNCHANGED turns
      BY <1>2, Tables DEF LinkPromoted, ReviewInv, Prepared, Ready, MatcherRow
  <2> QED
      BY <2>1, LinkKeeps
<1> QED
    BY <1>1, <1>2

LEMMA LabelKeeps ==
    ASSUME ReviewInv, NEW m \in Matchers, LabelLinked(m)
    PROVE  ReviewInv'
<1>1. matcher[m] \in MatcherRow /\ Ready(matcher[m]) /\ matcher[m].pc = "linked"
    BY Tables DEF ReviewInv, Prepared, LabelLinked
<1>2. matcher[m].decision \in StatusRow
    BY <1>1 DEF MatcherRow, Ready, Decision, NoDecision, StatusRow
<1>3. status' \in [Variants \X Shops -> StatusRow]
    BY <1>2, Tables, ConstantRows DEF LabelLinked
<1>4. matcher' \in [Matchers -> MatcherRow] /\ Prepared' /\ JobsKeep
  <2>1. CASE matcher[m].case = None
      BY <2>1, Rests DEF LabelLinked
  <2>2. CASE matcher[m].case # None
    <3> DEFINE r == [matcher[m] EXCEPT !.pc = "labelled"]
    <3>1. matcher[m].case \in Cases
        BY <1>1, <2>2 DEF MatcherRow
    <3>2. r \in MatcherRow /\ Ready(r) /\ r.case = matcher[m].case
        BY <1>1, <3>1 DEF MatcherRow, Ready
    <3>3. matcher' = [matcher EXCEPT ![m] = r]
        BY <2>2 DEF LabelLinked
    <3> HIDE DEF r
    <3> QED
        BY <3>2, <3>3, MatcherMove
  <2> QED
      BY <2>1, <2>2
<1>5. UNCHANGED <<hash, relation, rejected, cases, card, turns>>
    BY DEF LabelLinked
<1> QED
    BY <1>3, <1>4, <1>5, TurnTyped, Tables, CasesUnchanged, CardsUnchanged, Assembled

LEMMA CloseKeeps ==
    ASSUME ReviewInv, NEW m \in Matchers, ClosePromoted(m)
    PROVE  ReviewInv'
<1>1. matcher[m].case \in Cases /\ cases[matcher[m].case].status # "none"
    BY DEF ClosePromoted, ReviewInv, Prepared, Ready, Held
<1>2. matcher' \in [Matchers -> MatcherRow] /\ Prepared' /\ JobsKeep
    BY Rests DEF ClosePromoted
<1>3. card' \in [Reviewers -> CardRow] /\ CardsKeep
    BY CardsOutdated DEF ClosePromoted
<1>4. CasesMove /\ OneEach'
  <2>1. cases' = Resolved({matcher[m].case})
      BY DEF ClosePromoted
  <2> QED
      BY <1>1, <2>1, ResolveMove
<1>5. UNCHANGED <<hash, relation, status, rejected, turns>>
    BY DEF ClosePromoted
<1> QED
    BY <1>2, <1>3, <1>4, <1>5, TurnTyped, Tables, Assembled

-----------------------------------------------------------------------------
(* A card that is taken up, or loaded, is of a case as it is.              *)
LEMMA CardMove ==
    ASSUME ReviewInv, NEW p \in Reviewers, NEW r \in CardRow,
           card' = [card EXCEPT ![p] = r],
           UNCHANGED <<hash, relation, status, rejected, cases, matcher>>,
           Turn \/ UNCHANGED turns,
           r.pc # "none" => r.case \in Cases /\ cases[r.case].status # "none",
           r.pc = "loaded" => /\ r.listing \in Listings
                              /\ ShopOf[cases[r.case].listing] = ShopOf[r.listing]
    PROVE  ReviewInv'
<1>1. card' \in [Reviewers -> CardRow]
    BY Tables
<1>2. \A q \in Reviewers : card'[q] = IF q = p THEN r ELSE card[q]
    BY Tables
<1>3. Held'
    BY <1>2 DEF ReviewInv, Held
<1>4. TypeOK'
    BY <1>1, TurnTyped, Tables DEF TypeOK, MatcherRow, CardRow
<1> QED
    BY <1>3, <1>4, CasesUnchanged, MatchersUnchanged DEF ReviewInv

LEMMA LookKeeps ==
    ASSUME ReviewInv, NEW p \in Reviewers,
           (\E c \in Cases : Look(p, c)) \/ PutAway(p) \/ LoadOpenCase(p)
    PROVE  ReviewInv'
<1>1. CASE \E c \in Cases : Look(p, c)
  <2>1. PICK c \in Cases : Look(p, c)
      BY <1>1
  <2> DEFINE r == [NoCard EXCEPT !.pc = "looking", !.case = c, !.current = TRUE]
  <2>2. r \in CardRow /\ r.case = c /\ r.pc = "looking"
      BY DEF NoCard, CardRow
  <2>3. cases[c].status # "none"
      BY <2>1 DEF Look, Open
  <2> HIDE DEF r
  <2> QED
      BY <2>1, <2>2, <2>3, CardMove DEF Look, r
<1>2. CASE PutAway(p)
    BY <1>2, CardMove, ConstantRows DEF PutAway, NoCard
<1>3. CASE LoadOpenCase(p)
  <2> DEFINE l == cases[card[p].case].listing
             r == [card[p] EXCEPT !.pc = "loaded", !.listing = l]
  <2>1. card[p] \in CardRow /\ card[p].case \in Cases /\ cases[card[p].case].status # "none"
      BY <1>3, Tables DEF LoadOpenCase, ReviewInv, Held
  <2>2. l \in Listings
      BY <2>1, Tables, CaseParts
  <2> HIDE DEF l
  <2>3. r \in CardRow /\ r.pc = "loaded" /\ r.case = card[p].case /\ r.listing = l
      BY <2>1, <2>2 DEF CardRow
  <2>4. card' = [card EXCEPT ![p] = r]
      BY <1>3, Tables DEF LoadOpenCase, l
  <2>5. r.listing \in Listings /\ ShopOf[cases[r.case].listing] = ShopOf[r.listing]
      BY <2>2, <2>3 DEF l
  <2>6. UNCHANGED <<hash, relation, status, rejected, cases, matcher, turns>>
      BY <1>3 DEF LoadOpenCase
  <2> HIDE DEF r
  <2> QED
      BY <2>1, <2>3, <2>4, <2>5, <2>6, CardMove
<1> QED
    BY <1>1, <1>2, <1>3

LEMMA LoadedCard ==
    ASSUME ReviewInv, NEW p \in Reviewers, card[p].pc \in {"looking", "loaded"}
    PROVE  /\ card[p].case \in Cases /\ cases[card[p].case].status # "none"
           /\ cases[card[p].case].variant \in Variants
           /\ card[p].pc = "loaded" =>
                /\ card[p].listing \in Listings
                /\ ShopOf[cases[card[p].case].listing] = ShopOf[card[p].listing]
<1>1. card[p].case \in Cases /\ cases[card[p].case].status # "none"
    BY DEF ReviewInv, Held
<1>2. cases[card[p].case].variant \in Variants
    BY <1>1, Tables, CaseParts
<1> QED
    BY <1>1, <1>2 DEF ReviewInv, Held

LEMMA CaseClosed ==
    ASSUME ReviewInv, NEW p \in Reviewers, card[p].pc = "loaded", CloseCase(p)
    PROVE  card' \in [Reviewers -> CardRow] /\ CardsKeep /\ CasesMove /\ OneEach'
<1>1. cases[card[p].case].status # "none"
    BY LoadedCard
<1>2. cases' = Resolved({card[p].case})
    BY DEF CloseCase
<1>3. CasesMove /\ OneEach'
    BY <1>1, <1>2, ResolveMove
<1> QED
    BY <1>3, CardPutAway DEF CloseCase

LEMMA ApprovedTyped ==
    ASSUME ReviewInv, NEW v \in Variants, NEW l \in Listings
    PROVE  ApprovedRelation(v, l) \in [Variants \X Listings -> RelationRow]
<1>1. "approved" \in Words
    BY DEF Words, Human
<1> QED
    BY <1>1, Tables, ConstantRows DEF ApprovedRelation

LEMMA DecideKeeps ==
    ASSUME ReviewInv, NEW p \in Reviewers, Decides(p)
    PROVE  ReviewInv'
<1> DEFINE v == cases[card[p].case].variant
<1>1. card[p].pc = "loaded" /\ CloseCase(p) /\ UNCHANGED <<hash, matcher, turns>>
    BY DEF Decides, Approve, Reject, MarkNotFound
<1>2. v \in Variants /\ card[p].listing \in Listings
    BY <1>1, LoadedCard
<1>3. \A l \in Listings : ShopOf[l] \in Shops
    BY MatchAssumption
<1>4. /\ relation' \in [Variants \X Listings -> RelationRow]
      /\ status' \in [Variants \X Shops -> StatusRow]
      /\ rejected' \subseteq Variants \X Listings \X Hashes
  <2>1. CASE \E l \in Listings : Approve(p, l)
    <3>1. PICK l \in Listings : Approve(p, l)
        BY <2>1
    <3>2. relation' \in [Variants \X Listings -> RelationRow]
        BY <1>2, <3>1, ApprovedTyped DEF Approve
    <3>3. status' \in [Variants \X Shops -> StatusRow]
        BY <1>2, <1>3, <3>1, Tables, ConstantRows DEF Approve, Labelled
    <3> QED
        BY <3>1, <3>2, <3>3, Tables DEF Approve
  <2>2. CASE \E l \in Listings : Reject(p, l)
    <3>1. PICK l \in Listings : Reject(p, l)
        BY <2>2
    <3>2. relation' \in [Variants \X Listings -> RelationRow]
        BY <1>2, <3>1, Tables, ConstantRows DEF Reject
    <3>3. status' \in [Variants \X Shops -> StatusRow]
        BY <1>2, <1>3, <3>1, SearchedTyped DEF Reject
    <3>4. rejected' \subseteq Variants \X Listings \X Hashes
        BY <1>2, <3>1, Tables DEF Reject
    <3> QED
        BY <3>2, <3>3, <3>4
  <2>3. CASE MarkNotFound(p)
      BY <1>2, <1>3, <2>3, Tables, ConstantRows DEF MarkNotFound
  <2> QED
      BY <2>1, <2>2, <2>3 DEF Decides
<1> QED
    BY <1>1, <1>4, CaseClosed, TurnTyped, Tables, MatchersUnchanged, Assembled

LEMMA SelectKeeps ==
    ASSUME ReviewInv, NEW p \in Reviewers, NEW l \in Listings, NEW others \in SUBSET Listings,
           SelectCandidate(p, l, others)
    PROVE  ReviewInv'
<1> DEFINE c == card[p].case
<1>1. /\ c \in Cases /\ cases[c].status # "none" /\ cases[c].variant \in Variants
      /\ ShopOf[cases[c].listing] = ShopOf[l]
    BY LoadedCard DEF SelectCandidate
<1>2. cases' = [cases EXCEPT ![c].listing = l]
    BY DEF SelectCandidate
<1>3. CasesMove /\ OneEach'
    BY <1>1, <1>2, ListingMove
<1>4. card' \in [Reviewers -> CardRow] /\ CardsKeep
    BY CardPutAway DEF SelectCandidate
<1>5. rejected' \subseteq Variants \X Listings \X Hashes
    BY <1>1, Tables DEF SelectCandidate
<1>6. UNCHANGED <<hash, relation, status, matcher, turns>>
    BY DEF SelectCandidate
<1> QED
    BY <1>3, <1>4, <1>5, <1>6, TurnTyped, Tables, MatchersUnchanged, Assembled

LEMMA EditKeeps ==
    ASSUME ReviewInv, NEW p \in Reviewers, EditCanonical(p)
    PROVE  ReviewInv'
<1>1. status' \in [Variants \X Shops -> StatusRow]
    BY Tables, ConstantRows DEF EditCanonical
<1>2. card' \in [Reviewers -> CardRow] /\ CardsKeep
    BY CardPutAway DEF EditCanonical
<1>3. UNCHANGED <<hash, relation, rejected, cases, matcher, turns>>
    BY DEF EditCanonical
<1> QED
    BY <1>1, <1>2, <1>3, TurnTyped, Tables, MatchersUnchanged, CasesUnchanged, Assembled

(* The case passes from the card to the job.                               *)
LEMMA HandOverKeeps ==
    ASSUME ReviewInv, NEW p \in Reviewers, NEW m \in Matchers, PromoteListing(p, m)
    PROVE  ReviewInv'
<1> DEFINE d == [is |-> "human_verified", listing |-> card[p].listing]
           r == [Idle EXCEPT !.pc = "queued", !.origin = "promote", !.case = card[p].case,
                             !.decision = d]
<1>1. /\ card[p].case \in Cases /\ cases[card[p].case].status # "none"
      /\ card[p].listing \in Listings
    BY LoadedCard DEF PromoteListing
<1>2. d \in Decision /\ d.is = "human_verified"
    BY <1>1 DEF Decision
<1>3. matcher' = [matcher EXCEPT ![m] = r]
    BY DEF PromoteListing
<1> HIDE DEF d
<1>4. r \in MatcherRow /\ Ready(r) /\ r.case = card[p].case
    BY <1>1, <1>2 DEF Idle, MatcherRow, Ready
<1> HIDE DEF r
<1>5. /\ matcher' \in [Matchers -> MatcherRow]
      /\ \A k \in Matchers : matcher'[k] = IF k = m THEN r ELSE matcher[k]
    BY <1>3, <1>4, Tables
<1>6. Prepared'
    BY <1>4, <1>5 DEF ReviewInv, Prepared, Ready
<1>7. card' \in [Reviewers -> CardRow] /\ CardsKeep
    BY CardPutAway DEF PromoteListing
<1>8. UNCHANGED <<hash, relation, status, rejected, cases, turns>>
    BY DEF PromoteListing
<1>9. Held'
    BY <1>1, <1>4, <1>5, <1>7, <1>8 DEF ReviewInv, Held, CardsKeep
<1>10. TypeOK'
    BY <1>5, <1>7, <1>8, Tables, TurnTyped DEF TypeOK, MatcherRow, CardRow
<1> QED
    BY <1>6, <1>8, <1>9, <1>10, CasesUnchanged DEF ReviewInv

LEMMA StatusKeeps ==
    ASSUME ReviewInv, NEW p \in Reviewers,
           Defer(p) \/ \E to \in {"open", "in_progress"} : Assign(p, to)
    PROVE  ReviewInv'
<1> DEFINE c == card[p].case
<1>1. PICK st \in Open : cases' = [cases EXCEPT ![c].status = st]
    BY DEF Defer, Assign, Open
<1>2. c \in Cases /\ cases[c].status # "none" /\ MayOpen(c)
    BY LoadedCard DEF Defer, Assign
<1>3. CasesMove /\ OneEach'
    BY <1>1, <1>2, StatusMove
<1>4. card' \in [Reviewers -> CardRow] /\ CardsKeep
    BY CardPutAway DEF Defer, Assign
<1>5. UNCHANGED <<hash, relation, status, rejected, matcher, turns>>
    BY DEF Defer, Assign
<1> QED
    BY <1>3, <1>4, <1>5, TurnTyped, Tables, MatchersUnchanged, Assembled

LEMMA UndeferKeeps ==
    ASSUME ReviewInv, NEW c \in Cases, Undefer(c)
    PROVE  ReviewInv'
<1>1. CasesMove /\ OneEach'
  <2>1. cases[c].status \in Open /\ cases[c].status # "none" /\ "open" \in Open
      BY DEF Undefer, Open
  <2> QED
      BY <2>1, StatusMove DEF Undefer
<1>2. UNCHANGED <<hash, relation, status, rejected, matcher, card, turns>>
    BY DEF Undefer
<1> QED
    BY <1>1, <1>2, TurnTyped, Tables, MatchersUnchanged, CardsUnchanged, Assembled

-----------------------------------------------------------------------------
LEMMA DriftKeeps ==
    ASSUME ReviewInv, NEW l \in Listings, Drift(l)
    PROVE  ReviewInv'
<1> DEFINE V == {v \in Variants : Active(v, l)}
           new == {v \in V : OpenCases("mapping_drift", v, ShopOf[l]) = {}}
<1>1. hash' \in [Listings -> Hashes]
    BY Tables, MatchAssumption DEF Drift, Hashes
<1>2. relation' \in [Variants \X Listings -> RelationRow]
  <2>1. \A q \in Variants \X Listings : Verified(q[1], l) /\ q[2] = l =>
            [relation[q] EXCEPT !.status = "drifted"] \in RelationRow
    <3> TAKE q \in Variants \X Listings
    <3> HAVE Verified(q[1], l) /\ q[2] = l
    <3>1. q = <<q[1], l>>
        OBVIOUS
    <3>2. relation[q] \in RelationRow /\ relation[q].status = "verified"
        BY <3>1, Tables DEF Verified
    <3>3. relation[q] \in [status : {"verified", "drifted"}, word : Words]
        BY <3>2 DEF RelationRow, NoRelation
    <3> QED
        BY <3>3 DEF RelationRow
  <2> QED
      BY <2>1, Tables DEF Drift
<1>3. CasesMove /\ OneEach'
  <2>1. PICK f \in [new -> Unused] :
            /\ \A v, w \in new : f[v] = f[w] => v = w
            /\ cases' = [c \in Cases |->
                 IF \E v \in new : f[v] = c
                   THEN NewCase("mapping_drift", CHOOSE v \in new : f[v] = c, l)
                   ELSE cases[c]]
      BY DEF Drift
  <2>2. new \in SUBSET Variants /\ \A v \in new : OpenCases("mapping_drift", v, ShopOf[l]) = {}
      OBVIOUS
  <2> HIDE DEF new
  <2> QED
      BY <2>1, <2>2, NewMove
<1>4. UNCHANGED <<status, rejected, matcher, card, turns>>
    BY DEF Drift
<1> QED
    BY <1>1, <1>2, <1>3, <1>4, TurnTyped, Tables, MatchersUnchanged, CardsUnchanged,
       Assembled

LEMMA MissingKeeps ==
    ASSUME ReviewInv, NEW l \in Listings, Missing(l)
    PROVE  ReviewInv'
<1>1. status' \in [Variants \X Shops -> StatusRow]
    BY Tables, ConstantRows DEF Missing
<1>2. UNCHANGED <<hash, relation, rejected, cases, matcher, card, turns>>
    BY DEF Missing
<1> QED
    BY <1>1, <1>2, TurnTyped, Tables, MatchersUnchanged, CardsUnchanged, CasesUnchanged,
       Assembled

-----------------------------------------------------------------------------
LEMMA InitReviewInv == Init => ReviewInv
<1> SUFFICES ASSUME Init PROVE ReviewInv
    OBVIOUS
<1>1. turns \in 0..MaxTurns /\ hash \in [Listings -> Hashes]
    BY MatchAssumption DEF Init, Hashes
<1>2. relation \in [Variants \X Listings -> RelationRow]
    BY ConstantRows DEF Init
<1>3. status \in [Variants \X Shops -> StatusRow]
    BY ConstantRows DEF Init
<1>4. rejected \subseteq Variants \X Listings \X Hashes
    BY DEF Init
<1>5. cases \in [Cases -> CaseRow] /\ \A c \in Cases : cases[c].status = "none"
    BY ConstantRows DEF Init, NoCase
<1>6. /\ matcher \in [Matchers -> MatcherRow]
      /\ \A m \in Matchers : matcher[m].pc = "idle" /\ matcher[m].case = None
    BY ConstantRows DEF Init, Idle
<1>7. card \in [Reviewers -> CardRow] /\ \A p \in Reviewers : card[p].pc = "none"
    BY ConstantRows DEF Init, NoCard
<1>8. TypeOK
    BY <1>1, <1>2, <1>3, <1>4, <1>5, <1>6, <1>7, RowsTyped
<1>9. Prepared /\ Held
    BY <1>6, <1>7, MatchAssumption DEF Prepared, Ready, Held
<1>10. OneEach
    BY <1>5 DEF OneEach, Same, Open
<1> QED
    BY <1>8, <1>9, <1>10 DEF ReviewInv

LEMMA NextReviewInv == ReviewInv /\ [Next]_vars => ReviewInv'
<1> SUFFICES ASSUME ReviewInv, [Next]_vars PROVE ReviewInv'
    OBVIOUS
<1>1. ASSUME NEW m \in Matchers, MatcherStep(m) PROVE ReviewInv'
  <2>1. CASE \E v \in Variants :
                \/ \E s \in Shops : Search(m, v, s)
                \/ \E l \in Listings : Cluster(m, v, l) \/ LinkNew(m, v, l)
                \/ LinkPromoted(m, v)
      BY <2>1, EvaluateKeeps, PromoteKeeps
  <2>2. CASE ReadVerified(m)
      BY <2>2, CheckKeeps
  <2>3. CASE Persist(m)
      BY <2>3, VerifiedKeeps, ConfirmedKeeps, RejectedKeeps, QuestionKeeps DEF Persist
  <2>4. CASE LabelLinked(m)
      BY <2>4, LabelKeeps
  <2>5. CASE ClosePromoted(m)
      BY <2>5, CloseKeeps
  <2>6. CASE MatcherDies(m)
      BY <2>6, DieKeeps
  <2> QED
      BY <1>1, <2>1, <2>2, <2>3, <2>4, <2>5, <2>6 DEF MatcherStep
<1>2. ASSUME NEW p \in Reviewers, ReviewerStep(p) PROVE ReviewInv'
  <2>1. CASE (\E c \in Cases : Look(p, c)) \/ PutAway(p) \/ LoadOpenCase(p)
      BY <2>1, LookKeeps
  <2>2. CASE Decides(p)
      BY <2>2, DecideKeeps
  <2>3. CASE \E l \in Listings, others \in SUBSET Listings : SelectCandidate(p, l, others)
      BY <2>3, SelectKeeps
  <2>4. CASE EditCanonical(p)
      BY <2>4, EditKeeps
  <2>5. CASE \E m \in Matchers : PromoteListing(p, m)
      BY <2>5, HandOverKeeps
  <2>6. CASE Defer(p) \/ \E to \in {"open", "in_progress"} : Assign(p, to)
      BY <2>6, StatusKeeps
  <2> QED
      BY <1>2, <2>1, <2>2, <2>3, <2>4, <2>5, <2>6 DEF ReviewerStep
<1>3. CASE UNCHANGED vars
  <2>1. UNCHANGED <<hash, relation, status, rejected, cases, matcher, card, turns>>
      BY <1>3 DEF vars
  <2> QED
      BY <2>1, TurnTyped, Tables, MatchersUnchanged, CardsUnchanged, CasesUnchanged, Assembled
<1> QED
    BY <1>1, <1>2, <1>3, UndeferKeeps, DriftKeeps, MissingKeeps DEF Next

LEMMA ReviewInvAlways == Spec => []ReviewInv
BY InitReviewInv, NextReviewInv, PTL DEF Spec

(* The variables of MatchReview keep their types.                          *)
THEOREM ReviewTypeCorrect == Spec => []TypeOK
<1>1. ReviewInv => TypeOK
    BY DEF ReviewInv
<1> QED
    BY <1>1, ReviewInvAlways, PTL

(* Whatever is evaluated, deferred, taken and given back, a pair is one    *)
(* question: no two cases of a kind are open for a variant in a shop       *)
(* (review_cases_open_pair_uq, persistDecision, persistListing).           *)
THEOREM OneQuestionAlways == Spec => []OneQuestion
<1>1. ReviewInv => OneQuestion
  <2> SUFFICES ASSUME ReviewInv,
                      NEW v \in Variants, NEW s \in Shops,
                      NEW type \in {"pair", "mapping_drift"}
               PROVE  Cardinality(OpenCases(type, v, s)) <= 1
      BY DEF OneQuestion
  <2> DEFINE C == OpenCases(type, v, s)
  <2>1. \A c, d \in C : c = d
      BY DEF OpenCases, ReviewInv, OneEach, Same
  <2>2. CASE C = {}
      BY <2>2, FS_EmptySet
  <2>3. CASE \E c \in C : TRUE
    <3>1. PICK c \in C : TRUE
        BY <2>3
    <3>2. C = {c}
        BY <2>1, <3>1
    <3>3. Cardinality({c}) = 1
        BY FS_Singleton
    <3> QED
        BY <3>2, <3>3
  <2> QED
      BY <2>2, <2>3
<1> QED
    BY <1>1, ReviewInvAlways, PTL

(* What a person has begun or put off is not touched by persistDecision.   *)
THEOREM TakenCasesKept == Spec => TakenCasesLeft
<1> DEFINE Left == \A m \in Matchers : Persist(m) =>
         \A c \in Cases : cases[c].status \in {"in_progress", "deferred"} =>
             cases'[c].status = cases[c].status
<1>1. ReviewInv /\ [Next]_vars => [Left]_vars
  <2> SUFFICES ASSUME ReviewInv, NEW m \in Matchers, Persist(m), NEW c \in Cases,
                      cases[c].status \in {"in_progress", "deferred"}
               PROVE  cases'[c].status = cases[c].status
      OBVIOUS
  <2>1. ASSUME NEW v, NEW s, CloseAutomatically(v, s) PROVE cases'[c] = cases[c]
      BY <2>1 DEF CloseAutomatically, AutoResolvable, Resolved
  <2>2. ASSUME NEW v, NEW l, Ask(v, l) PROVE cases'[c].status = cases[c].status
    <3>1. cases \in [Cases -> CaseRow] /\ cases[c] \in CaseRow /\ cases[c].status # "none"
        BY Tables
    <3>2. CASE \E d \in OpenCases("pair", v, ShopOf[l]) : cases' = [cases EXCEPT ![d].listing = l]
      <4>1. PICK d \in OpenCases("pair", v, ShopOf[l]) : cases' = [cases EXCEPT ![d].listing = l]
          BY <3>2
      <4>2. d \in Cases
          BY DEF OpenCases
      <4>3. cases'[c] = cases[c] \/ cases'[c] = [cases[c] EXCEPT !.listing = l]
          BY <3>1, <4>1, <4>2
      <4> QED
          BY <3>1, <4>3, CaseParts
    <3>3. CASE \E d \in Unused : cases' = [cases EXCEPT ![d] = NewCase("pair", v, l)]
        BY <3>1, <3>3 DEF Unused
    <3> QED
        BY <2>2, <3>2, <3>3 DEF Ask
  <2>3. CASE PersistVerified(m)
      BY <2>1, <2>3 DEF PersistVerified
  <2>4. CASE PersistRejected(m)
      BY <2>1, <2>4 DEF PersistRejected
  <2>5. CASE PersistReview(m)
      BY <2>2, <2>5 DEF PersistReview
  <2>6. CASE PersistConfirmed(m) \/ PersistNoMatch(m)
      BY <2>6 DEF PersistConfirmed, PersistNoMatch
  <2> QED
      BY <2>3, <2>4, <2>5, <2>6 DEF Persist
<1>2. Spec => [][Left]_vars
    BY <1>1, ReviewInvAlways, PTL DEF Spec
<1> QED
    BY <1>2 DEF TakenCasesLeft

-----------------------------------------------------------------------------
(* The pairs a listing is verified for; there is one at most.              *)
PairsOf(l) == {<<v, relation[<<v, l>>].word>> : v \in {w \in Variants : Verified(w, l)}}

OnePair == \A l \in Listings : \A p, q \in VerifiedPairs[l] : p = q

LEMMA PairsAre ==
    /\ VerifiedPairs = [l \in Listings |-> PairsOf(l)]
    /\ \A l \in Listings : VerifiedPairs[l] = PairsOf(l)
BY DEF VerifiedPairs, PairsOf

LEMMA InPairs ==
    ASSUME NEW l
    PROVE  /\ \A u \in Variants : Verified(u, l) => <<u, relation[<<u, l>>].word>> \in PairsOf(l)
           /\ \A p \in PairsOf(l) : \E u \in Variants :
                 Verified(u, l) /\ p = <<u, relation[<<u, l>>].word>>
           /\ \A p : p \in PairsOf(l)' <=> \E u \in Variants :
                 Verified(u, l)' /\ p = <<u, relation'[<<u, l>>].word>>
<1> DEFINE V == {w \in Variants : Verified(w, l)}
           P == {w \in Variants : Verified(w, l)'}
<1>1. PairsOf(l) = {<<u, relation[<<u, l>>].word>> : u \in V}
    BY DEF PairsOf
<1>2. PairsOf(l)' = {<<u, relation'[<<u, l>>].word>> : u \in P}
    BY DEF PairsOf
<1>3. \A u : /\ u \in V <=> u \in Variants /\ Verified(u, l)
             /\ u \in P <=> u \in Variants /\ Verified(u, l)'
    OBVIOUS
<1> HIDE DEF V, P
<1> QED
    BY <1>1, <1>2, <1>3

(* A step that touches the relations of one listing.                       *)
LEMMA OneListing ==
    ASSUME NEW l \in Listings, NEW S, PairsOf(l)' = S,
           \A v \in Variants, k \in Listings :
               k # l => relation'[<<v, k>>] = relation[<<v, k>>]
    PROVE  VerifiedPairs' = [VerifiedPairs EXCEPT ![l] = S]
<1>1. \A k \in Listings : k # l => PairsOf(k)' = PairsOf(k)
    BY DEF PairsOf, Verified
<1>2. VerifiedPairs' = [k \in Listings |-> PairsOf(k)']
    BY PairsAre DEF VerifiedPairs, PairsOf
<1> QED
    BY <1>1, <1>2, PairsAre

LEMMA Taken ==
    ASSUME ReviewInv, NEW v \in Variants, NEW l \in Listings, NEW w \in Words,
           relation'[<<v, l>>] = [status |-> "verified", word |-> w],
           \A u \in Variants : u # v => ~Verified(u, l)',
           \A u \in Variants, k \in Listings :
               k # l => relation'[<<u, k>>] = relation[<<u, k>>],
           \/ w \in Human
           \/ PairsOf(l) \cap (Variants \X Human) = {}
    PROVE  Register!Next
<1>1. \A u \in Variants : Verified(u, l)' <=> u = v
    BY DEF Verified
<1>2. PairsOf(l)' = {<<v, w>>}
  <2>1. ASSUME NEW p PROVE p \in PairsOf(l)' <=> p = <<v, w>>
    <3>1. p \in PairsOf(l)' <=> \E u \in Variants :
              Verified(u, l)' /\ p = <<u, relation'[<<u, l>>].word>>
        BY InPairs
    <3>2. relation'[<<v, l>>].word = w
        OBVIOUS
    <3> QED
        BY <1>1, <3>1, <3>2
  <2> QED
      BY <2>1
<1>3. VerifiedPairs' = [VerifiedPairs EXCEPT ![l] = {<<v, w>>}]
    BY <1>2, OneListing
<1>4. CASE w \in Human
  <2>1. <<v, w>> \in Register!HumanPairs
      BY <1>4 DEF Register!HumanPairs
  <2> QED
      BY <1>3, <2>1 DEF Register!Next, Register!Decided
<1>5. CASE PairsOf(l) \cap (Variants \X Human) = {}
  <2>1. <<v, w>> \in Register!Pairs /\ VerifiedPairs[l] \cap Register!HumanPairs = {}
      BY <1>5, PairsAre DEF Register!Pairs, Register!HumanPairs
  <2> QED
      BY <1>3, <2>1 DEF Register!Next, Register!Matched
<1> QED
    BY <1>4, <1>5

LEMMA Lost ==
    ASSUME NEW l \in Listings, \A u \in Variants : ~Verified(u, l)',
           \A u \in Variants, k \in Listings :
               k # l => relation'[<<u, k>>] = relation[<<u, k>>]
    PROVE  Register!Next
<1>1. PairsOf(l)' = {}
    BY DEF PairsOf
<1>2. VerifiedPairs' = [VerifiedPairs EXCEPT ![l] = {}]
    BY <1>1, OneListing
<1> QED
    BY <1>2 DEF Register!Next, Register!GivenUp

LEMMA Quiet ==
    ASSUME UNCHANGED relation
    PROVE  UNCHANGED VerifiedPairs
BY DEF VerifiedPairs, Verified

(* persistDecision, auto_verified: nobody's word is overruled.             *)
LEMMA VerifiedRegisters ==
    ASSUME ReviewInv, NEW m \in Matchers, PersistVerified(m)
    PROVE  Register!Next \/ UNCHANGED VerifiedPairs
<1>1. CASE UNCHANGED relation
    BY <1>1, Quiet
<1>2. CASE ~UNCHANGED relation
  <2>1. PICK v \in Variants, l \in Listings :
            ~HeldByPerson(v, l) /\ relation' = MatchedRelation(v, l)
      BY <1>2, JobParts DEF PersistVerified
  <2>2. PICK w \in Words : w = IF Active(v, l) THEN relation[<<v, l>>].word ELSE "matched"
      BY Tables DEF Active, RelationRow, NoRelation, Words
  <2>3. relation'[<<v, l>>] = [status |-> "verified", word |-> w]
      BY <2>1, <2>2 DEF MatchedRelation
  <2>4. \A u \in Variants : u # v => ~Verified(u, l)'
      BY <2>1 DEF MatchedRelation, Verified, NoRelation
  <2>5. \A u \in Variants, k \in Listings : k # l => relation'[<<u, k>>] = relation[<<u, k>>]
      BY <2>1 DEF MatchedRelation
  <2>6. w \in Human \/ PairsOf(l) \cap (Variants \X Human) = {}
    <3> SUFFICES ASSUME NEW u \in Variants, Verified(u, l), relation[<<u, l>>].word \in Human
                 PROVE  w \in Human
      <4>1. ASSUME NEW p \in PairsOf(l), p \in Variants \X Human PROVE w \in Human
        <5>1. PICK u \in Variants : Verified(u, l) /\ p = <<u, relation[<<u, l>>].word>>
            BY InPairs
        <5> QED
            BY <4>1, <5>1
      <4> QED
          BY <4>1
    <3>1. u = v
        BY <2>1 DEF HeldByPerson
    <3> QED
        BY <2>2, <3>1 DEF Verified, Active
  <2> QED
      BY <2>3, <2>4, <2>5, <2>6, Taken
<1> QED
    BY <1>1, <1>2

(* linkListingToVariant verifies only a listing that nobody has.           *)
LEMMA LinkRegisters ==
    ASSUME ReviewInv, NEW m \in Matchers, NEW v \in Variants, NEW d \in Decision,
           d.is \in {"auto_verified", "human_verified"}, NEW c, Link(m, v, d, c)
    PROVE  Register!Next \/ UNCHANGED VerifiedPairs
<1> DEFINE l == d.listing
           w == IF c = None THEN "matched" ELSE "promoted"
<1>1. l \in Listings /\ w \in Words
    BY DecisionListing DEF Words, Human
<1>2. CASE UNCHANGED relation
    BY <1>2, Quiet
<1>3. CASE /\ ~\E u \in Variants : Verified(u, l)
           /\ relation' = [relation EXCEPT ![<<v, l>>] = [status |-> "verified", word |-> w]]
  <2>1. relation'[<<v, l>>] = [status |-> "verified", word |-> w]
      BY <1>1, <1>3, Tables
  <2>2. \A u \in Variants, k \in Listings :
            u # v \/ k # l => relation'[<<u, k>>] = relation[<<u, k>>]
      BY <1>1, <1>3, Tables
  <2>3. \A u \in Variants : u # v => ~Verified(u, l)'
      BY <1>1, <1>3, <2>2 DEF Verified
  <2>4. PairsOf(l) = {}
      BY <1>3 DEF PairsOf
  <2> HIDE DEF l, w
  <2> QED
      BY <1>1, <2>1, <2>2, <2>3, <2>4, Taken
<1> QED
    BY <1>2, <1>3 DEF Link

LEMMA MatcherRegisters ==
    ASSUME ReviewInv, NEW m \in Matchers, MatcherStep(m)
    PROVE  Register!Next \/ UNCHANGED VerifiedPairs
<1>1. CASE UNCHANGED relation
    BY <1>1, Quiet
<1>2. CASE PersistVerified(m)
    BY <1>2, VerifiedRegisters
<1>3. CASE \E v \in Variants, l \in Listings : LinkNew(m, v, l)
  <2>1. PICK v \in Variants, l \in Listings : LinkNew(m, v, l)
      BY <1>3
  <2> DEFINE d == [is |-> "auto_verified", listing |-> l]
  <2>2. d \in Decision /\ d.is = "auto_verified" /\ Link(m, v, d, None)
      BY <2>1 DEF Decision, LinkNew
  <2> HIDE DEF d
  <2> QED
      BY <2>2, LinkRegisters
<1>4. CASE \E v \in Variants : LinkPromoted(m, v)
  <2>1. PICK v \in Variants : LinkPromoted(m, v)
      BY <1>4
  <2>2. /\ matcher[m].decision \in Decision /\ matcher[m].decision.is = "human_verified"
        /\ Link(m, v, matcher[m].decision, matcher[m].case)
      BY <2>1, Tables DEF LinkPromoted, ReviewInv, Prepared, Ready, MatcherRow
  <2> QED
      BY <2>2, LinkRegisters
<1>5. \/ UNCHANGED relation \/ PersistVerified(m)
      \/ \E v \in Variants, l \in Listings : LinkNew(m, v, l)
      \/ \E v \in Variants : LinkPromoted(m, v)
  <2>1. Persist(m) => PersistVerified(m) \/ UNCHANGED relation
      BY DEF Persist, PersistConfirmed, PersistRejected, PersistNoMatch, PersistReview
  <2>2. \A v \in Variants :
            /\ \A s \in Shops : Search(m, v, s) => UNCHANGED relation
            /\ \A l \in Listings : Cluster(m, v, l) => UNCHANGED relation
      BY DEF Search, Cluster
  <2>3. ReadVerified(m) \/ LabelLinked(m) \/ ClosePromoted(m) \/ MatcherDies(m)
            => UNCHANGED relation
      BY DEF ReadVerified, LabelLinked, ClosePromoted, MatcherDies
  <2> QED
      BY <2>1, <2>2, <2>3 DEF MatcherStep
<1> QED
    BY <1>1, <1>2, <1>3, <1>4, <1>5

LEMMA ApproveRegisters ==
    ASSUME ReviewInv, NEW p \in Reviewers, NEW l \in Listings, Approve(p, l)
    PROVE  Register!Next
<1>1. PICK v \in Variants : relation' = ApprovedRelation(v, l)
    BY LoadedCard DEF Approve
<1>2. relation'[<<v, l>>] = [status |-> "verified", word |-> "approved"]
    BY <1>1 DEF ApprovedRelation
<1>3. \A u \in Variants : u # v => ~Verified(u, l)'
    BY <1>1 DEF ApprovedRelation, Verified, NoRelation
<1>4. \A u \in Variants, k \in Listings : k # l => relation'[<<u, k>>] = relation[<<u, k>>]
    BY <1>1 DEF ApprovedRelation
<1>5. "approved" \in Words /\ "approved" \in Human
    BY DEF Words, Human
<1> QED
    BY <1>2, <1>3, <1>4, <1>5, Taken

(* The rejected pair was the one of the listing, or is none of its pairs.  *)
LEMMA RejectRegisters ==
    ASSUME ReviewInv, OnePair, NEW p \in Reviewers, NEW l \in Listings, Reject(p, l)
    PROVE  Register!Next \/ UNCHANGED VerifiedPairs
<1>1. PICK v \in Variants : relation' = [relation EXCEPT ![<<v, l>>] = NoRelation]
    BY LoadedCard DEF Reject
<1>2. \A u \in Variants, k \in Listings :
          u # v \/ k # l => relation'[<<u, k>>] = relation[<<u, k>>]
    BY <1>1, Tables
<1>3. ~Verified(v, l)'
    BY <1>1, Tables DEF Verified, NoRelation
<1>4. CASE Verified(v, l)
  <2>1. \A u \in Variants : Verified(u, l) => u = v
    <3> TAKE u \in Variants
    <3> HAVE Verified(u, l)
    <3>1. /\ <<u, relation[<<u, l>>].word>> \in VerifiedPairs[l]
          /\ <<v, relation[<<v, l>>].word>> \in VerifiedPairs[l]
        BY <1>4, PairsAre, InPairs
    <3>2. <<u, relation[<<u, l>>].word>> = <<v, relation[<<v, l>>].word>>
        BY <3>1 DEF OnePair
    <3> QED
        BY <3>2
  <2>2. \A u \in Variants : ~Verified(u, l)'
      BY <1>2, <1>3, <2>1 DEF Verified
  <2> QED
      BY <1>2, <2>2, Lost
<1>5. CASE ~Verified(v, l)
  <2>1. \A u \in Variants, k \in Listings :
            /\ Verified(u, k)' <=> Verified(u, k)
            /\ Verified(u, k) => relation'[<<u, k>>] = relation[<<u, k>>]
      BY <1>2, <1>3, <1>5 DEF Verified
  <2>2. \A k \in Listings : PairsOf(k)' = PairsOf(k)
      BY <2>1 DEF PairsOf
  <2> QED
      BY <2>2 DEF VerifiedPairs, PairsOf
<1> QED
    BY <1>4, <1>5

LEMMA DriftRegisters ==
    ASSUME ReviewInv, NEW l \in Listings, Drift(l)
    PROVE  Register!Next
<1>1. relation' = [q \in Variants \X Listings |->
             IF q[2] = l /\ Verified(q[1], l)
               THEN [relation[q] EXCEPT !.status = "drifted"] ELSE relation[q]]
    BY DEF Drift
<1>2. ASSUME NEW u \in Variants PROVE ~Verified(u, l)'
  <2>1. CASE Verified(u, l)
    <3>1. relation[<<u, l>>] \in [status : {"verified", "drifted"}, word : Words]
        BY <2>1, Tables DEF Verified, RelationRow, NoRelation
    <3>2. relation'[<<u, l>>] = [relation[<<u, l>>] EXCEPT !.status = "drifted"]
        BY <1>1, <2>1
    <3> QED
        BY <3>1, <3>2 DEF Verified
  <2>2. CASE ~Verified(u, l)
      BY <1>1, <2>2 DEF Verified
  <2> QED
      BY <2>1, <2>2
<1>3. \A u \in Variants, k \in Listings : k # l => relation'[<<u, k>>] = relation[<<u, k>>]
    BY <1>1
<1> QED
    BY <1>2, <1>3, Lost

LEMMA NextRegisters ==
    ASSUME ReviewInv, OnePair, [Next]_vars
    PROVE  Register!Next \/ UNCHANGED VerifiedPairs
<1>1. CASE UNCHANGED vars
    BY <1>1, Quiet DEF vars
<1>2. ASSUME NEW p \in Reviewers, ReviewerStep(p)
      PROVE  Register!Next \/ UNCHANGED VerifiedPairs
  <2>1. \/ UNCHANGED relation
        \/ \E l \in Listings : Approve(p, l) \/ Reject(p, l)
      BY <1>2 DEF ReviewerStep, Decides, Look, PutAway, LoadOpenCase, MarkNotFound,
         SelectCandidate, EditCanonical, PromoteListing, Defer, Assign
  <2> QED
      BY <2>1, Quiet, ApproveRegisters, RejectRegisters
<1>3. ASSUME \E c \in Cases : Undefer(c)
      PROVE  UNCHANGED VerifiedPairs
    BY <1>3, Quiet DEF Undefer
<1>4. ASSUME NEW l \in Listings, Missing(l)
      PROVE  UNCHANGED VerifiedPairs
    BY <1>4, Quiet DEF Missing
<1> QED
    BY <1>1, <1>2, <1>3, <1>4, MatcherRegisters, DriftRegisters DEF Next

LEMMA OnePairKept ==
    ASSUME OnePair, Register!Next \/ UNCHANGED VerifiedPairs
    PROVE  OnePair'
<1>1. CASE UNCHANGED VerifiedPairs
    BY <1>1 DEF OnePair
<1>2. CASE Register!Next
  <2>1. PICK l \in Listings, S \in {{}} \cup {{p} : p \in UNION {Register!Pairs, Register!HumanPairs}} :
            VerifiedPairs' = [VerifiedPairs EXCEPT ![l] = S]
    <3>1. PICK l \in Listings : Register!Matched(l) \/ Register!Decided(l) \/ Register!GivenUp(l)
        BY <1>2 DEF Register!Next
    <3>2. CASE Register!Matched(l)
        BY <3>2 DEF Register!Matched
    <3>3. CASE Register!Decided(l)
        BY <3>3 DEF Register!Decided
    <3>4. CASE Register!GivenUp(l)
        BY <3>4 DEF Register!GivenUp
    <3> QED
        BY <3>1, <3>2, <3>3, <3>4
  <2>2. \A k \in Listings : VerifiedPairs'[k] = IF k = l THEN S ELSE VerifiedPairs[k]
      BY <2>1, PairsAre
  <2> QED
      BY <2>2 DEF OnePair
<1> QED
    BY <1>1, <1>2

(* What is verified follows DecisionRegister: one variant for a listing,   *)
(* and never another one in place of a person's word by the matcher's.     *)
THEOREM PersonOverMatcherAlways == Spec => PersonOverMatcher
<1>1. Init => OnePair /\ Register!Init
  <2> SUFFICES ASSUME Init PROVE OnePair /\ Register!Init
      OBVIOUS
  <2>1. \A l \in Listings : PairsOf(l) = {}
      BY DEF Init, PairsOf, Verified, NoRelation
  <2> QED
      BY <2>1, PairsAre DEF OnePair, Register!Init
<1>2. ReviewInv /\ OnePair /\ [Next]_vars => OnePair'
    BY NextRegisters, OnePairKept
<1>3. ReviewInv /\ OnePair /\ [Next]_vars => [Register!Next]_VerifiedPairs
    BY NextRegisters
<1> QED
    BY <1>1, <1>2, <1>3, ReviewInvAlways, PTL DEF Spec, PersonOverMatcher, Register!Spec
=============================================================================
