---------------------------- MODULE MatchEngine ----------------------------
(***************************************************************************)
(* The decision engine: which of the candidate listings found for a        *)
(* canonical variant, if any, is the same product.                         *)
(*                                                                         *)
(* A candidate is known by how each field of its identity relates to the   *)
(* canonical one ("near" is a fuzzy likeness, "part" one too weak to count *)
(* either way, "unknown" a field only one side knows, "silent" one that    *)
(* neither does).  Scores and thresholds are in ten-thousandths, weights   *)
(* and the strengths of channels in hundredths.  A negative alias, which   *)
(* is one more contradiction wherever it is met, is left out.              *)
(***************************************************************************)
EXTENDS Integers, Sequences, FiniteSets, SequencesExt, FiniteSetsExt

CONSTANTS
    Fields,
    Role,          \* field -> its role in the identity profile
    Core,          \* identity_core: the fields that carry the identity
    HardFields,    \* FIELD_SPECS.hardOnMismatch
    Weight,        \* field -> its weight
    Fuzzy,         \* the fields whose likeness is only fuzzy (brand, producer)
    ChannelStrength, \* channel -> how much its finding says
    StrongChannels, \* gtin, platform_id, verified_link
    Thresholds,    \* autoMatch, review and ambiguity thresholds, priceRatioMax
    VintageSensitive, GtinResolvesVintage, AutoMatchBlocked,
    CandidatePool, \* the candidates an input is made of
    MaxCandidates  \* bound: candidates of one input

Unit == 10000

ASSUME EngineAssumption ==
    /\ IsFiniteSet(Fields)
    /\ Core \cup HardFields \cup Fuzzy \subseteq Fields
    /\ DOMAIN Role = Fields
    /\ Weight \in [Fields -> Nat \ {0}]
    /\ Thresholds.topMargin \in 1..Unit
    /\ \A c \in CandidatePool :
          /\ c.quality \in Nat /\ c.rejections \in Nat
          /\ IsFiniteSet(c.channels)
          /\ \A ch \in c.channels : ChannelStrength[ch] \in Nat
    /\ \A c, d \in CandidatePool : c.id = d.id => c = d
    /\ MaxCandidates \in Nat

VARIABLES
    evaluated,   \* the candidates of the call, scored, in the order they came
    question,    \* switches of the policy, verified listings, health of the shop
    decision

engineVars == <<evaluated, question, decision>>

RoundedDiv(n, d) == (2 * n + d) \div (2 * d)

(* The sum of the values that f gives to the members of S.                 *)
SumOf(f, S) == Cardinality(UNION {{x} \X (1..f[x]) : x \in S})

-----------------------------------------------------------------------------
(* compareIdentityFields                                                   *)

Proven == {"same", "alias", "shopAlias", "near"}

State(rel) ==
    IF rel \in Proven THEN "match"
    ELSE IF rel = "far" THEN "contradiction" ELSE "unknown"

Score(rel) ==
    CASE rel = "same" -> Unit
      [] rel \in {"alias", "shopAlias"} -> 9800
      [] rel = "near" -> 9000
      [] OTHER -> 0

Compared == {f \in Fields : Role[f] # "not_applicable"}

Contradicts(c, f) ==
    /\ State(c.rel[f]) = "contradiction"
    /\ IF f = "vintage" THEN VintageSensitive
       ELSE /\ f \in HardFields
            /\ Role[f] \in {"required", "contradiction_only"} \/ f = "categoryKey"

HardContradictions(c) == {f \in Compared : Contradicts(c, f)}

IdentityComplete(c) ==
    /\ Core # {}
    /\ \A f \in Core : f \in Compared /\ State(c.rel[f]) = "match"
    /\ HardContradictions(c) = {}

FuzzyOnlyBrand(c) == \E f \in Compared \cap Fuzzy : c.rel[f] = "near"

ShopAliasOnly(c) == \E f \in Compared : c.rel[f] = "shopAlias"

-----------------------------------------------------------------------------
(* scoreCandidate                                                          *)

Known(c) == {f \in Compared : State(c.rel[f]) # "unknown"}

Agreement(c) ==
    LET w == SumOf(Weight, Known(c))
        Scored(n) == n * SumOf(Weight, {f \in Known(c) : Score(c.rel[f]) = n})
    IN IF w = 0 THEN 0 ELSE RoundedDiv(Scored(Unit) + Scored(9800) + Scored(9000), w)

(* Of the optional fields only those that some side mentions count.        *)
Coverage(c) ==
    LET required == {f \in Compared : Role[f] = "required"}
        optional == {f \in Compared \ required : c.rel[f] # "silent"}
        Share(S) == RoundedDiv(Unit * Cardinality(S \cap Known(c)), Cardinality(S))
    IN IF required = {}
       THEN IF optional = {} THEN 0 ELSE Share(optional)
       ELSE RoundedDiv(85 * Share(required)
                         + 15 * (IF optional = {} THEN Unit ELSE Share(optional)), 100)

(* The strongest channel, and a little for every other one.                *)
RetrievalSupport(c) ==
    IF c.channels = {} THEN 0
    ELSE LET best == Max({ChannelStrength[ch] : ch \in c.channels})
             others == SumOf(ChannelStrength, c.channels) - best
         IN Min({Unit, 100 * best + Min({8 * others, 1500})})

DecisionStrength(c) ==
    IF HardContradictions(c) # {} THEN 0
    ELSE LET sum == 50 * Agreement(c) + 22 * Coverage(c) + 16 * c.quality
                      + 12 * RetrievalSupport(c)
                      - (10 * Unit * Min({c.rejections, 3})) \div 3
         IN RoundedDiv(Max({0, sum}), 100)

EanWithoutVintage(c) ==
    /\ "gtin" \in Compared /\ c.rel["gtin"] \in Proven
    /\ "vintage" \in Compared /\ State(c.rel["vintage"]) = "unknown"
    /\ VintageSensitive /\ ~GtinResolvesVintage

(* The reason codes that the decision looks for.                           *)
Reasons(c) ==
    {r \in {"fuzzy", "shopAlias", "eanWithoutVintage", "price"} :
        CASE r = "fuzzy" -> FuzzyOnlyBrand(c)
          [] r = "shopAlias" -> ShopAliasOnly(c)
          [] r = "eanWithoutVintage" -> EanWithoutVintage(c)
          [] r = "price" -> c.priceRatio > Thresholds.priceRatioMax}

StrongIdentifier(c) ==
    c.channels \cap StrongChannels # {} /\ "gtin" \in Compared /\ c.rel["gtin"] \in Proven

ScoreCandidate(c) ==
    [id |-> c.id, contradictions |-> Cardinality(HardContradictions(c)),
     agreement |-> Agreement(c), coverage |-> Coverage(c), quality |-> c.quality,
     support |-> RetrievalSupport(c), strength |-> DecisionStrength(c),
     rejections |-> c.rejections, complete |-> IdentityComplete(c),
     required |-> \A f \in Compared : Role[f] = "required" => State(c.rel[f]) = "match",
     identifier |-> StrongIdentifier(c), reasons |-> Reasons(c)]

-----------------------------------------------------------------------------
(* decideMatch                                                             *)

Eligible(es) == {i \in DOMAIN es : es[i].contradictions = 0}

(* The order of a stable sort by falling strength.                         *)
Before(es, i, j) ==
    es[i].strength > es[j].strength \/ (es[i].strength = es[j].strength /\ i <= j)

(* Mutant: the candidates are not sorted.                                  *)
LeaderFirst(es, S) == CHOOSE i \in S : \A j \in S : i <= j

Leader(es, S) == CHOOSE i \in S : \A j \in S : Before(es, i, j)

(* Mutant: a single candidate has no margin.                               *)
TopMarginOfOne(es) ==
    LET first == Leader(es, Eligible(es))
        others == Eligible(es) \ {first}
    IN IF others = {} THEN 0
       ELSE es[first].strength - es[Leader(es, others)].strength

TopMargin(es) ==
    LET first == Leader(es, Eligible(es))
        others == Eligible(es) \ {first}
    IN IF others = {} THEN Unit
       ELSE es[first].strength - es[Leader(es, others)].strength

AutoEligible(e, margin, policy) ==
    /\ policy.autoMatch /\ ~AutoMatchBlocked
    /\ e.required
    /\ e.coverage >= Thresholds.evidenceCoverage
    /\ e.quality >= Thresholds.extractionQuality
    /\ e.agreement >= Thresholds.agreementScore
    /\ margin >= Thresholds.topMargin
    /\ e.reasons \cap {"fuzzy", "eanWithoutVintage"} = {}
    /\ e.rejections = 0
    /\ policy.identifierOnly => e.identifier

IdentityCompleteEligible(e, margin, policy) ==
    /\ policy.identityComplete /\ ~AutoMatchBlocked
    /\ e.complete
    /\ e.reasons \cap {"fuzzy", "shopAlias", "price"} = {}
    /\ e.rejections = 0
    /\ margin >= Thresholds.topMargin

(* The nearest miss of a list that was wholly contradicted.                *)
NearestMiss(es) ==
    CHOOSE i \in DOMAIN es : \A j \in DOMAIN es :
        \/ es[i].contradictions < es[j].contradictions
        \/ /\ es[i].contradictions = es[j].contradictions
           /\ es[i].support > es[j].support \/ (es[i].support = es[j].support /\ i <= j)

DecideMatch(es, q) ==
    IF es = <<>>
    THEN [status |-> IF q.healthy THEN "not_found_after_full_search" ELSE "source_unhealthy",
          listing |-> "none"]
    ELSE IF Eligible(es) = {}
    THEN [status |-> "rejected", listing |-> es[NearestMiss(es)].id]
    ELSE LET first == es[Leader(es, Eligible(es))]
             margin == TopMargin(es)
             status ==
                 IF first.id \in q.verified THEN "human_verified"
                 ELSE IF IdentityCompleteEligible(first, margin, q.policy)
                           \/ AutoEligible(first, margin, q.policy) THEN "auto_verified"
                 ELSE IF /\ Cardinality(Eligible(es)) > 1
                         /\ margin < Thresholds.ambiguous
                         /\ first.strength >= Thresholds.review THEN "ambiguous"
                 ELSE IF first.strength >= Thresholds.review THEN "needs_review"
                 ELSE "insufficient_evidence"
         IN [status |-> status, listing |-> first.id]

-----------------------------------------------------------------------------

Policies == [autoMatch : BOOLEAN, identityComplete : BOOLEAN, identifierOnly : BOOLEAN]

(* The candidates of one question are different listings.                  *)
CandidateLists ==
    {s \in UNION {[1..n -> CandidatePool] : n \in 0..MaxCandidates} : IsInjective(s)}

NoDecision == [status |-> "none", listing |-> "none"]

EngineInit ==
    /\ evaluated = <<>>
    /\ question = [healthy |-> TRUE, verified |-> {}, policy |-> CHOOSE p \in Policies : TRUE]
    /\ decision = NoDecision

(* One call of decideMatch.                                                *)
AnswerQuestion ==
    /\ decision = NoDecision
    /\ \E cands \in CandidateLists, policy \in Policies, healthy \in BOOLEAN :
       \E verified \in {{}} \cup {{c.id} : c \in ToSet(cands)} :
          /\ evaluated' = [i \in DOMAIN cands |-> ScoreCandidate(cands[i])]
          /\ question' = [healthy |-> healthy, verified |-> verified, policy |-> policy]
    /\ decision' = DecideMatch(evaluated', question')

EngineSpec == EngineInit /\ [][AnswerQuestion]_engineVars

-----------------------------------------------------------------------------

Statuses == {"not_found_after_full_search", "source_unhealthy", "rejected",
             "human_verified", "auto_verified", "ambiguous", "needs_review",
             "insufficient_evidence"}

EngineTypeOK ==
    /\ decision = NoDecision \/ decision.status \in Statuses
    /\ decision.listing \in {"none"} \cup {e.id : e \in ToSet(evaluated)}

(* The ways to take some candidates of es, in any order.                   *)
Selections(es) ==
    {p \in UNION {[1..n -> DOMAIN es] : n \in 0..Len(es)} : IsInjective(p)}

Selected(es, p) == [i \in DOMAIN p |-> es[p[i]]]

(* The engine decides without a person only what does not hang on what     *)
(* else was found, nor on the order it was found in: whatever other        *)
(* candidates the list had not had, it verifies the same listing.  A       *)
(* candidate that a contradiction rejects has no say about the others.     *)
DecidedByTheQuestion ==
    /\ decision.status = "auto_verified" =>
          \A p \in Selections(evaluated) :
              (\E i \in DOMAIN p : evaluated[p[i]].id = decision.listing) =>
                  DecideMatch(Selected(evaluated, p), question) = decision
    /\ decision # NoDecision /\ Eligible(evaluated) # {} =>
          \A p \in Selections(evaluated) :
              /\ \A i, j \in DOMAIN p : i < j => p[i] < p[j]
              /\ Eligible(evaluated) \subseteq ToSet(p)
              => DecideMatch(Selected(evaluated, p), question) = decision

=============================================================================
