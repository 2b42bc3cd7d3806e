--------------------------- MODULE DecisionProofs ---------------------------
(***************************************************************************)
(* Proofs for what decides which listing is which wine: MatchEngine,       *)
(* SearchRounds, ClusterSweep and CandidateSearch, for any values of their *)
(* constants.  Each has a section of its own: what is inductive beside its *)
(* property, and the theorem.                                              *)
(***************************************************************************)
EXTENDS CandidateSearch, MatchEngine, SearchRounds, ClusterSweep, FiniteSetTheorems,
        SequenceTheorems, WellFoundedInduction, TLAPS

(* A finite set has a first member in any total order (not after itself).  *)
(* It is the one with the fewest members before it, in the well-founded    *)
(* order of the finite sets.                                               *)
LEMMA FiniteHasFirst ==
    ASSUME NEW S, IsFiniteSet(S), S # {}, NEW R,
           \A x, y \in S : <<x, y>> \in R \/ <<y, x>> \in R,
           \A x, y, z \in S : <<x, y>> \in R /\ <<y, z>> \in R => <<x, z>> \in R
    PROVE  \E m \in S : \A x \in S : <<m, x>> \in R
<1> DEFINE Under(x) == {y \in S : <<x, y>> \notin R}
           F == {Under(x) : x \in S}
<1>1. \A x \in S : Under(x) \in FiniteSubsetsOf(S)
  <2> SUFFICES ASSUME NEW x \in S PROVE Under(x) \in FiniteSubsetsOf(S) OBVIOUS
  <2>1. Under(x) \in SUBSET S OBVIOUS
  <2> QED BY <2>1, FS_Subset DEF FiniteSubsetsOf
<1>2. F \subseteq FiniteSubsetsOf(S) /\ F # {}
  <2>1. PICK x \in S : TRUE
    OBVIOUS
  <2>2. Under(x) \in F
    OBVIOUS
  <2>3. \A f \in F : f \in FiniteSubsetsOf(S)
    BY <1>1
  <2> HIDE DEF F
  <2> QED BY <2>2, <2>3
<1>3. PICK u \in F : \A v \in F : ~ (<<v, u>> \in StrictSubsetOrdering(S))
  BY <1>2, FS_StrictSubsetOrderingWellFounded, WFMin
<1>4. PICK m \in S : u = Under(m) OBVIOUS
<1>5. ASSUME NEW y \in S, <<m, y>> \notin R PROVE FALSE
  <2>1. y \in Under(m) /\ <<y, m>> \in R /\ y \notin Under(y)
    BY <1>5
  <2>2. \A z \in Under(y) : z \in Under(m)
    BY <2>1
  <2>3. Under(y) \subseteq Under(m)
    BY <2>2
  <2>4. Under(y) \in SUBSET S /\ Under(m) \in SUBSET S /\ Under(y) \in F OBVIOUS
  <2>5. <<Under(y), Under(m)>> \in StrictSubsetOrdering(S)
    <3> HIDE DEF Under
    <3> QED BY <2>1, <2>3, <2>4 DEF StrictSubsetOrdering
  <2> QED BY <1>3, <1>4, <2>4, <2>5
<1> QED BY <1>5

-----------------------------------------------------------------------------
(* MatchEngine.  The candidates of a call are ranked by whole numbers, the *)
(* ties by their places, so that there is always one leader.               *)

Ranked(es) == \E n \in Nat : DOMAIN es = 1..n /\ \A i \in 1..n : es[i].strength \in Int

OneEach(es) == \A i, j \in DOMAIN es : es[i].id = es[j].id => i = j

EngineInv ==
    /\ Ranked(evaluated) /\ OneEach(evaluated)
    /\ decision \in {NoDecision, DecideMatch(evaluated, question)}

-----------------------------------------------------------------------------
(* The scores are whole numbers.                                           *)
LEMMA SumIsNat ==
    ASSUME NEW S, IsFiniteSet(S), NEW f, \A x \in S : f[x] \in Nat
    PROVE  SumOf(f, S) \in Nat
<1> DEFINE Part(x) == {x} \X (1..f[x])
           parts == {Part(x) : x \in S}
           g == [x \in S |-> Part(x)]
<1>1. g \in Surjection(S, parts)
  BY DEF Surjection
<1>2. IsFiniteSet(parts)
  BY <1>1, FS_Surjection
<1>3. ASSUME NEW x \in S PROVE IsFiniteSet(Part(x))
  <2>1. PICK n \in Nat : n = f[x]
    BY <1>3
  <2>2. IsFiniteSet(1..n)
    BY FS_Interval
  <2>3. IsFiniteSet({x})
    BY FS_Singleton
  <2> QED
    BY <2>1, <2>2, <2>3, FS_Product
<1>4. \A T \in parts : IsFiniteSet(T)
  BY <1>3
<1>5. IsFiniteSet(UNION parts)
  BY <1>2, <1>4, FS_UNION
<1>6. Cardinality(UNION parts) \in Nat
  BY <1>5, FS_CardinalityType
<1> QED
  BY <1>6 DEF SumOf

LEMMA GreatestIn ==
    ASSUME NEW S, IsFiniteSet(S), S # {}, S \subseteq Nat
    PROVE  Max(S) \in S
<1> DEFINE R == {d \in S \X S : d[1] >= d[2]}
<1>1. \A x, y \in S : <<x, y>> \in R <=> x >= y
  OBVIOUS
<1>2. \E m \in S : \A x \in S : <<m, x>> \in R
  <2> HIDE DEF R
  <2>1. \A x, y \in S : <<x, y>> \in R \/ <<y, x>> \in R
    <3> SUFFICES ASSUME NEW x \in S, NEW y \in S
                 PROVE  <<x, y>> \in R \/ <<y, x>> \in R
      OBVIOUS
    <3>1. x >= y \/ y >= x
      OBVIOUS
    <3> QED
      BY <1>1, <3>1
  <2>2. \A x, y, z \in S : <<x, y>> \in R /\ <<y, z>> \in R => <<x, z>> \in R
    BY <1>1
  <2> QED
    BY <2>1, <2>2, FiniteHasFirst
<1>3. \E m \in S : \A x \in S : m >= x
  BY <1>1, <1>2
<1> QED
  BY <1>3 DEF Max

LEMMA OfTwo ==
    ASSUME NEW a \in Int, NEW b \in Int
    PROVE  Max({a, b}) \in {a, b} /\ Min({a, b}) \in {a, b}
<1>1. \E x \in {a, b} : \A y \in {a, b} : x >= y
  OBVIOUS
<1>2. \E x \in {a, b} : \A y \in {a, b} : x =< y
  OBVIOUS
<1> QED
  BY <1>1, <1>2 DEF Max, Min

LEMMA RoundedIsInt ==
    ASSUME NEW n \in Int, NEW d \in Nat \ {0}
    PROVE  RoundedDiv(n, d) \in Int
BY DEF RoundedDiv

LEMMA StrengthIsInt ==
    ASSUME NEW c \in CandidatePool
    PROVE  DecisionStrength(c) \in Int
<1>1. IsFiniteSet(Compared) /\ IsFiniteSet(Known(c)) /\ Known(c) \subseteq Fields
  <2>1. Compared \subseteq Fields /\ Known(c) \subseteq Fields
    BY DEF Compared, Known
  <2> QED
    BY <2>1, EngineAssumption, FS_Subset
<1>2. Agreement(c) \in Int
  <2> DEFINE Of(n) == SumOf(Weight, {f \in Known(c) : Score(c.rel[f]) = n})
             w == SumOf(Weight, Known(c))
  <2>1. ASSUME NEW n PROVE Of(n) \in Nat
    <3>1. IsFiniteSet({f \in Known(c) : Score(c.rel[f]) = n})
      BY <1>1, FS_Subset
    <3>2. \A f \in {f \in Known(c) : Score(c.rel[f]) = n} : Weight[f] \in Nat
      BY <1>1, EngineAssumption
    <3> QED
      BY <3>1, <3>2, SumIsNat
  <2>2. w \in Nat
    <3>1. \A f \in Known(c) : Weight[f] \in Nat
      BY <1>1, EngineAssumption
    <3> QED
      BY <1>1, <3>1, SumIsNat
  <2>3. Of(Unit) \in Nat /\ Of(9800) \in Nat /\ Of(9000) \in Nat
    <3> HIDE DEF Of
    <3> QED
      BY <2>1
  <2>4. Agreement(c) = IF w = 0 THEN 0
            ELSE RoundedDiv(Unit * Of(Unit) + 9800 * Of(9800) + 9000 * Of(9000), w)
    BY DEF Agreement
  <2> HIDE DEF Of, w
  <2>5. Unit * Of(Unit) + 9800 * Of(9800) + 9000 * Of(9000) \in Int
    BY <2>3 DEF Unit
  <2> QED
    BY <2>2, <2>4, <2>5, RoundedIsInt
<1>3. Coverage(c) \in Int
  <2> DEFINE required == {f \in Compared : Role[f] = "required"}
             optional == {f \in Compared \ required : c.rel[f] # "silent"}
             PartOf(S) == RoundedDiv(Unit * Cardinality(S \cap Known(c)), Cardinality(S))
  <2>1. ASSUME NEW S \in SUBSET Compared, S # {} PROVE PartOf(S) \in Int
    <3>1. IsFiniteSet(S) /\ IsFiniteSet(S \cap Known(c))
      BY <1>1, FS_Subset
    <3>2. Cardinality(S) \in Nat /\ Cardinality(S) # 0 /\ Cardinality(S \cap Known(c)) \in Nat
      BY <2>1, <3>1, FS_CardinalityType, FS_EmptySet
    <3>3. Unit * Cardinality(S \cap Known(c)) \in Int
      BY <3>2 DEF Unit
    <3> QED
      BY <3>2, <3>3, RoundedIsInt
  <2>2. required \in SUBSET Compared /\ optional \in SUBSET Compared
    OBVIOUS
  <2>3. Coverage(c) =
          IF required = {}
          THEN IF optional = {} THEN 0 ELSE PartOf(optional)
          ELSE RoundedDiv(85 * PartOf(required)
                            + 15 * (IF optional = {} THEN Unit ELSE PartOf(optional)), 100)
    BY DEF Coverage
  <2>4. (IF optional = {} THEN Unit ELSE PartOf(optional)) \in Int
    BY <2>1, <2>2 DEF Unit
  <2> HIDE DEF required, optional, PartOf
  <2>5. CASE required = {}
    BY <2>1, <2>2, <2>3, <2>5
  <2>6. CASE required # {}
    <3>1. PartOf(required) \in Int
      BY <2>1, <2>2, <2>6
    <3>2. PICK o \in Int : o = (IF optional = {} THEN Unit ELSE PartOf(optional))
      BY <2>4
    <3>3. Coverage(c) = RoundedDiv(85 * PartOf(required) + 15 * o, 100)
      BY <2>3, <2>6, <3>2
    <3> QED
      BY <3>1, <3>3, RoundedIsInt
  <2> QED
    BY <2>5, <2>6
<1>4. RetrievalSupport(c) \in Int
  <2>1. CASE c.channels = {}
    BY <2>1 DEF RetrievalSupport
  <2>2. CASE c.channels # {}
    <3> DEFINE strengths == {ChannelStrength[ch] : ch \in c.channels}
               best == Max(strengths)
               others == SumOf(ChannelStrength, c.channels) - best
    <3>1. IsFiniteSet(c.channels) /\ \A ch \in c.channels : ChannelStrength[ch] \in Nat
      BY EngineAssumption
    <3>2. IsFiniteSet(strengths) /\ strengths # {} /\ strengths \subseteq Nat
      <4> DEFINE g == [ch \in c.channels |-> ChannelStrength[ch]]
      <4>1. g \in Surjection(c.channels, strengths)
        BY DEF Surjection
      <4> QED
        BY <2>2, <3>1, <4>1, FS_Surjection
    <3>3. best \in Nat
      BY <3>2, GreatestIn
    <3>4. others \in Int
      BY <3>1, <3>3, SumIsNat
    <3> HIDE DEF best, others
    <3>5. Min({8 * others, 1500}) \in Int
      <4>1. PICK k \in Int : k = 8 * others
        BY <3>4
      <4>2. Min({k, 1500}) \in {k, 1500}
        BY OfTwo
      <4> QED
        BY <4>1, <4>2
    <3>6. Min({Unit, 100 * best + Min({8 * others, 1500})}) \in Int
      <4>1. PICK k \in Int : k = 100 * best + Min({8 * others, 1500})
        BY <3>3, <3>5
      <4>2. Unit \in Int /\ Min({Unit, k}) \in {Unit, k}
        BY OfTwo DEF Unit
      <4> QED
        BY <4>1, <4>2
    <3> QED
      BY <2>2, <3>6 DEF RetrievalSupport, best, others
  <2> QED
    BY <2>1, <2>2
<1>5. c.quality \in Nat /\ Min({c.rejections, 3}) \in Int
  BY EngineAssumption, OfTwo
<1>6. CASE HardContradictions(c) # {}
  BY <1>6 DEF DecisionStrength
<1>7. CASE HardContradictions(c) = {}
  <2> DEFINE sum == 50 * Agreement(c) + 22 * Coverage(c) + 16 * c.quality
                      + 12 * RetrievalSupport(c)
                      - (10 * Unit * Min({c.rejections, 3})) \div 3
  <2>1. sum \in Int
    <3>1. (10 * Unit * Min({c.rejections, 3})) \div 3 \in Int
      BY <1>5 DEF Unit
    <3> QED
      BY <1>2, <1>3, <1>4, <1>5, <3>1
  <2>2. Max({0, sum}) \in Int
    <3> HIDE DEF sum
    <3> QED
      BY <2>1, OfTwo
  <2>3. DecisionStrength(c) = RoundedDiv(Max({0, sum}), 100)
    BY <1>7 DEF DecisionStrength
  <2> HIDE DEF sum
  <2> QED
    BY <2>2, <2>3, RoundedIsInt
<1> QED
  BY <1>6, <1>7

-----------------------------------------------------------------------------
(* Leaders                                                                 *)
LEMMA LeaderLeads ==
    ASSUME NEW es, Ranked(es), NEW S \in SUBSET DOMAIN es, S # {}
    PROVE  Leader(es, S) \in S /\ \A j \in S : Before(es, Leader(es, S), j)
<1> DEFINE R == {d \in S \X S : Before(es, d[1], d[2])}
<1>1. PICK n \in Nat : DOMAIN es = 1..n /\ \A i \in 1..n : es[i].strength \in Int
  BY DEF Ranked
<1>2. IsFiniteSet(S) /\ S \subseteq Int
  <2>1. S \subseteq 1..n
    BY <1>1
  <2>2. IsFiniteSet(1..n)
    BY FS_Interval
  <2> QED
    BY <2>1, <2>2, FS_Subset
<1>3. \A x, y \in S : <<x, y>> \in R <=> Before(es, x, y)
  OBVIOUS
<1>4. \E m \in S : \A x \in S : <<m, x>> \in R
  <2> HIDE DEF R
  <2>1. \A x, y \in S : <<x, y>> \in R \/ <<y, x>> \in R
    <3> SUFFICES ASSUME NEW x \in S, NEW y \in S
                 PROVE  <<x, y>> \in R \/ <<y, x>> \in R
      OBVIOUS
    <3>1. /\ x \in Int /\ y \in Int
          /\ es[x].strength \in Int /\ es[y].strength \in Int
      BY <1>1, <1>2
    <3>2. Before(es, x, y) \/ Before(es, y, x)
      BY <3>1 DEF Before
    <3> QED
      BY <1>3, <3>2
  <2>2. \A x, y, z \in S : <<x, y>> \in R /\ <<y, z>> \in R => <<x, z>> \in R
    BY <1>1, <1>2, <1>3 DEF Before
  <2> QED
    BY <1>2, <2>1, <2>2, FiniteHasFirst
<1>5. \E m \in S : \A x \in S : Before(es, m, x)
  BY <1>3, <1>4
<1> QED
  BY <1>5 DEF Leader

LEMMA LeaderIs ==
    ASSUME NEW es, Ranked(es), NEW S \in SUBSET DOMAIN es, NEW l \in S,
           \A j \in S : Before(es, l, j)
    PROVE  Leader(es, S) = l
<1>1. PICK n \in Nat : DOMAIN es = 1..n /\ \A i \in 1..n : es[i].strength \in Int
  BY DEF Ranked
<1>2. Leader(es, S) \in S /\ Before(es, Leader(es, S), l)
  BY LeaderLeads
<1>3. Before(es, l, Leader(es, S))
  BY <1>2
<1>4. PICK k \in S : k = Leader(es, S)
  BY <1>2
<1>5. k = l
  BY <1>1, <1>2, <1>3, <1>4 DEF Before
<1> QED
  BY <1>4, <1>5

(* The margin is that to every other candidate.                            *)
LEMMA MarginToAll ==
    ASSUME NEW es, Ranked(es), NEW l \in Eligible(es), l = Leader(es, Eligible(es)),
           NEW m \in Int, m <= Unit
    PROVE  /\ TopMargin(es) \in Int
           /\ TopMargin(es) >= m <=> \A j \in Eligible(es) \ {l} :
                                         es[l].strength - es[j].strength >= m
<1> DEFINE others == Eligible(es) \ {l}
<1>1. PICK n \in Nat : DOMAIN es = 1..n /\ \A i \in 1..n : es[i].strength \in Int
  BY DEF Ranked
<1>2. Eligible(es) \subseteq DOMAIN es /\ others \subseteq DOMAIN es
  BY DEF Eligible
<1>3. CASE others = {}
  <2>1. TopMargin(es) = Unit
    BY <1>3 DEF TopMargin
  <2> QED
    BY <1>3, <2>1 DEF Unit
<1>4. CASE others # {}
  <2>1. PICK k \in others : k = Leader(es, others) /\ \A j \in others : Before(es, k, j)
    <3> HIDE DEF others
    <3> QED
      BY <1>2, <1>4, LeaderLeads
  <2>2. TopMargin(es) = es[l].strength - es[k].strength
    BY <1>4, <2>1 DEF TopMargin
  <2>3. es[l].strength \in Int /\ es[k].strength \in Int
        /\ \A j \in others : es[j].strength \in Int /\ es[j].strength <= es[k].strength
    <3>1. \A j \in others : j \in 1..n /\ es[j].strength \in Int
      BY <1>1, <1>2
    <3>2. l \in 1..n /\ es[l].strength \in Int
      BY <1>1, <1>2
    <3> HIDE DEF others
    <3> QED
      BY <2>1, <3>1, <3>2 DEF Before
  <2>4. PICK a \in Int, b \in Int : a = es[l].strength /\ b = es[k].strength
    BY <2>3
  <2>5. TopMargin(es) = a - b
    BY <2>2, <2>4
  <2>6. \A j \in others : a - es[j].strength \in Int /\ a - es[j].strength >= a - b
    BY <2>3, <2>4
  <2>7. TopMargin(es) >= m => \A j \in others : a - es[j].strength >= m
    <3> HIDE DEF others
    <3> QED
      BY <2>5, <2>6
  <2>8. (\A j \in others : a - es[j].strength >= m) => TopMargin(es) >= m
    BY <2>1, <2>4, <2>5
  <2> QED
    BY <2>4, <2>5, <2>7, <2>8
<1> QED
  BY <1>3, <1>4

-----------------------------------------------------------------------------
(* What is left of a list when some of its candidates are taken.           *)
LEMMA SelectedFrom ==
    ASSUME NEW es, Ranked(es), NEW p \in Selections(es)
    PROVE  /\ Ranked(Selected(es, p))
           /\ DOMAIN Selected(es, p) = DOMAIN p
           /\ \A i \in DOMAIN p : p[i] \in DOMAIN es /\ Selected(es, p)[i] = es[p[i]]
           /\ \A i, j \in DOMAIN p : p[i] = p[j] => i = j
           /\ Eligible(Selected(es, p)) = {i \in DOMAIN p : p[i] \in Eligible(es)}
<1>1. PICK n \in Nat : DOMAIN es = 1..n /\ \A i \in 1..n : es[i].strength \in Int
  BY DEF Ranked
<1>2. PICK k \in Nat : p \in [1..k -> DOMAIN es] /\ IsInjective(p)
  BY DEF Selections
<1>3. DOMAIN p = 1..k /\ \A i \in 1..k : p[i] \in 1..n
  BY <1>1, <1>2
<1>4. DOMAIN Selected(es, p) = 1..k /\ \A i \in 1..k : Selected(es, p)[i] = es[p[i]]
  BY <1>3 DEF Selected
<1>5. Ranked(Selected(es, p))
  BY <1>1, <1>3, <1>4 DEF Ranked
<1>6. \A i, j \in DOMAIN p : p[i] = p[j] => i = j
  BY <1>2 DEF IsInjective
<1>7. Eligible(Selected(es, p)) = {i \in DOMAIN p : p[i] \in Eligible(es)}
  BY <1>1, <1>3, <1>4 DEF Eligible
<1> QED
  BY <1>1, <1>3, <1>4, <1>5, <1>6, <1>7

LEMMA MarginAsked ==
    \E m \in Int : m = Thresholds.topMargin /\ m > 0 /\ m <= Unit
<1>1. PICK m : m = Thresholds.topMargin
  OBVIOUS
<1>2. m \in 1..Unit
  BY <1>1, EngineAssumption
<1>3. m \in 1..10000
  BY <1>2 DEF Unit
<1>4. m \in Int /\ m > 0 /\ m <= 10000
  BY <1>3
<1> QED
  BY <1>1, <1>4 DEF Unit

(* The ways a call with an eligible candidate may end, by its leader, by   *)
(* its margin and by whether it is the only one.                           *)
LEMMA Decided ==
    ASSUME NEW es, NEW q, NEW l, l = Leader(es, Eligible(es)), Eligible(es) # {}
    PROVE  /\ DecideMatch(es, q).listing = es[l].id
           /\ es[l].id \in q.verified => DecideMatch(es, q).status = "human_verified"
           /\ es[l].id \notin q.verified =>
                (DecideMatch(es, q).status = "auto_verified" <=>
                     \/ IdentityCompleteEligible(es[l], TopMargin(es), q.policy)
                     \/ AutoEligible(es[l], TopMargin(es), q.policy))
           /\ DecideMatch(es, q) = [status |-> DecideMatch(es, q).status, listing |-> es[l].id]
<1>1. es # <<>>
  BY DEF Eligible
<1> QED
  BY <1>1 DEF DecideMatch

(* With others left out, or in another order, a listing that was verified  *)
(* without a person still leads and its margin is no smaller than the      *)
(* policy asks for.                                                        *)
LEMMA StillVerified ==
    ASSUME NEW es, Ranked(es), OneEach(es), NEW q,
           DecideMatch(es, q).status = "auto_verified",
           NEW p \in Selections(es), NEW k \in DOMAIN p,
           es[p[k]].id = DecideMatch(es, q).listing
    PROVE  DecideMatch(Selected(es, p), q) = DecideMatch(es, q)
<1> DEFINE fs == Selected(es, p)
<1>1. /\ Ranked(fs) /\ DOMAIN fs = DOMAIN p
      /\ \A i \in DOMAIN p : p[i] \in DOMAIN es /\ fs[i] = es[p[i]]
      /\ \A i, j \in DOMAIN p : p[i] = p[j] => i = j
      /\ Eligible(fs) = {i \in DOMAIN p : p[i] \in Eligible(es)}
  BY SelectedFrom
<1> HIDE DEF fs
<1>2. Eligible(es) # {}
  BY DEF DecideMatch
<1>3. PICK l \in Eligible(es) : l = Leader(es, Eligible(es))
  BY <1>2, LeaderLeads DEF Eligible
<1>4. p[k] = l
  <2>1. DecideMatch(es, q).listing = es[l].id
    BY <1>2, <1>3, Decided
  <2> QED
    BY <1>1, <1>3, <2>1 DEF OneEach, Eligible
<1>5. /\ es[l].id \notin q.verified
      /\ \/ IdentityCompleteEligible(es[l], TopMargin(es), q.policy)
         \/ AutoEligible(es[l], TopMargin(es), q.policy)
  BY <1>2, <1>3, Decided
<1>6. PICK m \in Int : m = Thresholds.topMargin /\ m > 0 /\ m <= Unit
  BY MarginAsked
<1>7. \A j \in Eligible(es) \ {l} : es[l].strength - es[j].strength >= m
  <2>1. TopMargin(es) >= m
    BY <1>5, <1>6 DEF IdentityCompleteEligible, AutoEligible
  <2> QED
    BY <1>3, <1>6, <2>1, MarginToAll
<1>8. k \in Eligible(fs) /\ fs[k] = es[l]
  BY <1>1, <1>3, <1>4
<1>9. \A j \in Eligible(fs) \ {k} : fs[k].strength - fs[j].strength >= m
  BY <1>1, <1>4, <1>7, <1>8
<1>10. k = Leader(fs, Eligible(fs))
  <2>1. \A j \in Eligible(fs) : Before(fs, k, j)
    <3> SUFFICES ASSUME NEW j \in Eligible(fs) PROVE Before(fs, k, j)
      OBVIOUS
    <3>1. PICK n \in Nat : DOMAIN fs = 1..n /\ \A i \in 1..n : fs[i].strength \in Int
      BY <1>1 DEF Ranked
    <3>2. k \in 1..n /\ j \in 1..n
      BY <1>1, <1>8, <3>1
    <3>3. CASE j = k
      BY <3>2, <3>3 DEF Before
    <3>4. CASE j # k
      <4>1. PICK a \in Int, b \in Int : a = fs[k].strength /\ b = fs[j].strength
        BY <3>1, <3>2
      <4>2. a - b >= m
        BY <1>9, <3>4, <4>1
      <4>3. a > b
        BY <1>6, <4>2
      <4> QED
        BY <4>1, <4>3 DEF Before
    <3> QED
      BY <3>3, <3>4
  <2>2. Eligible(fs) \in SUBSET DOMAIN fs
    BY <1>1
  <2> QED
    BY <1>1, <1>8, <2>1, <2>2, LeaderIs
<1>11. TopMargin(fs) >= m
  BY <1>1, <1>6, <1>8, <1>9, <1>10, MarginToAll
<1>12. \/ IdentityCompleteEligible(fs[k], TopMargin(fs), q.policy)
       \/ AutoEligible(fs[k], TopMargin(fs), q.policy)
  BY <1>5, <1>6, <1>8, <1>11 DEF IdentityCompleteEligible, AutoEligible
<1>13. /\ DecideMatch(fs, q) = [status |-> DecideMatch(fs, q).status, listing |-> fs[k].id]
       /\ DecideMatch(fs, q).status = "auto_verified"
  BY <1>5, <1>8, <1>10, <1>12, Decided
<1>14. DecideMatch(es, q) = [status |-> DecideMatch(es, q).status, listing |-> es[l].id]
  BY <1>2, <1>3, Decided
<1> QED
  BY <1>8, <1>13, <1>14 DEF fs

(* The leader and the margin are those of the eligible candidates, if they *)
(* keep the order they came in.                                            *)
LEMMA RejectedSilent ==
    ASSUME NEW es, Ranked(es), NEW q, Eligible(es) # {},
           NEW p \in Selections(es),
           \A i, j \in DOMAIN p : i < j => p[i] < p[j],
           Eligible(es) \subseteq ToSet(p)
    PROVE  DecideMatch(Selected(es, p), q) = DecideMatch(es, q)
<1> DEFINE fs == Selected(es, p)
<1>1. /\ Ranked(fs) /\ DOMAIN fs = DOMAIN p
      /\ \A i \in DOMAIN p : p[i] \in DOMAIN es /\ fs[i] = es[p[i]]
      /\ \A i, j \in DOMAIN p : p[i] = p[j] => i = j
      /\ Eligible(fs) = {i \in DOMAIN p : p[i] \in Eligible(es)}
  BY SelectedFrom
<1> HIDE DEF fs
<1>2. PICK n \in Nat : DOMAIN p = 1..n
  BY <1>1 DEF Ranked
<1>3. \A j \in Eligible(es) : \E i \in DOMAIN p : p[i] = j
  BY DEF ToSet
<1>4. ASSUME NEW S \in SUBSET Eligible(es), S # {},
             NEW T, T = {i \in DOMAIN p : p[i] \in S}
      PROVE  T # {} /\ Leader(fs, T) \in T /\ p[Leader(fs, T)] = Leader(es, S)
  <2>1. S \in SUBSET DOMAIN es
    BY <1>4 DEF Eligible
  <2>2. PICK l \in S : l = Leader(es, S) /\ \A j \in S : Before(es, l, j)
    BY <1>4, <2>1, LeaderLeads
  <2>3. PICK k \in DOMAIN p : p[k] = l
    BY <1>3, <1>4, <2>2
  <2>4. k \in T /\ T \in SUBSET DOMAIN fs
    BY <1>1, <1>4, <2>2, <2>3
  <2>5. ASSUME NEW j \in T PROVE Before(fs, k, j)
    <3>1. Before(es, p[k], p[j]) /\ fs[k] = es[p[k]] /\ fs[j] = es[p[j]]
      BY <1>1, <1>4, <2>2, <2>3
    <3>2. p[k] <= p[j] => k <= j
      <4>1. PICK m \in Nat : DOMAIN es = 1..m
        BY DEF Ranked
      <4>2. k \in 1..n /\ j \in 1..n /\ p[k] \in 1..m /\ p[j] \in 1..m
        BY <1>1, <1>2, <1>4, <4>1
      <4>3. j < k => p[j] < p[k]
        BY <1>2, <4>2
      <4> QED
        BY <4>2, <4>3
    <3> QED
      BY <3>1, <3>2 DEF Before
  <2>6. Leader(fs, T) = k
    BY <1>1, <2>4, <2>5, LeaderIs
  <2> QED
    BY <2>2, <2>3, <2>4, <2>6
<1>5. PICK l \in Eligible(es) : l = Leader(es, Eligible(es))
  BY LeaderLeads DEF Eligible
<1>6. PICK k \in Eligible(fs) : k = Leader(fs, Eligible(fs)) /\ p[k] = l
  BY <1>1, <1>4, <1>5
<1>7. fs[k] = es[l] /\ Eligible(fs) # {}
  BY <1>1, <1>6
<1> DEFINE others == Eligible(es) \ {l}
           rest == Eligible(fs) \ {k}
<1>8. rest = {i \in DOMAIN p : p[i] \in others}
  BY <1>1, <1>6
<1>9. CASE others = {}
  <2>1. rest = {}
    BY <1>8, <1>9
  <2>2. TopMargin(fs) = TopMargin(es)
    BY <1>5, <1>6, <1>9, <2>1 DEF TopMargin
  <2>3. Eligible(es) = {l} /\ Eligible(fs) = {k}
    BY <1>5, <1>6, <1>9, <2>1
  <2>4. ~(Cardinality(Eligible(es)) > 1) /\ ~(Cardinality(Eligible(fs)) > 1)
    BY <2>3, FS_Singleton
  <2>5. es # <<>> /\ fs # <<>>
    BY <1>5, <1>6 DEF Eligible
  <2> QED
    BY <1>5, <1>6, <1>7, <2>2, <2>4, <2>5 DEF DecideMatch, fs
<1>10. CASE others # {}
  <2>1. /\ rest # {} /\ Leader(fs, rest) \in rest
        /\ p[Leader(fs, rest)] = Leader(es, others)
    <3>1. others \in SUBSET Eligible(es)
      OBVIOUS
    <3> HIDE DEF others, rest
    <3> QED
      BY <1>4, <1>8, <1>10, <3>1
  <2>2. fs[Leader(fs, rest)] = es[Leader(es, others)]
    BY <1>1, <2>1
  <2>3. TopMargin(fs) = TopMargin(es)
    BY <1>5, <1>6, <1>7, <1>10, <2>1, <2>2 DEF TopMargin
  <2>4. Cardinality(Eligible(es)) > 1 /\ Cardinality(Eligible(fs)) > 1
    <3>1. IsFiniteSet(Eligible(es)) /\ IsFiniteSet(Eligible(fs))
      <4>1. PICK m \in Nat : DOMAIN es = 1..m
        BY DEF Ranked
      <4>2. IsFiniteSet(1..m) /\ IsFiniteSet(1..n)
        BY FS_Interval
      <4>3. Eligible(es) \subseteq 1..m /\ Eligible(fs) \subseteq 1..n
        BY <1>1, <1>2, <4>1 DEF Eligible
      <4> QED
        BY <4>2, <4>3, FS_Subset
    <3>2. /\ Cardinality(Eligible(es)) \in Nat /\ Cardinality(Eligible(fs)) \in Nat
          /\ Cardinality(others) = Cardinality(Eligible(es)) - 1
          /\ Cardinality(rest) = Cardinality(Eligible(fs)) - 1
      BY <1>5, <1>6, <3>1, FS_CardinalityType, FS_RemoveElement
    <3>3. IsFiniteSet(others) /\ IsFiniteSet(rest)
      BY <3>1, FS_RemoveElement
    <3>4. /\ Cardinality(others) \in Nat /\ Cardinality(others) # 0
          /\ Cardinality(rest) \in Nat /\ Cardinality(rest) # 0
      <4> HIDE DEF others, rest
      <4> QED
        BY <1>10, <2>1, <3>3, FS_CardinalityType, FS_EmptySet
    <3> HIDE DEF others, rest
    <3> QED
      BY <3>2, <3>4
  <2>5. es # <<>> /\ fs # <<>>
    BY <1>5, <1>6 DEF Eligible
  <2> QED
    BY <1>5, <1>6, <1>7, <2>3, <2>4, <2>5 DEF DecideMatch, fs
<1> QED
  BY <1>9, <1>10

-----------------------------------------------------------------------------
LEMMA InitEngineInv ==
    ASSUME EngineInit
    PROVE  EngineInv
<1>1. Ranked(<<>>) /\ OneEach(<<>>)
  BY DEF Ranked, OneEach
<1> QED
  BY <1>1 DEF EngineInit, EngineInv

LEMMA AnswerKeeps ==
    ASSUME EngineInv, [AnswerQuestion]_engineVars
    PROVE  EngineInv'
<1>1. CASE AnswerQuestion
  <2>1. PICK cands \in CandidateLists :
            evaluated' = [i \in DOMAIN cands |-> ScoreCandidate(cands[i])]
    BY <1>1 DEF AnswerQuestion
  <2>2. PICK n \in Nat : cands \in [1..n -> CandidatePool] /\ IsInjective(cands)
    BY EngineAssumption DEF CandidateLists
  <2>3. \A i \in 1..n : /\ evaluated'[i].strength = DecisionStrength(cands[i])
                        /\ evaluated'[i].id = cands[i].id
                        /\ cands[i] \in CandidatePool
    BY <2>1, <2>2 DEF ScoreCandidate
  <2>4. DOMAIN evaluated' = 1..n
    BY <2>1, <2>2
  <2>5. Ranked(evaluated')
    BY <2>3, <2>4, StrengthIsInt DEF Ranked
  <2>6. OneEach(evaluated')
    <3>1. \A i, j \in 1..n : cands[i] = cands[j] => i = j
      BY <2>2 DEF IsInjective
    <3> QED
      BY <2>3, <2>4, <3>1, EngineAssumption DEF OneEach
  <2> QED
    BY <1>1, <2>5, <2>6 DEF AnswerQuestion, EngineInv, Ranked, OneEach
<1>2. CASE UNCHANGED engineVars
  BY <1>2 DEF engineVars, EngineInv, Ranked, OneEach
<1> QED
  BY <1>1, <1>2

LEMMA EngineDecides ==
    ASSUME EngineInv
    PROVE  DecidedByTheQuestion
<1>1. Ranked(evaluated) /\ OneEach(evaluated)
  BY DEF EngineInv
<1>2. CASE decision = NoDecision
  BY <1>2 DEF DecidedByTheQuestion, NoDecision
<1>3. CASE decision # NoDecision
  <2>1. decision = DecideMatch(evaluated, question)
    BY <1>3 DEF EngineInv
  <2>2. ASSUME decision.status = "auto_verified", NEW p \in Selections(evaluated),
               \E i \in DOMAIN p : evaluated[p[i]].id = decision.listing
        PROVE  DecideMatch(Selected(evaluated, p), question) = decision
    BY <1>1, <2>1, <2>2, StillVerified
  <2>3. ASSUME Eligible(evaluated) # {}, NEW p \in Selections(evaluated),
               \A i, j \in DOMAIN p : i < j => p[i] < p[j],
               Eligible(evaluated) \subseteq ToSet(p)
        PROVE  DecideMatch(Selected(evaluated, p), question) = decision
    BY <1>1, <2>1, <2>3, RejectedSilent
  <2> QED
    BY <2>2, <2>3 DEF DecidedByTheQuestion
<1> QED
  BY <1>2, <1>3

(* What the engine verifies without a person hangs on the question and     *)
(* that listing alone, and what a contradiction rejects has no say.        *)
THEOREM AlwaysDecidedByTheQuestion == EngineSpec => []DecidedByTheQuestion
<1>1. EngineInit => EngineInv
  BY InitEngineInv
<1>2. EngineInv /\ [AnswerQuestion]_engineVars => EngineInv'
  BY AnswerKeeps
<1>3. EngineInv => DecidedByTheQuestion
  BY EngineDecides
<1> QED
  BY <1>1, <1>2, <1>3, PTL DEF EngineSpec

-----------------------------------------------------------------------------
(* SearchRounds.  A pair that a round leaves out has not been evaluated    *)
(* since it was due, and every such round takes others in all the places   *)
(* that the tracked and the failing ones leave: they are in the round or   *)
(* come after it in the order of the searches from then on (Served), so    *)
(* that none is taken twice before it.                                     *)

RowStatuses == Outcomes \cup
    {"unsearched", "human_verified", "auto_verified", "rejected",
     "not_found_after_full_search", "listing_missing"}

Others == Pairs \ AlwaysThere

Served(p) == {q \in Others \ {p} : <<p, q>> \in searchOrder \/ q \in ToSet(roundList)}

RowsTyped ==
    /\ pairStatus \in [Pairs -> RowStatuses]
    /\ untilSearch \in [Pairs -> Nat \cup {NotPlanned}]
    /\ leftOut \in [Pairs -> Nat]
    /\ roundList \in Seq(Pairs)

LeftOutIsDue == \A p \in Pairs : leftOut[p] # 0 => p \in Due \ TrackedPairs

OthersServed == \A p \in Pairs : leftOut[p] <= Cardinality(Served(p))

RoundsInv == RoundsTypeOK /\ RowsTyped /\ LeftOutIsDue /\ OthersServed

-----------------------------------------------------------------------------
LEMMA ServedFinite ==
    ASSUME NEW p \in Pairs
    PROVE  /\ Served(p) \subseteq Others \ {p}
           /\ IsFiniteSet(Served(p)) /\ Cardinality(Served(p)) \in Nat
<1>1. Served(p) \subseteq Pairs /\ Served(p) \subseteq Others \ {p}
  BY DEF Served, Others
<1> QED
  BY <1>1, RoundsAssumption, FS_Subset, FS_CardinalityType

(* Nothing but an evaluation, a rejection and a promotion dates a row: the *)
(* pair goes behind all the others.                                        *)
LEMMA LastOrders ==
    ASSUME Orders(searchOrder, Pairs), NEW p \in Pairs
    PROVE  /\ Orders(LastInOrder(p), Pairs)
           /\ \A q, r \in Pairs : q # p => (<<q, r>> \in LastInOrder(p) <=>
                                               <<q, r>> \in searchOrder \/ r = p)
<1>1. \A q, r \in Pairs : <<q, r>> \in LastInOrder(p) <=>
          q # p /\ (<<q, r>> \in searchOrder \/ r = p)
  BY DEF LastInOrder, Orders
<1>2. LastInOrder(p) \subseteq Pairs \X Pairs
  BY DEF LastInOrder, Orders
<1> QED
  BY <1>1, <1>2 DEF Orders

(* The order of a round's question is one: of two due pairs one is ahead.  *)
LEMMA AheadOrders ==
    ASSUME Orders(searchOrder, Pairs)
    PROVE  /\ \A p, q \in Pairs : Ahead(q, p) <=> p # q /\ ~Ahead(p, q)
           /\ \A p, q, r \in Pairs : Ahead(p, q) /\ Ahead(q, r) => Ahead(p, r)
BY DEF Orders, Ahead

LEMMA NextSearchLater ==
    ASSUME NEW s
    PROVE  InDays[nextSearchFor(s)] \in Nat \ {0} /\ InDays[30] \in Nat \ {0}
           /\ InDays[1] \in Nat \ {0}
<1>1. nextSearchFor(s) \in {1, 3, 7, 14, 30}
  BY DEF nextSearchFor
<1> QED
  BY <1>1, RoundsAssumption

-----------------------------------------------------------------------------
(* A round is the due pairs that fewer than RoundLimit are ahead of: with  *)
(* one it takes all that are ahead of it, it takes no more than RoundLimit *)
(* and, if it leaves one out, no fewer.                                    *)
LEMMA RoundTakes ==
    ASSUME RoundsInv
    PROVE  /\ IsFiniteSet(ThisRound) /\ ThisRound \subseteq Due
           /\ Cardinality(ThisRound) \in Nat
           /\ Cardinality(ThisRound) <= RoundLimit
           /\ Due \ ThisRound # {} => Cardinality(ThisRound) >= RoundLimit
           /\ \A p \in Due \ ThisRound, q \in ThisRound : Ahead(q, p)
<1> DEFINE InFront(p) == {q \in Due : Ahead(q, p)}
<1>1. Orders(searchOrder, Pairs) /\ RoundLimit \in Nat
  BY RoundsAssumption DEF RoundsInv, RoundsTypeOK
<1>2. /\ \A p, q \in Pairs : Ahead(q, p) <=> p # q /\ ~Ahead(p, q)
      /\ \A p, q, r \in Pairs : Ahead(p, q) /\ Ahead(q, r) => Ahead(p, r)
  BY <1>1, AheadOrders
<1>3. Due \subseteq Pairs /\ IsFiniteSet(Due)
  <2>1. Due \subseteq Pairs
    BY DEF Due
  <2> QED
    BY <2>1, RoundsAssumption, FS_Subset
<1>4. \A p \in Pairs : /\ IsFiniteSet(InFront(p)) /\ Cardinality(InFront(p)) \in Nat
                       /\ InFront(p) \subseteq Due
  BY <1>3, FS_Subset, FS_CardinalityType
<1>5. \A p : p \in ThisRound <=> p \in Due /\ Cardinality(InFront(p)) < RoundLimit
  BY DEF ThisRound
<1>6. ThisRound \subseteq Due /\ IsFiniteSet(ThisRound) /\ Cardinality(ThisRound) \in Nat
  <2>1. ThisRound \subseteq Due
    BY <1>5
  <2> QED
    BY <2>1, <1>3, FS_Subset, FS_CardinalityType
<1>7. ASSUME NEW p \in Due \ ThisRound, NEW q \in ThisRound
      PROVE  Ahead(q, p)
  <2>1. p \in Pairs /\ q \in Pairs /\ p # q
    BY <1>3, <1>6
  <2>2. SUFFICES ASSUME Ahead(p, q) PROVE FALSE
    BY <1>2, <2>1
  <2>3. InFront(p) \subseteq InFront(q)
    BY <1>2, <1>3, <2>1, <2>2
  <2>4. Cardinality(InFront(p)) <= Cardinality(InFront(q))
    BY <1>4, <2>1, <2>3, FS_Subset
  <2> HIDE DEF InFront
  <2> QED
    BY <1>1, <1>4, <1>5, <2>1, <2>4
<1>9. ASSUME Due \ ThisRound # {}
      PROVE  Cardinality(ThisRound) >= RoundLimit
  <2> DEFINE S == Due \ ThisRound
             R == {d \in S \X S : d[1] = d[2] \/ Ahead(d[1], d[2])}
  <2>1. IsFiniteSet(S) /\ S # {} /\ S \subseteq Pairs
    BY <1>3, <1>9, FS_Subset
  <2>2. \A x, y \in S : <<x, y>> \in R <=> x = y \/ Ahead(x, y)
    OBVIOUS
  <2>3. \E m \in S : \A x \in S : <<m, x>> \in R
    <3> HIDE DEF S, R
    <3>1. \A x, y \in S : <<x, y>> \in R \/ <<y, x>> \in R
      BY <1>2, <2>1, <2>2
    <3>2. \A x, y, z \in S : <<x, y>> \in R /\ <<y, z>> \in R => <<x, z>> \in R
      BY <1>2, <2>1, <2>2
    <3> QED
      BY <2>1, <3>1, <3>2, FiniteHasFirst
  <2>4. PICK m \in S : \A x \in S : m = x \/ Ahead(m, x)
    BY <2>2, <2>3
  <2>5. InFront(m) \subseteq ThisRound
    BY <1>2, <1>3, <2>1, <2>4
  <2>6. Cardinality(InFront(m)) <= Cardinality(ThisRound)
    BY <1>6, <2>5, FS_Subset
  <2> HIDE DEF InFront
  <2> QED
    BY <1>1, <1>3, <1>4, <1>5, <1>6, <2>4, <2>6
<1>10. Cardinality(ThisRound) <= RoundLimit
  <2>1. CASE ThisRound = {}
    BY <1>1, <2>1, FS_EmptySet
  <2>2. CASE ThisRound # {}
    <3> DEFINE R == {d \in ThisRound \X ThisRound : d[1] = d[2] \/ Ahead(d[2], d[1])}
    <3>1. \A x, y \in ThisRound : <<x, y>> \in R <=> x = y \/ Ahead(y, x)
      OBVIOUS
    <3>2. \E m \in ThisRound : \A x \in ThisRound : <<m, x>> \in R
      <4> HIDE DEF R
      <4>1. \A x, y \in ThisRound : <<x, y>> \in R \/ <<y, x>> \in R
        BY <1>2, <1>3, <1>6, <3>1
      <4>2. \A x, y, z \in ThisRound : <<x, y>> \in R /\ <<y, z>> \in R => <<x, z>> \in R
        BY <1>2, <1>3, <1>6, <3>1
      <4> QED
        BY <1>6, <2>2, <4>1, <4>2, FiniteHasFirst
    <3>3. PICK m \in ThisRound : \A x \in ThisRound : x = m \/ Ahead(x, m)
      BY <3>1, <3>2
    <3>4. ThisRound \ {m} \subseteq InFront(m)
      BY <1>6, <3>3
    <3>5. Cardinality(ThisRound \ {m}) <= Cardinality(InFront(m))
      BY <1>3, <1>4, <1>6, <3>3, <3>4, FS_Subset
    <3>6. Cardinality(ThisRound \ {m}) = Cardinality(ThisRound) - 1
      BY <1>6, <3>3, FS_RemoveElement
    <3> HIDE DEF InFront
    <3> QED
      BY <1>1, <1>3, <1>4, <1>5, <1>6, <3>3, <3>5, <3>6
  <2> QED
    BY <2>1, <2>2
<1> QED
  BY <1>6, <1>7, <1>9, <1>10

(* The places left to others are as many as a round takes of them, if it   *)
(* leaves a pair out; with a tracked one left out, it takes none of them.  *)
LEMMA PlacesFilled ==
    ASSUME RoundsInv
    PROVE  /\ Places \in Nat
           /\ Due \ ThisRound # {} => Places = Cardinality(ThisRound \cap Others)
           /\ (Due \ ThisRound) \cap TrackedPairs # {} => Places = 0
<1> DEFINE always == ThisRound \cap AlwaysThere
           taken == ThisRound \cap Others
<1>1. /\ IsFiniteSet(ThisRound) /\ Cardinality(ThisRound) \in Nat
      /\ ThisRound \subseteq Pairs /\ RoundLimit \in Nat
      /\ Cardinality(ThisRound) <= RoundLimit
      /\ Due \ ThisRound # {} => Cardinality(ThisRound) >= RoundLimit
      /\ \A p \in Due \ ThisRound, q \in ThisRound : Ahead(q, p)
  BY RoundTakes, RoundsAssumption DEF Due
<1>2. /\ IsFiniteSet(always) /\ IsFiniteSet(taken)
      /\ Cardinality(always) \in Nat /\ Cardinality(taken) \in Nat
      /\ Cardinality(always) <= Cardinality(ThisRound)
  <2>1. always \subseteq ThisRound /\ taken \subseteq ThisRound
    OBVIOUS
  <2> HIDE DEF always, taken
  <2> QED
    BY <1>1, <2>1, FS_Subset, FS_CardinalityType
<1>3. Cardinality(ThisRound) = Cardinality(always) + Cardinality(taken)
  <2>1. always \cup taken = ThisRound /\ always \cap taken = {}
    BY <1>1 DEF Others
  <2> HIDE DEF always, taken
  <2>2. Cardinality(always \cup taken)
          = Cardinality(always) + Cardinality(taken) - Cardinality(always \cap taken)
    BY <1>2, FS_Union
  <2>3. Cardinality(always \cap taken) = 0
    BY <2>1, FS_EmptySet
  <2>4. Cardinality(ThisRound) = Cardinality(always) + Cardinality(taken) - 0
    BY <2>1, <2>2, <2>3
  <2> QED
    BY <1>2, <2>4
<1>4. Places = RoundLimit - Cardinality(always)
  BY DEF Places
<1>5. ASSUME NEW p \in Due \ ThisRound, p \in TrackedPairs PROVE taken = {}
  BY <1>1, <1>5 DEF Ahead, Others, AlwaysThere
<1>6. taken = {} => Cardinality(taken) = 0
  BY FS_EmptySet
<1> HIDE DEF always
<1>7. Places \in Nat /\ (Due \ ThisRound # {} => Places = Cardinality(taken))
  BY <1>1, <1>2, <1>3, <1>4
<1>8. (Due \ ThisRound) \cap TrackedPairs # {} => Places = 0
  BY <1>5, <1>6, <1>7
<1> QED
  BY <1>7, <1>8

-----------------------------------------------------------------------------
LEMMA InitRoundsInv ==
    ASSUME RoundsInit
    PROVE  RoundsInv
<1>1. RoundsTypeOK /\ RowsTyped
  <2>1. ToSet(<<>>) = {} /\ Len(<<>>) = 0 /\ <<>> \in Seq(Pairs)
    BY DEF ToSet
  <2> QED
    BY <2>1, RoundsAssumption DEF RoundsInit, RoundsTypeOK, RowsTyped, RowStatuses
<1>2. LeftOutIsDue
  BY DEF RoundsInit, LeftOutIsDue
<1>3. OthersServed
  BY ServedFinite DEF RoundsInit, OthersServed
<1> QED
  BY <1>1, <1>2, <1>3 DEF RoundsInv

(* A step in which nobody is served less and only due pairs stay left out. *)
LEMMA NobodyLess ==
    ASSUME RoundsInv, RoundsTypeOK', RowsTyped',
           \A p \in Pairs : leftOut'[p] = 0 \/
               (leftOut'[p] = leftOut[p] /\ p \in Due' /\ Served(p) \subseteq Served(p)')
    PROVE  RoundsInv'
<1>1. LeftOutIsDue'
  BY DEF RoundsInv, LeftOutIsDue
<1>2. OthersServed'
  <2> SUFFICES ASSUME NEW p \in Pairs
               PROVE  leftOut'[p] <= Cardinality(Served(p)')
    BY DEF OthersServed
  <2>1. /\ IsFiniteSet(Served(p)') /\ Cardinality(Served(p)') \in Nat
    <3>1. Served(p)' \subseteq Pairs
      BY DEF Served, Others
    <3> QED
      BY <3>1, RoundsAssumption, FS_Subset, FS_CardinalityType
  <2>2. CASE leftOut'[p] = 0
    BY <2>1, <2>2
  <2>3. CASE leftOut'[p] = leftOut[p] /\ Served(p) \subseteq Served(p)'
    <3>1. Cardinality(Served(p)) <= Cardinality(Served(p)')
      BY <2>1, <2>3, FS_Subset
    <3>2. leftOut[p] <= Cardinality(Served(p)) /\ leftOut[p] \in Nat
      BY DEF RoundsInv, OthersServed, RowsTyped
    <3> QED
      BY <2>1, <2>3, <3>1, <3>2, ServedFinite
  <2> QED
    BY <2>2, <2>3
<1> QED
  BY <1>1, <1>2 DEF RoundsInv

-----------------------------------------------------------------------------
(* A new round.  The pairs it takes are ahead of every one it leaves out,  *)
(* none of them among those that were served since; all but the tracked    *)
(* and the failing ones are, from now on.                                  *)
LEMMA RoundSent ==
    ASSUME RoundsInv, StartRound
    PROVE  RoundsInv'
<1> DEFINE Taken == ThisRound \cap Others
<1>1. /\ IsFiniteSet(ThisRound) /\ ThisRound \subseteq Due
      /\ Cardinality(ThisRound) \in Nat /\ Cardinality(ThisRound) <= RoundLimit
      /\ Due \ ThisRound # {} => Cardinality(ThisRound) >= RoundLimit
      /\ \A p \in Due \ ThisRound, q \in ThisRound : Ahead(q, p)
      /\ Places \in Nat /\ (Due \ ThisRound # {} => Places = Cardinality(Taken))
      /\ (Due \ ThisRound) \cap TrackedPairs # {} => Places = 0
  BY RoundTakes, PlacesFilled
<1>2. /\ roundList = <<>>
      /\ UNCHANGED <<pairStatus, untilSearch, searchOrder>>
      /\ \A p \in Pairs : leftOut'[p] = IF p \in Due \ ThisRound THEN leftOut[p] + Places ELSE 0
      /\ leftOut' \in [Pairs -> Nat]
  BY <1>1 DEF StartRound, RoundsInv, RowsTyped
<1>3. /\ roundList' \in Seq(Pairs) /\ Len(roundList') <= RoundLimit
      /\ ToSet(roundList') = ThisRound
  <2>1. PICK n \in Nat : n = Cardinality(ThisRound)
    BY <1>1
  <2>2. roundList' \in [1..n -> ThisRound] /\ ToSet(roundList') = ThisRound
    BY <2>1 DEF StartRound, InTurn
  <2>3. ThisRound \subseteq Pairs
    BY <1>1 DEF Due
  <2>4. roundList' \in Seq(Pairs) /\ Len(roundList') = n
    BY <2>2, <2>3
  <2> QED
    BY <1>1, <2>1, <2>2, <2>4
<1>4. Due' = Due
  BY <1>2 DEF Due
<1>5. RoundsTypeOK' /\ RowsTyped'
  <2>1. ToSet(roundList') \subseteq Pairs
    BY <1>1, <1>3 DEF Due
  <2> QED
    BY <1>2, <1>3, <2>1 DEF RoundsInv, RoundsTypeOK, RowsTyped
<1>6. LeftOutIsDue'
  <2> SUFFICES ASSUME NEW p \in Pairs, leftOut'[p] # 0
               PROVE  p \in Due' \ TrackedPairs
    BY DEF LeftOutIsDue
  <2>1. p \in Due \ ThisRound /\ leftOut'[p] = leftOut[p] + Places
    BY <1>2
  <2>2. ASSUME p \in TrackedPairs PROVE FALSE
    BY <1>1, <2>1, <2>2 DEF RoundsInv, LeftOutIsDue
  <2> QED
    BY <1>4, <2>1, <2>2
<1>7. ASSUME NEW p \in Due \ ThisRound
      PROVE  leftOut[p] + Places <= Cardinality(Served(p)')
  <2>1. p \in Pairs /\ Orders(searchOrder, Pairs)
    BY DEF Due, RoundsInv, RoundsTypeOK
  <2>2. Cardinality(Taken) = Places /\ IsFiniteSet(Taken) /\ Cardinality(Taken) \in Nat
    BY <1>1, FS_Subset, FS_CardinalityType
  <2>3. Taken \cap Served(p) = {}
    <3> SUFFICES ASSUME NEW q \in Taken, q \in Served(p) PROVE FALSE
      OBVIOUS
    <3>1. Ahead(q, p) /\ q \notin TrackedPairs /\ q \in Pairs
      BY <1>1 DEF Others, AlwaysThere
    <3>2. <<q, p>> \in searchOrder
      BY <3>1 DEF Ahead
    <3>3. <<p, q>> \in searchOrder
      <4>1. ToSet(<<>>) = {}
        BY DEF ToSet
      <4> QED
        BY <1>2, <4>1 DEF Served
    <3> QED
      BY <2>1, <3>1, <3>2, <3>3 DEF Orders
  <2>4. Served(p) \cup Taken \subseteq Served(p)'
    <3>1. Served(p) \subseteq Served(p)'
      <4>1. ToSet(<<>>) = {}
        BY DEF ToSet
      <4> QED
        BY <1>2, <4>1 DEF Served, Others, AlwaysThere
    <3>2. Taken \subseteq Served(p)'
      BY <1>3 DEF Served, Others, AlwaysThere
    <3> QED
      BY <3>1, <3>2
  <2>5. IsFiniteSet(Served(p)') /\ Cardinality(Served(p)') \in Nat
    <3>1. Served(p)' \subseteq Pairs
      BY DEF Served, Others
    <3> QED
      BY <3>1, RoundsAssumption, FS_Subset, FS_CardinalityType
  <2>6. Cardinality(Served(p) \cup Taken) <= Cardinality(Served(p)')
    BY <2>4, <2>5, FS_Subset
  <2>7. Cardinality(Served(p) \cup Taken) = Cardinality(Served(p)) + Cardinality(Taken)
    <3>1. Cardinality(Served(p) \cap Taken) = 0
      BY <2>3, FS_EmptySet
    <3>2. Cardinality(Served(p) \cup Taken)
            = Cardinality(Served(p)) + Cardinality(Taken) - Cardinality(Served(p) \cap Taken)
      BY <2>1, <2>2, ServedFinite, FS_Union
    <3> HIDE DEF Taken
    <3> QED
      BY <2>1, <2>2, <3>1, <3>2, ServedFinite
  <2>8. leftOut[p] <= Cardinality(Served(p)) /\ leftOut[p] \in Nat
    BY <2>1 DEF RoundsInv, OthersServed, RowsTyped
  <2> HIDE DEF Taken
  <2> QED
    BY <2>1, <2>2, <2>5, <2>6, <2>7, <2>8, ServedFinite
<1>8. OthersServed'
  <2> SUFFICES ASSUME NEW p \in Pairs
               PROVE  leftOut'[p] <= Cardinality(Served(p)')
    BY DEF OthersServed
  <2>1. Cardinality(Served(p)') \in Nat
    <3>1. Served(p)' \subseteq Pairs
      BY DEF Served, Others
    <3> QED
      BY <3>1, RoundsAssumption, FS_Subset, FS_CardinalityType
  <2> QED
    BY <1>2, <1>7, <2>1
<1> QED
  BY <1>5, <1>6, <1>8 DEF RoundsInv

(* What a step leaves of the pairs that are left out.                      *)
LEMMA LeftOutKept ==
    ASSUME RoundsInv, StillLeftOut
    PROVE  /\ leftOut' \in [Pairs -> Nat]
           /\ \A p \in Pairs : leftOut'[p] = 0 \/ (leftOut'[p] = leftOut[p] /\ p \in Due')
BY DEF RoundsInv, RowsTyped, StillLeftOut

(* A row is dated: its pair goes last, and is not due.                     *)
LEMMA DatedKeeps ==
    ASSUME RoundsInv, StillLeftOut, NEW p \in Pairs, NEW s \in RowStatuses,
           NEW d \in Nat \cup {NotPlanned}, d = 0 => s \in Settled, Written(p, s, d),
           searchOrder' = LastInOrder(p),
           roundList' \in Seq(Pairs), Len(roundList') <= RoundLimit,
           ToSet(roundList) \subseteq ToSet(roundList') \cup {p},
           ToSet(roundList') \subseteq Pairs
    PROVE  RoundsInv'
<1>1. /\ pairStatus' \in [Pairs -> RowStatuses] /\ pairStatus'[p] = s
      /\ untilSearch' \in [Pairs -> Nat \cup {NotPlanned}] /\ untilSearch'[p] = d
  BY DEF Written, RoundsInv, RowsTyped
<1>2. p \notin Due'
  BY <1>1 DEF Due
<1>3. Orders(searchOrder', Pairs) /\ \A q, r \in Pairs :
          q # p => (<<q, r>> \in searchOrder' <=> <<q, r>> \in searchOrder \/ r = p)
  BY LastOrders DEF RoundsInv, RoundsTypeOK
<1>4. RoundsTypeOK' /\ RowsTyped'
  BY <1>1, <1>3, LeftOutKept DEF RoundsTypeOK, RowsTyped
<1>5. \A q \in Pairs : leftOut'[q] = 0 \/
          (leftOut'[q] = leftOut[q] /\ q \in Due' /\ Served(q) \subseteq Served(q)')
  <2> SUFFICES ASSUME NEW q \in Pairs, leftOut'[q] # 0
               PROVE  leftOut'[q] = leftOut[q] /\ q \in Due' /\ Served(q) \subseteq Served(q)'
    OBVIOUS
  <2>1. leftOut'[q] = leftOut[q] /\ q \in Due' /\ q # p
    BY <1>2, LeftOutKept
  <2>2. ASSUME NEW r \in Served(q) PROVE r \in Served(q)'
    <3>1. r \in Pairs /\ r \in Others \ {q}
      BY DEF Served, Others
    <3>2. <<q, r>> \in searchOrder' \/ r \in ToSet(roundList')
      BY <1>3, <2>1, <3>1 DEF Served
    <3> QED
      BY <3>1, <3>2 DEF Served, Others, AlwaysThere
  <2> QED
    BY <2>1, <2>2
<1> QED
  BY <1>4, <1>5, NobodyLess

(* A row is written or not, but not dated.                                 *)
LEMMA UndatedKeeps ==
    ASSUME RoundsInv, StillLeftOut,
           pairStatus' \in [Pairs -> RowStatuses],
           untilSearch' \in [Pairs -> Nat \cup {NotPlanned}],
           searchOrder' = searchOrder,
           roundList' \in Seq(Pairs), Len(roundList') <= RoundLimit,
           ToSet(roundList) \cap Others \subseteq ToSet(roundList'),
           ToSet(roundList') \subseteq Pairs
    PROVE  RoundsInv'
<1>1. RoundsTypeOK' /\ RowsTyped'
  BY LeftOutKept DEF RoundsInv, RoundsTypeOK, RowsTyped
<1>2. \A q \in Pairs : Served(q) \subseteq Served(q)'
  BY DEF Served, Others, AlwaysThere
<1> QED
  BY <1>1, <1>2, LeftOutKept, NobodyLess

LEMMA ListParted ==
    ASSUME RoundsInv, roundList # <<>>
    PROVE  /\ Head(roundList) \in Pairs
           /\ Tail(roundList) \in Seq(Pairs) /\ Len(Tail(roundList)) <= RoundLimit
           /\ ToSet(Tail(roundList)) \subseteq Pairs
           /\ ToSet(roundList) \subseteq ToSet(Tail(roundList)) \cup {Head(roundList)}
<1>1. roundList \in Seq(Pairs) /\ Len(roundList) <= RoundLimit /\ RoundLimit \in Nat
  BY RoundsAssumption DEF RoundsInv, RoundsTypeOK, RowsTyped
<1>2. /\ Head(roundList) = roundList[1] /\ Head(roundList) \in Pairs
      /\ Tail(roundList) \in Seq(Pairs) /\ Len(roundList) \in Nat \ {0}
      /\ Len(Tail(roundList)) = Len(roundList) - 1
  BY <1>1, HeadTailProperties
<1>3. \A i \in 1..Len(roundList) : i # 1 => Tail(roundList)[i - 1] = roundList[i]
  BY <1>1, <1>2
<1>4. DOMAIN roundList = 1..Len(roundList)
      /\ DOMAIN Tail(roundList) = 1..Len(Tail(roundList))
  BY <1>1, <1>2
<1>5. ToSet(Tail(roundList)) \subseteq Pairs
  BY <1>2, <1>4 DEF ToSet
<1>6. ASSUME NEW x \in ToSet(roundList)
      PROVE  x \in ToSet(Tail(roundList)) \cup {Head(roundList)}
  <2>1. PICK i \in 1..Len(roundList) : x = roundList[i]
    BY <1>4 DEF ToSet
  <2>2. CASE i = 1
    BY <1>2, <2>1, <2>2
  <2>3. CASE i # 1
    <3>1. i - 1 \in DOMAIN Tail(roundList) /\ Tail(roundList)[i - 1] = x
      BY <1>2, <1>3, <1>4, <2>1, <2>3
    <3> QED
      BY <3>1 DEF ToSet
  <2> QED
    BY <2>2, <2>3
<1> QED
  BY <1>1, <1>2, <1>5, <1>6

LEMMA PairSearched ==
    ASSUME RoundsInv, SearchPair
    PROVE  RoundsInv'
<1>1. /\ Head(roundList) \in Pairs
      /\ Tail(roundList) \in Seq(Pairs) /\ Len(Tail(roundList)) <= RoundLimit
      /\ ToSet(Tail(roundList)) \subseteq Pairs
      /\ ToSet(roundList) \subseteq ToSet(Tail(roundList)) \cup {Head(roundList)}
  BY ListParted DEF SearchPair
<1>2. roundList' = Tail(roundList) /\ StillLeftOut
  BY DEF SearchPair
<1>3. CASE Head(roundList) \in BrokenPairs
  <2>1. UNCHANGED <<pairStatus, untilSearch, searchOrder>>
    BY <1>3 DEF SearchPair
  <2>2. ToSet(roundList) \cap Others \subseteq ToSet(roundList')
    BY <1>1, <1>2, <1>3 DEF Others, AlwaysThere
  <2>3. pairStatus' \in [Pairs -> RowStatuses] /\ untilSearch' \in [Pairs -> Nat \cup {NotPlanned}]
    BY <2>1 DEF RoundsInv, RowsTyped
  <2> QED
    BY <1>1, <1>2, <2>1, <2>2, <2>3, UndatedKeeps
<1>4. CASE Head(roundList) \notin BrokenPairs
  <2>1. PICK s \in Outcomes : /\ Written(Head(roundList), s, InDays[nextSearchFor(s)])
                              /\ searchOrder' = LastInOrder(Head(roundList))
    BY <1>4 DEF SearchPair, PairEvaluated
  <2>2. s \in RowStatuses /\ InDays[nextSearchFor(s)] \in Nat \ {0}
    BY NextSearchLater DEF RowStatuses
  <2>3. PICK d \in Nat \ {0} : d = InDays[nextSearchFor(s)]
    BY <2>2
  <2>4. PICK h \in Pairs : h = Head(roundList)
    BY <1>1
  <2>5. Written(h, s, d) /\ searchOrder' = LastInOrder(h)
    BY <2>1, <2>3, <2>4
  <2> QED
    BY <1>1, <1>2, <2>2, <2>4, <2>5, DatedKeeps
<1> QED
  BY <1>3, <1>4

LEMMA DayKeeps ==
    ASSUME RoundsInv, DayPasses
    PROVE  RoundsInv'
<1>1. untilSearch' \in [Pairs -> Nat \cup {NotPlanned}]
  <2>1. \A p \in Pairs : untilSearch[p] \in Nat \cup {NotPlanned}
    BY DEF RoundsInv, RowsTyped
  <2>2. \A p \in Pairs : untilSearch[p] \notin {0, NotPlanned} => untilSearch[p] - 1 \in Nat
    BY <2>1
  <2> QED
    BY <2>1, <2>2 DEF DayPasses
<1>2. StillLeftOut /\ UNCHANGED <<pairStatus, searchOrder, roundList>>
  BY DEF DayPasses
<1> QED
  BY <1>1, <1>2, UndatedKeeps DEF RoundsInv, RoundsTypeOK, RowsTyped

(* The rows outside the rounds. *)
LEMMA ChangedOfPair ==
    ASSUME RoundsInv, StillLeftOut, NEW p \in Pairs, ChangeOfPair(p)
    PROVE  RoundsInv'
<1>1. /\ roundList' = roundList /\ roundList \in Seq(Pairs) /\ Len(roundList) <= RoundLimit
      /\ ToSet(roundList) \subseteq Pairs
  BY DEF ChangeOfPair, SearchElsewhere, ApprovePair, RejectPair, NotFoundByHand, ListingGone,
         PromotedThere, Changes, RoundsInv, RoundsTypeOK, RowsTyped
<1>2. CASE SearchElsewhere(p)
  <2>1. PICK s \in Outcomes : /\ Written(p, s, InDays[nextSearchFor(s)])
                              /\ searchOrder' = LastInOrder(p)
    BY <1>2 DEF SearchElsewhere, PairEvaluated
  <2>2. PICK d \in Nat \ {0} : d = InDays[nextSearchFor(s)]
    BY NextSearchLater
  <2>3. s \in RowStatuses /\ Written(p, s, d)
    BY <2>1, <2>2 DEF RowStatuses
  <2> QED
    BY <1>1, <2>1, <2>2, <2>3, DatedKeeps
<1>3. CASE RejectPair(p)
  <2>1. PICK d \in Nat \ {0} : d = InDays[30]
    BY NextSearchLater
  <2>2. "rejected" \in RowStatuses /\ Written(p, "rejected", d) /\ searchOrder' = LastInOrder(p)
    BY <1>3, <2>1 DEF RejectPair, RowStatuses
  <2> QED
    BY <1>1, <2>1, <2>2, DatedKeeps
<1>4. CASE PromotedThere(p)
  <2>1. /\ "auto_verified" \in RowStatuses /\ "auto_verified" \in Settled
        /\ Written(p, "auto_verified", NotPlanned) /\ searchOrder' = LastInOrder(p)
    BY <1>4 DEF PromotedThere, RowStatuses, Settled
  <2> QED
    BY <1>1, <2>1, DatedKeeps
<1>5. CASE ApprovePair(p) \/ NotFoundByHand(p) \/ ListingGone(p)
  <2>1. searchOrder' = searchOrder
    BY <1>5 DEF ApprovePair, NotFoundByHand, ListingGone
  <2>2. pairStatus' \in [Pairs -> RowStatuses]
    BY <1>5 DEF ApprovePair, NotFoundByHand, ListingGone, Written, RowStatuses,
                RoundsInv, RowsTyped
  <2>3. untilSearch' \in [Pairs -> Nat \cup {NotPlanned}]
    BY <1>5, NextSearchLater DEF ApprovePair, NotFoundByHand, ListingGone, Written,
                RoundsInv, RowsTyped
  <2> QED
    BY <1>1, <2>1, <2>2, <2>3, UndatedKeeps
<1> QED
  BY <1>2, <1>3, <1>4, <1>5 DEF ChangeOfPair

LEMMA ChangedOfVariant ==
    ASSUME RoundsInv, StillLeftOut, NEW v, BringForward \/ EditVariant(v) \/ SearchNow(v)
    PROVE  RoundsInv'
<1>1. /\ roundList' = roundList /\ roundList \in Seq(Pairs) /\ Len(roundList) <= RoundLimit
      /\ ToSet(roundList) \subseteq Pairs /\ searchOrder' = searchOrder
  BY DEF BringForward, EditVariant, SearchNow, Changes, RoundsInv, RoundsTypeOK, RowsTyped
<1>2. pairStatus' \in [Pairs -> RowStatuses]
  BY DEF BringForward, EditVariant, SearchNow, RowStatuses, RoundsInv, RowsTyped
<1>3. untilSearch' \in [Pairs -> Nat \cup {NotPlanned}]
  BY DEF BringForward, EditVariant, SearchNow, RoundsInv, RowsTyped
<1> QED
  BY <1>1, <1>2, <1>3, UndatedKeeps

LEMMA RoundsInductive ==
    ASSUME RoundsInv, [RoundsNext]_pairVars
    PROVE  RoundsInv'
<1>1. CASE StartRound
  BY <1>1, RoundSent
<1>2. CASE SearchPair
  BY <1>2, PairSearched
<1>3. CASE DayPasses
  BY <1>3, DayKeeps
<1>4. CASE BringForward /\ StillLeftOut
  BY <1>4, ChangedOfVariant
<1>5. ASSUME NEW p \in Pairs, ChangeOfPair(p), StillLeftOut
      PROVE  RoundsInv'
  BY <1>5, ChangedOfPair
<1>6. ASSUME NEW v, EditVariant(v) \/ SearchNow(v), StillLeftOut
      PROVE  RoundsInv'
  BY <1>6, ChangedOfVariant
<1>7. CASE UNCHANGED pairVars
  BY <1>7 DEF pairVars, RoundsInv, RoundsTypeOK, RowsTyped, LeftOutIsDue, OthersServed,
              Due, Served, Others, AlwaysThere
<1> QED
  BY <1>1, <1>2, <1>3, <1>4, <1>5, <1>6, <1>7 DEF RoundsNext

LEMMA RoundsForgetNone ==
    ASSUME RoundsInv
    PROVE  NoPairForgotten
<1> SUFFICES ASSUME NEW p \in Pairs
             PROVE  /\ leftOut[p] <= Cardinality(Pairs \ (AlwaysThere \cup {p}))
                    /\ p \in TrackedPairs => leftOut[p] = 0
  BY DEF NoPairForgotten
<1> DEFINE Rest == Pairs \ (AlwaysThere \cup {p})
<1>1. Served(p) \subseteq Rest
  BY ServedFinite DEF Others
<1>2. IsFiniteSet(Rest) /\ Cardinality(Rest) \in Nat
  BY RoundsAssumption, FS_Subset, FS_CardinalityType
<1>3. Cardinality(Served(p)) <= Cardinality(Rest)
  BY <1>1, <1>2, FS_Subset
<1>4. leftOut[p] <= Cardinality(Served(p)) /\ leftOut[p] \in Nat
  BY DEF RoundsInv, OthersServed, RowsTyped
<1>5. p \in TrackedPairs => leftOut[p] = 0
  BY DEF RoundsInv, LeftOutIsDue
<1> HIDE DEF Rest
<1>6. leftOut[p] <= Cardinality(Rest)
  BY <1>2, <1>3, <1>4, ServedFinite
<1> QED
  BY <1>5, <1>6 DEF Rest

(* Whatever the tracked and the failing pairs leave of a round that leaves *)
(* a due pair out goes to others, and to none of them twice.               *)
THEOREM NoPairEverForgotten == RoundsSpec => []NoPairForgotten
<1>1. RoundsInit => RoundsInv
  BY InitRoundsInv
<1>2. RoundsInv /\ [RoundsNext]_pairVars => RoundsInv'
  BY RoundsInductive
<1>3. RoundsInv => NoPairForgotten
  BY RoundsForgetNone
<1> QED
  BY <1>1, <1>2, <1>3, PTL DEF RoundsSpec

-----------------------------------------------------------------------------
(* ClusterSweep.  Two promotions never make two variants that both stand   *)
(* under the identity they were asked for.  OneVariantPerIdentity is       *)
(* inductive with what the lock is of: of the identity the promotion has   *)
(* read, whatever the listing has become since (Holding), and as long as   *)
(* it is held nobody else makes a variant that keeps it (Absent); one that *)
(* is asked for under another lock may still be filed under it.            *)

Making == {"create", "family", "insert"}

Inside == {"locked", "link", "label"} \cup Making

Holding == \A l \in Unplaced :
    /\ at[l] \in Inside \cup {"waitlock"} => seen[l] \in Identities
    /\ at[l] \in Inside => lock[seen[l]] = l
    /\ at[l] \in {"family", "insert"} => draft[l] \in Families
    /\ at[l] = "link" => draft[l] \in Variants

Absent == \A l \in Unplaced : at[l] \in Making =>
    \A v \in Variants : Kept(v) => variantOf[v].stored # seen[l]

SweepInv == SweepTypeOK /\ Holding /\ Absent /\ OneVariantPerIdentity

-----------------------------------------------------------------------------
LEMMA InitSweepInv ==
    ASSUME SweepInit
    PROVE  SweepInv
<1>1. SweepTypeOK
    BY SweepAssumption DEF SweepInit, SweepTypeOK, Unplaced, Identities
<1> QED
    BY <1>1 DEF SweepInit, SweepInv, Holding, Absent, OneVariantPerIdentity, Kept, Inside,
                Making

(* What a promotion has that is at this point.                             *)
Standing(l) ==
    /\ at[l] \in Inside \cup {"waitlock"} => seen[l] \in Identities
    /\ at[l] \in Inside => lock[seen[l]] = l
    /\ at[l] \in {"family", "insert"} => draft[l] \in Families
    /\ at[l] = "link" => draft[l] \in Variants
    /\ at[l] \in Making => \A v \in Variants : Kept(v) => variantOf[v].stored # seen[l]

(* What a promotion inside its lock needs of the steps of the others.      *)
LEMMA Undisturbed ==
    ASSUME SweepInv, SweepTypeOK', variantOf' = variantOf,
           \A l \in Unplaced : Standing(l)'
    PROVE  SweepInv'
<1>1. Holding' /\ Absent'
    BY DEF Holding, Absent, Standing
<1>2. OneVariantPerIdentity'
    BY DEF SweepInv, OneVariantPerIdentity, Kept
<1> QED
    BY <1>1, <1>2 DEF SweepInv

LEMMA AllStand ==
    ASSUME SweepInv, NEW l \in Unplaced
    PROVE  Standing(l)
BY DEF SweepInv, Holding, Absent, Standing

(* Who does not move keeps its place as long as its lock and the variants  *)
(* stay.                                                                   *)
LEMMA StandsStill ==
    ASSUME NEW l \in Unplaced, Standing(l), at'[l] = at[l], seen'[l] = seen[l],
           draft'[l] = draft[l], variantOf' = variantOf,
           at[l] \in Inside => lock'[seen[l]] = l
    PROVE  Standing(l)'
BY DEF Standing, Kept

(* The steps of a job that does not touch locks, variants or what it read. *)
LEMMA OutsideKeeps ==
    ASSUME SweepInv, NEW l \in Unplaced,
           \/ Begin(l) \/ FindNoVariant(l) \/ FindWeak(l) \/ FindVariant(l)
           \/ GiveUpLock(l) \/ LinkListing(l)
    PROVE  SweepInv'
<1> USE SweepAssumption
<1>1. UNCHANGED <<variantOf, seen, draft, lock>>
    BY DEF Begin, FindNoVariant, FindWeak, FindVariant, Evaluated, GiveUpLock, LinkListing
<1>2. SweepTypeOK'
  <2>1. CASE Begin(l)
      BY <2>1 DEF Begin, SweepInv, SweepTypeOK
  <2>2. CASE FindNoVariant(l)
      BY <2>2 DEF FindNoVariant, Evaluated, SweepInv, SweepTypeOK
  <2>3. CASE FindWeak(l)
      BY <2>3 DEF FindWeak, Evaluated, SweepInv, SweepTypeOK
  <2>4. CASE FindVariant(l)
      BY <2>4 DEF FindVariant, Evaluated, SweepInv, SweepTypeOK
  <2>5. CASE GiveUpLock(l)
      BY <2>5 DEF GiveUpLock, SweepInv, SweepTypeOK
  <2>6. CASE LinkListing(l)
    <3>1. draft[l] \in Variants
        BY <2>6 DEF LinkListing, SweepInv, Holding
    <3> QED
        BY <2>6, <3>1 DEF LinkListing, SweepInv, SweepTypeOK
  <2> QED
      BY <2>1, <2>2, <2>3, <2>4, <2>5, <2>6
<1>3. /\ \A k \in Unplaced : k # l => at'[k] = at[k]
      /\ \/ at'[l] \in {"first", "promote", "park"}
         \/ at[l] = "link" /\ at'[l] = "label"
    BY DEF Begin, FindNoVariant, FindWeak, FindVariant, Evaluated, GiveUpLock, LinkListing,
           SweepInv, SweepTypeOK
<1>4. ASSUME NEW k \in Unplaced PROVE Standing(k)'
  <2>1. Standing(k)
      BY AllStand
  <2>2. CASE k # l
      BY <1>1, <1>3, <2>1, <2>2, StandsStill DEF Standing
  <2>3. CASE k = l
      BY <1>1, <1>3, <2>1, <2>3 DEF Standing, Inside, Making
  <2> QED
      BY <2>2, <2>3
<1> QED
    BY <1>1, <1>2, <1>4, Undisturbed

LEMMA ReadKeeps ==
    ASSUME SweepInv, NEW l \in Unplaced, ReadListing(l)
    PROVE  SweepInv'
<1>1. SweepTypeOK'
    BY DEF ReadListing, SweepInv, SweepTypeOK
<1>2. \A k \in Unplaced : k # l => at'[k] = at[k] /\ seen'[k] = seen[k]
    BY DEF ReadListing, SweepInv, SweepTypeOK
<1>3. /\ at'[l] = "waitlock" /\ seen'[l] = identity[l] /\ identity[l] \in Identities
      /\ lock' = lock /\ variantOf' = variantOf /\ draft' = draft
    BY DEF ReadListing, SweepInv, SweepTypeOK
<1>4. ASSUME NEW k \in Unplaced PROVE Standing(k)'
  <2>1. CASE k # l
      BY <1>2, <1>3, <2>1, AllStand, StandsStill DEF Standing
  <2>2. CASE k = l
      BY <1>3, <2>2 DEF Standing, Inside, Making
  <2> QED
      BY <2>1, <2>2
<1> QED
    BY <1>1, <1>3, <1>4, Undisturbed

LEMMA TakeKeeps ==
    ASSUME SweepInv, NEW l \in Unplaced, TakeLock(l)
    PROVE  SweepInv'
<1> USE SweepAssumption
<1>1. seen[l] \in Identities
    BY DEF TakeLock, SweepInv, Holding
<1>2. SweepTypeOK'
    BY <1>1 DEF TakeLock, SweepInv, SweepTypeOK
<1>3. /\ \A k \in Unplaced : k # l => at'[k] = at[k]
      /\ at'[l] = "locked" /\ seen' = seen /\ variantOf' = variantOf /\ draft' = draft
      /\ \A i \in Identities : lock'[i] = IF i = seen[l] THEN l ELSE lock[i]
    BY <1>1 DEF TakeLock, SweepInv, SweepTypeOK
<1>4. \A k \in Unplaced : at[k] \in Inside => seen[k] # seen[l]
    BY DEF TakeLock, SweepInv, Holding, Unplaced
<1>5. ASSUME NEW k \in Unplaced PROVE Standing(k)'
  <2>1. CASE k # l
    <3>1. Standing(k)
        BY AllStand
    <3>2. at[k] \in Inside => lock'[seen[k]] = k
        BY <1>3, <1>4, <3>1 DEF Standing
    <3> QED
        BY <1>3, <2>1, <3>1, <3>2, StandsStill
  <2>2. CASE k = l
      BY <1>1, <1>3, <2>2 DEF Standing, Inside, Making
  <2> QED
      BY <2>1, <2>2
<1> QED
    BY <1>2, <1>3, <1>5, Undisturbed

(* Nobody else is inside the lock that l holds.                            *)
LEMMA Alone ==
    ASSUME SweepInv, NEW l \in Unplaced, at[l] \in Inside,
           NEW k \in Unplaced, at[k] \in Inside, seen[k] = seen[l]
    PROVE  k = l
BY DEF SweepInv, Holding

LEMMA LookKeeps ==
    ASSUME SweepInv, NEW l \in Unplaced, LookForVariant(l)
    PROVE  SweepInv'
<1> USE SweepAssumption
<1>1. seen[l] \in Identities /\ at[l] = "locked" /\ at[l] \in Inside
    BY DEF LookForVariant, SweepInv, Holding, Inside
<1>2. SweepTypeOK'
    BY <1>1 DEF LookForVariant, SweepInv, SweepTypeOK
<1>3. /\ \A k \in Unplaced : k # l => at'[k] = at[k]
      /\ seen' = seen /\ variantOf' = variantOf /\ draft' = draft
      /\ \A i \in Identities : i # seen[l] => lock'[i] = lock[i]
      /\ \/ at'[l] = "create" /\ lock' = lock /\ Existing(seen[l]) = {}
         \/ at'[l] \in {"park", "second"}
    BY <1>1 DEF LookForVariant, SweepInv, SweepTypeOK
<1>4. ASSUME NEW k \in Unplaced PROVE Standing(k)'
  <2>1. Standing(k)
      BY AllStand
  <2>2. CASE k # l
    <3>1. at[k] \in Inside => seen[k] # seen[l] /\ seen[k] \in Identities
        BY <1>1, <2>1, <2>2, Alone DEF Standing
    <3> QED
        BY <1>3, <2>1, <2>2, <3>1, StandsStill DEF Standing
  <2>3. CASE k = l
    <3>1. Existing(seen[l]) = {} =>
              \A v \in Variants : Kept(v) => variantOf[v].stored # seen[l]
        BY DEF Existing, Kept
    <3> QED
        BY <1>1, <1>3, <2>1, <2>3, <3>1 DEF Standing, Inside, Making, Kept
  <2> QED
      BY <2>2, <2>3
<1> QED
    BY <1>2, <1>3, <1>4, Undisturbed

LEMMA FamilyKeeps ==
    ASSUME SweepInv, NEW l \in Unplaced, FindFamily(l) \/ InsertFamily(l)
    PROVE  SweepInv'
<1> USE SweepAssumption
<1>1. /\ seen[l] \in Identities /\ at[l] \in Making /\ at[l] \in Inside
      /\ at[l] = "family" => draft[l] \in Families
    BY DEF FindFamily, InsertFamily, SweepInv, Holding, Inside, Making
<1>2. /\ UNCHANGED <<variantOf, seen, lock>>
      /\ \A k \in Unplaced : k # l => at'[k] = at[k] /\ draft'[k] = draft[k]
      /\ at'[l] \in {"family", "insert"}
    BY DEF FindFamily, InsertFamily, SweepInv, SweepTypeOK
<1>3. draft'[l] \in Families /\ draft' = [draft EXCEPT ![l] = draft'[l]]
  <2>1. CASE FindFamily(l)
    <3>1. PICK title \in TitlesOf[seen[l].bottle] :
              \/ \E f \in familyRows : draft' = [draft EXCEPT ![l] = f]
              \/ draft' = [draft EXCEPT ![l] = [title |-> title, brand |-> seen[l].brand]]
        BY <2>1 DEF FindFamily
    <3>2. [title |-> title, brand |-> seen[l].brand] \in Families
        BY <1>1, <3>1 DEF Families, Identities
    <3> QED
        BY <3>1, <3>2 DEF SweepInv, SweepTypeOK
  <2>2. CASE InsertFamily(l)
      BY <1>1, <2>2 DEF InsertFamily, SweepInv, SweepTypeOK
  <2> QED
      BY <2>1, <2>2
<1>4. SweepTypeOK'
  <2>1. CASE FindFamily(l)
      BY <1>3, <2>1 DEF FindFamily, SweepInv, SweepTypeOK
  <2>2. CASE InsertFamily(l)
      BY <1>1, <2>2 DEF InsertFamily, SweepInv, SweepTypeOK
  <2> QED
      BY <2>1, <2>2
<1>5. ASSUME NEW k \in Unplaced PROVE Standing(k)'
  <2>1. Standing(k)
      BY AllStand
  <2>2. CASE k # l
      BY <1>2, <2>1, <2>2, StandsStill DEF Standing
  <2>3. CASE k = l
      BY <1>1, <1>2, <1>3, <2>1, <2>3 DEF Standing, Inside, Making, Kept
  <2> QED
      BY <2>2, <2>3
<1> QED
    BY <1>2, <1>4, <1>5, Undisturbed

LEMMA CreateKeeps ==
    ASSUME SweepInv, NEW l \in Unplaced, CreateVariant(l)
    PROVE  SweepInv'
<1> USE SweepAssumption
<1> DEFINE v == CHOOSE w \in Variants : variantOf[w] = Nothing
           row == [stored |-> [bottle |-> seen[l].bottle, brand |-> draft[l].brand],
                   asked |-> seen[l]]
<1>1. /\ seen[l] \in Identities /\ at[l] = "insert" /\ at[l] \in Inside
      /\ draft[l] \in Families
      /\ \A w \in Variants : Kept(w) => variantOf[w].stored # seen[l]
    BY AllStand DEF CreateVariant, Standing, Inside, Making
<1>2. v \in Variants /\ variantOf' = [variantOf EXCEPT ![v] = row]
      /\ draft' = [draft EXCEPT ![l] = v]
    BY DEF CreateVariant
<1>3. row \in [stored : Identities, asked : Identities]
      /\ row.asked = seen[l]
    BY <1>1 DEF Identities, Families
<1> HIDE DEF v, row
<1>4. SweepTypeOK'
  <2>1. variantOf' \in [Variants -> [stored : Identities, asked : Identities]
                                        \cup {Nothing}]
      BY <1>2, <1>3 DEF SweepInv, SweepTypeOK
  <2>2. draft' \in [Unplaced -> Families \cup Variants \cup {Nothing}]
      BY <1>2 DEF SweepInv, SweepTypeOK
  <2>3. at' \in [Unplaced -> {"idle", "first", "second", "promote", "waitlock", "locked",
                            "create", "family", "insert", "link", "label", "park"}]
      BY DEF CreateVariant, SweepInv, SweepTypeOK
  <2>4. UNCHANGED <<identity, cluster, parked, familyRows, link, jobState, seen, lock,
                    upsets>>
      BY DEF CreateVariant
  <2> QED
      BY <2>1, <2>2, <2>3, <2>4 DEF SweepInv, SweepTypeOK
<1>5. /\ \A k \in Unplaced : k # l => at'[k] = at[k] /\ draft'[k] = draft[k]
      /\ at'[l] = "link" /\ draft'[l] \in Variants /\ seen' = seen /\ lock' = lock
      /\ \A w \in Variants : variantOf'[w] = IF w = v THEN row ELSE variantOf[w]
    BY <1>2 DEF CreateVariant, SweepInv, SweepTypeOK
<1>6. \A w \in Variants : Kept(w)' => IF w = v THEN row.stored = seen[l]
                                             ELSE Kept(w) /\ variantOf'[w] = variantOf[w]
    BY <1>3, <1>5 DEF Kept
<1>7. ASSUME NEW k \in Unplaced PROVE Standing(k)'
  <2>1. Standing(k)
      BY AllStand
  <2>2. CASE k # l
    <3>1. at[k] \in Making => seen[k] # seen[l]
        BY <1>1, <2>2, Alone DEF Inside
    <3>2. at[k] \in Making => \A w \in Variants : Kept(w)' => variantOf'[w].stored # seen[k]
        BY <1>5, <1>6, <2>1, <3>1 DEF Standing
    <3> QED
        BY <1>5, <2>1, <2>2, <3>2 DEF Standing
  <2>3. CASE k = l
      BY <1>5, <2>1, <2>3, <1>1 DEF Standing, Inside, Making
  <2> QED
      BY <2>2, <2>3
<1>8. Holding' /\ Absent'
    BY <1>7 DEF Standing, Holding, Absent
<1>9. OneVariantPerIdentity'
    BY <1>1, <1>5, <1>6 DEF SweepInv, OneVariantPerIdentity
<1> QED
    BY <1>4, <1>8, <1>9 DEF SweepInv

(* A job that ends, well or badly, lets go of its own lock only.           *)
LEMMA EndKeeps ==
    ASSUME SweepInv, NEW l \in Unplaced, LabelListing(l) \/ Park(l) \/ FailJob(l)
    PROVE  SweepInv'
<1> USE SweepAssumption
<1>1. SweepTypeOK'
  <2>1. CASE LabelListing(l)
    <3>1. seen[l] \in Identities
        BY <2>1 DEF LabelListing, SweepInv, Holding, Inside
    <3> QED
        BY <2>1, <3>1 DEF LabelListing, SweepInv, SweepTypeOK
  <2>2. CASE Park(l)
      BY <2>2 DEF Park, SweepInv, SweepTypeOK
  <2>3. CASE FailJob(l)
      BY <2>3 DEF FailJob, SweepInv, SweepTypeOK
  <2> QED
      BY <2>1, <2>2, <2>3
<1>2. /\ \A k \in Unplaced : k # l => /\ at'[k] = at[k] /\ seen'[k] = seen[k]
                                      /\ draft'[k] = draft[k]
      /\ at'[l] \in {"park", "idle"} /\ variantOf' = variantOf
    BY DEF LabelListing, Park, FailJob, SweepInv, SweepTypeOK
<1>3. ASSUME NEW k \in Unplaced, k # l, at[k] \in Inside
      PROVE  lock'[seen[k]] = k
  <2>1. lock[seen[k]] = k /\ seen[k] \in Identities
      BY <1>3 DEF SweepInv, Holding
  <2>2. CASE LabelListing(l)
    <3>1. seen[k] # seen[l]
        BY <1>3, <2>2, Alone DEF LabelListing, Inside
    <3> QED
        BY <2>1, <2>2, <3>1 DEF LabelListing, SweepInv, SweepTypeOK
  <2>3. CASE Park(l)
      BY <2>1, <2>3 DEF Park
  <2>4. CASE FailJob(l)
      BY <1>3, <2>1, <2>4 DEF FailJob
  <2> QED
      BY <2>2, <2>3, <2>4
<1>4. ASSUME NEW k \in Unplaced PROVE Standing(k)'
  <2>1. CASE k # l
      BY <1>2, <1>3, <2>1, AllStand, StandsStill
  <2>2. CASE k = l
      BY <1>2, <2>2 DEF Standing, Inside, Making
  <2> QED
      BY <2>1, <2>2
<1> QED
    BY <1>1, <1>2, <1>4, Undisturbed

LEMMA AroundKeeps ==
    ASSUME SweepInv, NEW l \in Unplaced, Sweep \/ Reidentify(l) \/ RetryDue(l)
    PROVE  SweepInv'
<1>1. UNCHANGED <<variantOf, at, seen, draft, lock>>
    BY DEF Sweep, Reidentify, RetryDue
<1>2. \A S : Queued(S) \in [Unplaced -> {"none", "waiting", "active"}]
    BY DEF Queued, SweepInv, SweepTypeOK
<1>3. SweepTypeOK'
  <2>1. CASE Sweep
      BY <1>2, <2>1 DEF Sweep, SweepInv, SweepTypeOK
  <2>2. CASE Reidentify(l)
      BY <1>2, <2>2, SweepAssumption DEF Reidentify, SweepInv, SweepTypeOK
  <2>3. CASE RetryDue(l)
      BY <2>3, SweepAssumption DEF RetryDue, SweepInv, SweepTypeOK
  <2> QED
      BY <2>1, <2>2, <2>3
<1>4. ASSUME NEW k \in Unplaced PROVE Standing(k)'
    BY <1>1, AllStand, StandsStill DEF Standing
<1> QED
    BY <1>1, <1>3, <1>4, Undisturbed

LEMMA NextSweepInv ==
    ASSUME SweepInv, [SweepNext]_sweepVars
    PROVE  SweepInv'
<1>1. CASE \E l \in Unplaced : JobStep(l) \/ FailJob(l) \/ Reidentify(l) \/ RetryDue(l)
    BY <1>1, OutsideKeeps, ReadKeeps, TakeKeeps, LookKeeps, FamilyKeeps, CreateKeeps,
       EndKeeps, AroundKeeps DEF JobStep
<1>2. CASE Sweep
  <2>1. PICK l \in Unplaced : TRUE
      BY <1>2 DEF Sweep, Backlog
  <2> QED
      BY <1>2, <2>1, AroundKeeps
<1>3. CASE UNCHANGED sweepVars
    BY <1>3 DEF sweepVars, SweepInv, SweepTypeOK, Holding, Absent, Kept,
                OneVariantPerIdentity
<1> QED
    BY <1>1, <1>2, <1>3 DEF SweepNext

(* However many promotions of one wine run at once, and whatever becomes   *)
(* of their listings and their jobs, one variant stands under an identity  *)
(* that it was asked for.                                                  *)
THEOREM OneVariantAlways == SweepSpec => [](SweepTypeOK /\ OneVariantPerIdentity)
<1>1. SweepInv => SweepTypeOK /\ OneVariantPerIdentity
    BY DEF SweepInv
<1> QED
    BY <1>1, InitSweepInv, NextSweepInv, PTL DEF SweepSpec

-----------------------------------------------------------------------------
(* CandidateSearch: what a query gives and how it scores.                  *)
LEMMA LesserOfTwo ==
    ASSUME NEW a \in Nat, NEW b \in Nat
    PROVE  Min({a, b}) = IF a <= b THEN a ELSE b
<1> DEFINE m == IF a <= b THEN a ELSE b
<1>1. m \in {a, b} /\ \A y \in {a, b} : m <= y
  OBVIOUS
<1>2. \A x \in {a, b} : (\A y \in {a, b} : x <= y) => x = m
  OBVIOUS
<1> HIDE DEF m
<1>3. Min({a, b}) = m
  BY <1>1, <1>2 DEF Min
<1> QED BY <1>3 DEF m

LEMMA WhatALimitLeaves ==
    ASSUME NEW hits, IsFiniteSet(hits), NEW limit \in Nat, NEW sorted, NEW score,
           NEW s \in Limited(hits, limit, sorted, score)
    PROVE  /\ s \subseteq hits /\ IsFiniteSet(s) /\ Cardinality(s) <= limit
           /\ Cardinality(hits) <= limit => s = hits
<1>1. Cardinality(hits) \in Nat
  BY FS_CardinalityType
<1>2. Min({limit, Cardinality(hits)})
         = IF limit <= Cardinality(hits) THEN limit ELSE Cardinality(hits)
  BY <1>1, LesserOfTwo
<1>3. s \subseteq hits /\ Cardinality(s) = Min({limit, Cardinality(hits)})
  BY DEF Limited, kSubset
<1>4. IsFiniteSet(s)
  BY <1>3, FS_Subset
<1>5. Cardinality(s) <= limit
  BY <1>1, <1>2, <1>3
<1>6. ASSUME Cardinality(hits) <= limit PROVE s = hits
  <2>1. Cardinality(s) = Cardinality(hits)
    BY <1>1, <1>2, <1>3, <1>6
  <2> QED BY <1>3, <2>1, FS_Subset
<1> QED BY <1>3, <1>4, <1>5, <1>6

LEMMA GreaterOfTwo ==
    ASSUME NEW a \in 0..100, NEW b \in 0..100
    PROVE  Max({a, b}) \in 0..100 /\ (a = 100 \/ b = 100 => Max({a, b}) = 100)
<1> DEFINE m == IF a >= b THEN a ELSE b
<1>1. m \in {a, b} /\ \A y \in {a, b} : m >= y
  OBVIOUS
<1>2. \A x \in {a, b} : (\A y \in {a, b} : x >= y) => x = m
  OBVIOUS
<1>3. m \in 0..100 /\ (a = 100 \/ b = 100 => m = 100)
  OBVIOUS
<1> HIDE DEF m
<1>4. Max({a, b}) = m
  BY <1>1, <1>2 DEF Max
<1> QED BY <1>3, <1>4

LEMMA SharesBounded ==
    ASSUME NEW whole, IsFiniteSet(whole), whole # {}, NEW part, part \subseteq whole
    PROVE  Share(part, whole) \in 0..100
<1>1. /\ Cardinality(whole) \in Nat /\ Cardinality(part) \in Nat
      /\ Cardinality(part) <= Cardinality(whole) /\ Cardinality(whole) # 0
  BY FS_Subset, FS_CardinalityType, FS_EmptySet
<1> PICK p \in Nat, w \in Nat \ {0} : p = Cardinality(part) /\ w = Cardinality(whole)
  BY <1>1
<1>2. p <= w
  BY <1>1
<1>3. (100 * p) \div w \in 0..100
  <2> DEFINE q == (100 * p) \div w
  <2>1. q \in Int /\ w * q <= 100 * p /\ 100 * p < w * q + w
    OBVIOUS
  <2> HIDE DEF q
  <2>2. ASSUME q > 100 PROVE FALSE
    <3>1. w * 101 <= w * q
      BY <2>1, <2>2
    <3>2. w * q \in Int
      BY <2>1
    <3> QED BY <1>2, <2>1, <3>1, <3>2
  <2>3. ASSUME q < 0 PROVE FALSE
    <3>1. w * q <= w * (-1)
      BY <2>1, <2>3
    <3>2. w * q \in Int
      BY <2>1
    <3> QED BY <2>1, <3>1, <3>2
  <2>4. q \in 0..100
    BY <2>1, <2>2, <2>3
  <2> QED BY <2>4 DEF q
<1> QED BY <1>3 DEF Share

LEMMA SimilaritiesBounded ==
    ASSUME NEW a, NEW b, IsFiniteSet(a), IsFiniteSet(b)
    PROVE  Similarity(a, b) \in 0..100
<1>1. IsFiniteSet(a \cup b) /\ a \cap b \subseteq a \cup b
  BY FS_Union
<1> QED BY <1>1, SharesBounded DEF Similarity

LEMMA QueriesFinite ==
    ASSUME NEW w \in Wines
    PROVE  IsFiniteSet(primaryQuery(w))
<1> DEFINE narrow == Levels(w)[2]
           first == {step \in buildQueryPlan(w) : step.level = 1}
<1>1. IsFiniteSet(w.brandWords) /\ IsFiniteSet(w.display)
  BY SearchAssumption
<1>2. \A field : IsFiniteSet(AsWord(field))
  BY FS_EmptySet, FS_Singleton DEF AsWord
<1>3. IsFiniteSet(AsWords(w.expression))
  BY SearchAssumption, FS_EmptySet DEF AsWords
<1>4. IsFiniteSet(narrow)
  <2> DEFINE dated == IF w.vintage # NoField THEN {w.vintage} ELSE AsWord(w.age)
  <2>1. IsFiniteSet(dated)
    BY <1>2, FS_Singleton
  <2>2. narrow = (w.brandWords \cup AsWords(w.expression)) \cup AsWord(w.edition) \cup dated
                  \cup AsWord(w.volume)
    BY DEF Levels
  <2> HIDE DEF dated, narrow
  <2>3. IsFiniteSet(w.brandWords \cup AsWords(w.expression))
    BY <1>1, <1>3, FS_Union
  <2>4. IsFiniteSet((w.brandWords \cup AsWords(w.expression)) \cup AsWord(w.edition))
    BY <1>2, <2>3, FS_Union
  <2>5. IsFiniteSet((w.brandWords \cup AsWords(w.expression)) \cup AsWord(w.edition) \cup dated)
    BY <2>1, <2>4, FS_Union
  <2> QED BY <1>2, <2>2, <2>5, FS_Union
<1>5. \A step \in first : step.words = narrow
  <2>1. ASSUME NEW step \in first PROVE step.words = narrow
    <3>1. PICK n \in 1..9 : step = [level |-> n - 1, words |-> Levels(w)[n]]
      BY <2>1 DEF buildQueryPlan
    <3>2. n = 2
      BY <2>1, <3>1
    <3> QED BY <3>1, <3>2
  <2> QED BY <2>1
<1>6. CASE first = {}
  BY <1>1, <1>6 DEF primaryQuery
<1>7. CASE first # {}
  <2>1. primaryQuery(w) = (CHOOSE step \in first : TRUE).words
    BY <1>7 DEF primaryQuery
  <2> HIDE DEF first, narrow
  <2> QED BY <1>4, <1>5, <1>7, <2>1
<1> QED BY <1>6, <1>7

(* The two strong channels come first and score highest.                   *)
LEMMA StrongChannelsLead ==
    ASSUME NEW w \in Wines, NEW r
    PROVE  /\ DOMAIN Channels = 1..13
           /\ Channels[1] = <<"verified_link", 0>> /\ Channels[2] = <<"gtin", 0>>
           /\ 1 \in ChannelsOf(w) /\ (SameGtin(r, w) => 2 \in ChannelsOf(w))
           /\ IsHit(Channels[1], r, w) <=> w.id \in r.related
           /\ IsHit(Channels[2], r, w) <=> SameGtin(r, w)
           /\ ChannelScore(Channels[1], r, w) = 100 /\ ChannelScore(Channels[2], r, w) = 100
<1>1. DOMAIN Channels = 1..13
  BY DEF Channels
<1>2. Channels[1] = <<"verified_link", 0>> /\ Channels[2] = <<"gtin", 0>>
  BY DEF Channels
<1>3. Asked(Channels[1], w) /\ (SameGtin(r, w) => Asked(Channels[2], w))
  BY <1>2 DEF Asked, SameGtin
<1>4. IsHit(Channels[1], r, w) <=> w.id \in r.related
  BY <1>2 DEF IsHit
<1>5. IsHit(Channels[2], r, w) <=> SameGtin(r, w)
  BY <1>2 DEF IsHit
<1>6. ChannelScore(Channels[1], r, w) = 100 /\ ChannelScore(Channels[2], r, w) = 100
  BY <1>2 DEF ChannelScore
<1> QED BY <1>1, <1>2, <1>3, <1>4, <1>5, <1>6 DEF ChannelsOf

LEMMA ScoresBounded ==
    ASSUME NEW w \in Wines, NEW r, IsFiniteSet(r.words), NEW n \in ChannelsOf(w)
    PROVE  ChannelScore(Channels[n], r, w) \in 0..100
<1>1. n \in 1..13 /\ Asked(Channels[n], w)
  BY StrongChannelsLead DEF ChannelsOf
<1>2. CASE n \in {1, 2}
  BY <1>2, StrongChannelsLead
<1>3. CASE n \in 3..8
  <2>1. Channels[n] = <<"block", n - 2>> /\ n - 2 \in 1..6
    BY <1>3 DEF Channels
  <2>2. \A k \in 1..6 : BlockingPasses[k].score \in 0..100
    BY DEF BlockingPasses
  <2> QED BY <2>1, <2>2 DEF ChannelScore
<1>4. CASE n = 9
  <2>1. Channels[n] = <<"fts", 0>>
    BY <1>4 DEF Channels
  <2> QED BY <2>1 DEF ChannelScore
<1>5. CASE n = 10
  <2>1. Channels[n] = <<"trigram", 0>>
    BY <1>5 DEF Channels
  <2>2. ChannelScore(Channels[n], r, w) = Similarity(r.words, primaryQuery(w))
    BY <2>1 DEF ChannelScore
  <2> QED BY <2>2, QueriesFinite, SimilaritiesBounded
<1>6. CASE n = 11
  <2>1. Channels[n] = <<"word_similarity", 0>>
    BY <1>6 DEF Channels
  <2>2. ChannelScore(Channels[n], r, w) = (85 * Share(w.brandWords \cap r.words, w.brandWords)) \div 100
    BY <2>1 DEF ChannelScore
  <2>3. w.brandWords # {} /\ IsFiniteSet(w.brandWords)
    BY <1>1, <2>1, SearchAssumption DEF Asked
  <2>4. PICK x \in 0..100 : x = Share(w.brandWords \cap r.words, w.brandWords)
    BY <2>3, SharesBounded
  <2>5. (85 * x) \div 100 \in 0..100
    OBVIOUS
  <2> QED BY <2>2, <2>4, <2>5
<1>7. CASE n = 12
  <2>1. Channels[n] = <<"trigram", 1>>
    BY <1>7 DEF Channels
  <2>2. ChannelScore(Channels[n], r, w) = (80 * Similarity(r.words, w.brandWords)) \div 100
    BY <2>1 DEF ChannelScore
  <2>3. IsFiniteSet(w.brandWords)
    BY SearchAssumption
  <2>4. PICK x \in 0..100 : x = Similarity(r.words, w.brandWords)
    BY <2>3, SimilaritiesBounded
  <2>5. (80 * x) \div 100 \in 0..100
    OBVIOUS
  <2> QED BY <2>2, <2>4, <2>5
<1>8. CASE n = 13
  <2>1. Channels[n] = <<"alias", 0>>
    BY <1>8 DEF Channels
  <2> QED BY <2>1 DEF ChannelScore
<1>9. n \in {1, 2} \/ n \in 3..8 \/ n = 9 \/ n = 10 \/ n = 11 \/ n = 12 \/ n = 13
  BY <1>1
<1> QED BY <1>2, <1>3, <1>4, <1>5, <1>6, <1>7, <1>8, <1>9

(* One of the passes finds a listing that lacks a single field.            *)
LEMMA GapsBridged ==
    ASSUME NEW w \in Wines, NEW r, AllButOne(r, w)
    PROVE  \E n \in ChannelsOf(w) : IsHit(Channels[n], r, w)
<1>1. \A n \in {2, 3, 5} : Channels[n + 2] = <<"block", n>> /\ n + 2 \in DOMAIN Channels
  BY DEF Channels
<1>2. /\ BlockingPasses[2].asks = {"maker", "expression", "volume"}
      /\ BlockingPasses[3].asks = {"maker", "vintage", "category"}
      /\ BlockingPasses[5].asks = {"category", "expression", "volume"}
      /\ {2, 3, 5} \subseteq DOMAIN BlockingPasses
  BY DEF BlockingPasses
<1>3. \A field \in {"expression", "vintage", "volume", "category"} :
         Says(w, field) /\ (Fits(r, w, field) <=> r[field] = w[field])
  BY DEF AllButOne, WineFields, Says, Fits
<1>4. Says(w, "maker") /\ (r.producer = w.producer => Fits(r, w, "maker"))
  BY DEF AllButOne, WineFields, Says, Made, Fits, MadeBy
<1>5. \A n \in {2, 3, 5} : (\A field \in BlockingPasses[n].asks : Says(w, field))
                              => n + 2 \in ChannelsOf(w)
  BY <1>1, <1>2 DEF ChannelsOf, Asked, buildBlockingKeys
<1>6. \A n \in {2, 3, 5} : (\A field \in BlockingPasses[n].asks : Fits(r, w, field))
                              => IsHit(Channels[n + 2], r, w)
  <2> SUFFICES ASSUME NEW n \in {2, 3, 5},
                      \A field \in BlockingPasses[n].asks : Fits(r, w, field)
               PROVE  IsHit(Channels[n + 2], r, w)
    OBVIOUS
  <2>1. Channels[n + 2] = <<"block", n>>
    BY <1>1
  <2>2. IsHit(<<"block", n>>, r, w) <=> \A field \in BlockingPasses[n].asks : Fits(r, w, field)
    BY DEF IsHit
  <2> QED BY <2>1, <2>2
<1>7. PICK gap \in WineFields : \A field \in WineFields \ {gap} : r[field] = w[field]
  BY DEF AllButOne
<1>8. \E n \in {2, 3, 5} : \A field \in BlockingPasses[n].asks : Says(w, field) /\ Fits(r, w, field)
  <2>1. CASE gap \in {"vintage", "category"}
    <3>1. \A field \in BlockingPasses[2].asks : Says(w, field) /\ Fits(r, w, field)
      BY <1>2, <1>3, <1>4, <1>7, <2>1 DEF WineFields
    <3> QED BY <3>1
  <2>2. CASE gap \in {"expression", "volume"}
    <3>1. \A field \in BlockingPasses[3].asks : Says(w, field) /\ Fits(r, w, field)
      BY <1>2, <1>3, <1>4, <1>7, <2>2 DEF WineFields
    <3> QED BY <3>1
  <2>3. CASE gap = "producer"
    <3>1. \A field \in BlockingPasses[5].asks : Says(w, field) /\ Fits(r, w, field)
      BY <1>2, <1>3, <1>4, <1>7, <2>3 DEF WineFields
    <3> QED BY <3>1
  <2> QED BY <1>7, <2>1, <2>2, <2>3 DEF WineFields
<1> QED BY <1>5, <1>6, <1>8
-----------------------------------------------------------------------------
(* What a search has gathered so far, for w: in the order of the channels, *)
(* not too many of one channel, and what a strong channel has found stands *)
(* in front.                                                               *)
Related(w) == {l \in DOMAIN shelf : w.id \in shelf[l].related}

SameEan(w) == {l \in DOMAIN shelf : SameGtin(shelf[l], w)}

ShelfTyped ==
    /\ IsFiniteSet(DOMAIN shelf) /\ disturbed \subseteq DOMAIN shelf
    /\ \A l \in DOMAIN shelf : DOMAIN shelf[l] = ListingFields /\ IsFiniteSet(shelf[l].words)

AtPlace(n) == {l \in DOMAIN found : found[l].at = n}

Gathered(w) ==
    /\ todo \subseteq ChannelsOf(w)
    /\ DOMAIN found \subseteq DOMAIN shelf \ w.refused
    /\ \A l \in DOMAIN found :
          /\ DOMAIN found[l] = {"row", "at", "best"}
          /\ found[l].at \in 1..13 /\ found[l].best \in 0..100
          /\ \A n \in todo : found[l].at < n
    /\ \A n \in 1..13 : Cardinality(AtPlace(n)) <= PerChannel

InFront(l) == l \in DOMAIN found /\ found[l].at <= 2 /\ found[l].best = 100

Noticed(w) ==
    \A l \in Active \ (disturbed \cup w.refused) :
        /\ 1 \notin todo /\ l \in Related(w) /\ Channels[1] \notin failed
           => InFront(l) \/ Cardinality(Related(w) \cup disturbed) > PerChannel
        /\ 2 \notin todo /\ l \in SameEan(w) /\ Channels[2] \notin failed
           => InFront(l) \/ Cardinality(SameEan(w)) > PerChannel
        /\ \A n \in ChannelsOf(w) \ todo : IsHit(Channels[n], shelf[l], w)
           => l \in DOMAIN found \/ failed # {} \/ Cardinality(DOMAIN shelf) > PerChannel

SearchInv ==
    /\ ShelfTyped
    /\ sought = NoField => todo = {}
    /\ sought # NoField => /\ sought \in Wines /\ chosen = NoSearch
                           /\ Gathered(sought) /\ Noticed(sought)
    /\ RightOneFound

(* The first listings of a channel, and the passes that may be left out.   *)
LEMMA ChannelsLeft ==
    ASSUME NEW w \in Wines, todo \subseteq ChannelsOf(w), NEW n \in todo, NextChannel(n), NEW f
    PROVE  /\ StillToAsk(n, f) \subseteq todo \ {n}
           /\ \A m \in StillToAsk(n, f) : n < m
           /\ \A m \in todo \ {n} : m \in {1, 2} => m \in StillToAsk(n, f)
           /\ \A m \in todo \ {n} : Cardinality(DOMAIN f) >= TotalFound \/ m \in StillToAsk(n, f)
<1>1. todo \subseteq 1..13
  BY StrongChannelsLead DEF ChannelsOf
<1>2. StillToAsk(n, f) \subseteq todo \ {n}
  BY DEF StillToAsk
<1>3. \A m \in todo \ {n} : n < m
  BY <1>1 DEF NextChannel
<1>4. Channels[1][1] # "block" /\ Channels[2][1] # "block"
  BY StrongChannelsLead
<1>5. \A m \in todo \ {n} : m \in {1, 2} => m \in StillToAsk(n, f)
  BY <1>4 DEF StillToAsk
<1>6. \A m \in todo \ {n} : Cardinality(DOMAIN f) >= TotalFound \/ m \in StillToAsk(n, f)
  BY DEF StillToAsk
<1> QED BY <1>2, <1>3, <1>5, <1>6

LEMMA AskedAndGathered ==
    ASSUME NEW w \in Wines, ShelfTyped, Gathered(w), Noticed(w), AskChannel, sought = w
    PROVE  Gathered(w)' /\ Noticed(w)'
<1> PICK n \in todo :
       /\ NextChannel(n)
       /\ \E s \in Limited({l \in Active : IsHit(Channels[n], shelf[l], w)}, PerChannel,
                           Sorted(Channels[n]),
                           [l \in {l \in Active : IsHit(Channels[n], shelf[l], w)} |->
                               ChannelScore(Channels[n], shelf[l], w)]) :
             found' = Added({l \in s : l \notin w.refused}, n, w)
       /\ todo' = StillToAsk(n, found')
  BY DEF AskChannel
<1> DEFINE hits == {l \in Active : IsHit(Channels[n], shelf[l], w)}
           score(l) == ChannelScore(Channels[n], shelf[l], w)
<1> PICK s \in Limited(hits, PerChannel, Sorted(Channels[n]), [l \in hits |-> score(l)]) :
       found' = Added({l \in s : l \notin w.refused}, n, w)
  OBVIOUS
<1> DEFINE t == {l \in s : l \notin w.refused}
<1>1. shelf' = shelf /\ disturbed' = disturbed /\ failed' = failed
  BY DEF AskChannel
<1>2. /\ n \in ChannelsOf(w) /\ n \in 1..13 /\ NextChannel(n)
      /\ PerChannel \in Nat \ {0} /\ TotalFound \in Nat /\ 2 * PerChannel <= TotalFound
  BY StrongChannelsLead, SearchAssumption DEF Gathered, ChannelsOf
<1>3. /\ todo' \subseteq todo \ {n} /\ \A m \in todo' : n < m
      /\ \A m \in todo \ {n} : m \in {1, 2} => m \in todo'
      /\ \A m \in todo \ {n} : Cardinality(DOMAIN found') >= TotalFound \/ m \in todo'
  <2>1. todo \subseteq ChannelsOf(w) /\ NextChannel(n) /\ todo' = StillToAsk(n, found')
    BY <1>2 DEF Gathered
  <2>2. PICK f : f = found'
    OBVIOUS
  <2>3. /\ StillToAsk(n, f) \subseteq todo \ {n}
        /\ \A m \in StillToAsk(n, f) : n < m
        /\ \A m \in todo \ {n} : m \in {1, 2} => m \in StillToAsk(n, f)
        /\ \A m \in todo \ {n} : Cardinality(DOMAIN f) >= TotalFound \/ m \in StillToAsk(n, f)
    BY <2>1, ChannelsLeft
  <2> QED BY <2>1, <2>2, <2>3
<1>4. Active \subseteq DOMAIN shelf /\ hits \subseteq DOMAIN shelf /\ IsFiniteSet(hits)
  <2>1. Active \subseteq DOMAIN shelf
    BY DEF Active
  <2>2. hits \in SUBSET DOMAIN shelf
    BY <2>1
  <2> HIDE DEF hits
  <2> QED BY <2>1, <2>2, FS_Subset DEF ShelfTyped
<1> HIDE DEF hits
<1>5. /\ s \subseteq hits /\ IsFiniteSet(s) /\ Cardinality(s) <= PerChannel
      /\ Cardinality(hits) <= PerChannel => s = hits
  BY <1>2, <1>4, WhatALimitLeaves
<1>6. \A l \in DOMAIN shelf : score(l) \in 0..100
  BY <1>2, ScoresBounded DEF ShelfTyped
<1> HIDE DEF score
<1>7. DOMAIN found' = DOMAIN found \cup t
  BY DEF Added
<1>8. ASSUME NEW l \in DOMAIN found
      PROVE  /\ DOMAIN found'[l] = {"row", "at", "best"} /\ found'[l].at = found[l].at
             /\ found'[l].best \in 0..100
             /\ found[l].best = 100 \/ (l \in t /\ score(l) = 100) => found'[l].best = 100
  <2>1. /\ DOMAIN found[l] = {"row", "at", "best"} /\ found[l].best \in 0..100
        /\ l \in DOMAIN shelf
    BY DEF Gathered
  <2>2. CASE l \notin t
    <3>1. found'[l] = found[l]
      BY <2>2 DEF Added
    <3> QED BY <2>1, <2>2, <3>1
  <2>3. CASE l \in t
    <3>1. found'[l] = [found[l] EXCEPT !.best = Max({found[l].best, score(l)})]
      BY <2>3 DEF Added, score
    <3>2. /\ Max({found[l].best, score(l)}) \in 0..100
          /\ found[l].best = 100 \/ score(l) = 100 => Max({found[l].best, score(l)}) = 100
      BY <1>6, <2>1, GreaterOfTwo
    <3>3. /\ DOMAIN found'[l] = {"row", "at", "best"} /\ found'[l].at = found[l].at
          /\ found'[l].best = Max({found[l].best, score(l)})
      BY <2>1, <3>1
    <3> QED BY <2>3, <3>2, <3>3
  <2> QED BY <2>2, <2>3
<1>9. ASSUME NEW l \in t, l \notin DOMAIN found
      PROVE  /\ DOMAIN found'[l] = {"row", "at", "best"} /\ found'[l].at = n
             /\ found'[l].best = score(l)
  <2> DEFINE x == [row |-> shelf[l], at |-> n, best |-> score(l)]
  <2>1. found'[l] = x
    BY <1>9 DEF Added, score
  <2>2. DOMAIN x = {"row", "at", "best"} /\ x.at = n /\ x.best = score(l)
    OBVIOUS
  <2> HIDE DEF x
  <2> QED BY <2>1, <2>2
<1>10. t \subseteq DOMAIN shelf \ w.refused /\ t \subseteq s
  BY <1>4, <1>5
<1> HIDE DEF t
<1>11. \A l \in DOMAIN found : found[l].at < n /\ found[l].at \in 1..13
  BY DEF Gathered
<1>12. Gathered(w)'
  <2>1. todo' \subseteq ChannelsOf(w)
    BY <1>3 DEF Gathered
  <2>2. DOMAIN found' \subseteq DOMAIN shelf' \ w.refused
    BY <1>1, <1>7, <1>10 DEF Gathered
  <2>3. ASSUME NEW l \in DOMAIN found'
        PROVE  /\ DOMAIN found'[l] = {"row", "at", "best"}
               /\ found'[l].at \in 1..13 /\ found'[l].best \in 0..100
               /\ \A m \in todo' : found'[l].at < m
    <3>1. CASE l \in DOMAIN found
      <4>1. \A m \in todo' : found[l].at < m
        BY <1>3, <3>1 DEF Gathered
      <4> QED BY <1>8, <1>11, <3>1, <4>1
    <3>2. CASE l \notin DOMAIN found
      <4>1. l \in t /\ l \in DOMAIN shelf
        BY <1>7, <1>10, <3>2
      <4>2. /\ DOMAIN found'[l] = {"row", "at", "best"} /\ found'[l].at = n
            /\ found'[l].best = score(l)
        BY <1>9, <3>2, <4>1
      <4>3. score(l) \in 0..100
        BY <1>6, <4>1
      <4> QED BY <1>2, <1>3, <4>2, <4>3
    <3> QED BY <3>1, <3>2
  <2>4. ASSUME NEW m \in 1..13 PROVE Cardinality(AtPlace(m)') <= PerChannel
    <3>1. CASE m = n
      <4>1. AtPlace(m)' \subseteq s
        <5> SUFFICES ASSUME NEW l \in DOMAIN found', found'[l].at = n PROVE l \in s
          BY <3>1 DEF AtPlace
        <5>1. l \notin DOMAIN found
          <6> SUFFICES ASSUME l \in DOMAIN found PROVE FALSE
            OBVIOUS
          <6>1. found'[l].at = found[l].at
            BY <1>8
          <6>2. found[l].at < n
            BY <1>11
          <6> QED BY <1>2, <6>1, <6>2
        <5> QED BY <1>7, <1>10, <5>1
      <4>2. Cardinality(AtPlace(m)') <= Cardinality(s) /\ IsFiniteSet(AtPlace(m)')
        BY <1>5, <4>1, FS_Subset
      <4>3. Cardinality(AtPlace(m)') \in Nat /\ Cardinality(s) \in Nat
        BY <1>5, <4>2, FS_CardinalityType
      <4> QED BY <1>2, <1>5, <4>2, <4>3
    <3>2. CASE m # n
      <4>1. AtPlace(m)' = AtPlace(m)
        BY <1>7, <1>8, <1>9, <3>2 DEF AtPlace
      <4> QED BY <4>1 DEF Gathered
    <3> QED BY <3>1, <3>2
  <2> QED BY <2>1, <2>2, <2>3, <2>4 DEF Gathered
<1>13. \A l : InFront(l) => InFront(l)'
  BY <1>7, <1>8 DEF InFront
<1>14. ASSUME NEW l \in hits, l \notin w.refused, n \in {1, 2}, Cardinality(hits) <= PerChannel
       PROVE  InFront(l)'
  <2>1. l \in t /\ l \in DOMAIN found'
    BY <1>5, <1>7, <1>14 DEF t
  <2>2. score(l) = 100
    BY <1>14, StrongChannelsLead DEF score
  <2>3. found'[l].at <= n
    <3>1. CASE l \in DOMAIN found
      <4>1. found'[l].at = found[l].at
        BY <1>8, <3>1
      <4>2. found[l].at < n /\ found[l].at \in Int
        BY <1>11, <3>1
      <4> QED BY <1>2, <4>1, <4>2
    <3>2. CASE l \notin DOMAIN found
      <4>1. found'[l].at = n
        BY <1>9, <2>1, <3>2
      <4> QED BY <1>2, <4>1
    <3> QED BY <3>1, <3>2
  <2>4. found'[l].best = 100
    BY <1>8, <1>9, <2>1, <2>2
  <2>5. found'[l].at <= 2
    <3>1. found'[l].at \in 1..13
      BY <1>12, <2>1 DEF Gathered
    <3> QED BY <1>14, <2>3, <3>1
  <2> QED BY <2>1, <2>4, <2>5 DEF InFront
<1>15. ASSUME NEW l \in Active \ (disturbed \cup w.refused),
              1 \notin todo', l \in Related(w), Channels[1] \notin failed
       PROVE  InFront(l)' \/ Cardinality(Related(w) \cup disturbed) > PerChannel
  <2>1. CASE 1 \notin todo
    BY <1>13, <1>15, <2>1 DEF Noticed
  <2>2. CASE 1 \in todo
    <3>1. n = 1
      BY <1>3, <1>15, <2>2
    <3>2. l \in hits /\ hits \subseteq Related(w) \cup disturbed
      BY <1>4, <1>15, <3>1, StrongChannelsLead DEF hits, Related
    <3>3. Related(w) \cup disturbed \in SUBSET DOMAIN shelf
      BY DEF Related, ShelfTyped
    <3>4. IsFiniteSet(Related(w) \cup disturbed)
      BY <3>3, FS_Subset DEF ShelfTyped
    <3>5. /\ Cardinality(hits) <= Cardinality(Related(w) \cup disturbed)
          /\ Cardinality(hits) \in Nat /\ Cardinality(Related(w) \cup disturbed) \in Nat
      BY <1>4, <3>2, <3>4, FS_Subset, FS_CardinalityType
    <3>6. CASE Cardinality(Related(w) \cup disturbed) <= PerChannel
      <4>1. Cardinality(hits) <= PerChannel
        BY <1>2, <3>5, <3>6
      <4> QED BY <1>14, <1>15, <3>1, <3>2, <4>1
    <3> QED BY <1>2, <3>5, <3>6
  <2> QED BY <2>1, <2>2
<1>16. ASSUME NEW l \in Active \ (disturbed \cup w.refused),
              2 \notin todo', l \in SameEan(w), Channels[2] \notin failed
       PROVE  InFront(l)' \/ Cardinality(SameEan(w)) > PerChannel
  <2>1. CASE 2 \notin todo
    BY <1>13, <1>16, <2>1 DEF Noticed
  <2>2. CASE 2 \in todo
    <3>1. n = 2
      BY <1>3, <1>16, <2>2
    <3>2. l \in hits /\ hits \subseteq SameEan(w)
      BY <1>4, <1>16, <3>1, StrongChannelsLead DEF hits, SameEan
    <3>3. SameEan(w) \in SUBSET DOMAIN shelf
      BY DEF SameEan
    <3>4. IsFiniteSet(SameEan(w))
      BY <3>3, FS_Subset DEF ShelfTyped
    <3>5. /\ Cardinality(hits) <= Cardinality(SameEan(w))
          /\ Cardinality(hits) \in Nat /\ Cardinality(SameEan(w)) \in Nat
      BY <1>4, <3>2, <3>4, FS_Subset, FS_CardinalityType
    <3>6. CASE Cardinality(SameEan(w)) <= PerChannel
      <4>1. Cardinality(hits) <= PerChannel
        BY <1>2, <3>5, <3>6
      <4> QED BY <1>14, <1>16, <3>1, <3>2, <4>1
    <3> QED BY <1>2, <3>5, <3>6
  <2> QED BY <2>1, <2>2
<1>17. ASSUME NEW l \in Active \ (disturbed \cup w.refused), NEW m \in ChannelsOf(w) \ todo',
              IsHit(Channels[m], shelf[l], w), Cardinality(DOMAIN shelf) <= PerChannel,
              failed = {}
       PROVE  l \in DOMAIN found'
  <2>1. CASE m \notin todo
    <3>1. l \in DOMAIN found \/ failed # {} \/ Cardinality(DOMAIN shelf) > PerChannel
      BY <1>17, <2>1 DEF Noticed
    <3>2. Cardinality(DOMAIN shelf) \in Nat
      BY FS_CardinalityType DEF ShelfTyped
    <3> QED BY <1>2, <1>7, <1>17, <3>1, <3>2
  <2>2. CASE m = n
    <3>1. l \in hits
      BY <1>17, <2>2 DEF hits
    <3>2. Cardinality(hits) <= PerChannel
      <4>1. Cardinality(hits) <= Cardinality(DOMAIN shelf)
        BY <1>4, FS_Subset DEF ShelfTyped
      <4>2. Cardinality(hits) \in Nat /\ Cardinality(DOMAIN shelf) \in Nat
        BY <1>4, FS_CardinalityType DEF ShelfTyped
      <4> QED BY <1>2, <1>17, <4>1, <4>2
    <3> QED BY <1>5, <1>7, <1>17, <3>1, <3>2 DEF t
  <2>3. CASE m \in todo \ {n}
    <3>1. Cardinality(DOMAIN found') >= TotalFound
      BY <1>3, <1>17, <2>3
    <3>2. DOMAIN found' \in SUBSET DOMAIN shelf
      BY <1>1, <1>12 DEF Gathered
    <3>3. Cardinality(DOMAIN found') <= Cardinality(DOMAIN shelf) /\ IsFiniteSet(DOMAIN found')
      BY <3>2, FS_Subset DEF ShelfTyped
    <3>4. Cardinality(DOMAIN found') \in Nat /\ Cardinality(DOMAIN shelf) \in Nat
      BY <3>3, FS_CardinalityType DEF ShelfTyped
    <3> QED BY <1>2, <1>17, <3>1, <3>3, <3>4
  <2> QED BY <2>1, <2>2, <2>3
<1>18. Noticed(w)'
  <2> SUFFICES ASSUME NEW l \in (Active \ (disturbed \cup w.refused))'
      PROVE  /\ 1 \notin todo' /\ l \in Related(w)' /\ Channels[1] \notin failed'
                => InFront(l)' \/ Cardinality((Related(w) \cup disturbed)') > PerChannel
             /\ 2 \notin todo' /\ l \in SameEan(w)' /\ Channels[2] \notin failed'
                => InFront(l)' \/ Cardinality(SameEan(w)') > PerChannel
             /\ \A m \in ChannelsOf(w) \ todo' : IsHit(Channels[m], shelf'[l], w)
                => l \in DOMAIN found' \/ failed' # {} \/ Cardinality(DOMAIN shelf') > PerChannel
    BY DEF Noticed
  <2>1. /\ Related(w)' = Related(w) /\ SameEan(w)' = SameEan(w)
        /\ l \in Active \ (disturbed \cup w.refused)
    BY <1>1 DEF Related, SameEan, Active
  <2>2. 1 \notin todo' /\ l \in Related(w)' /\ Channels[1] \notin failed'
                => InFront(l)' \/ Cardinality((Related(w) \cup disturbed)') > PerChannel
    BY <1>1, <1>15, <2>1
  <2>3. 2 \notin todo' /\ l \in SameEan(w)' /\ Channels[2] \notin failed'
                => InFront(l)' \/ Cardinality(SameEan(w)') > PerChannel
    BY <1>1, <1>16, <2>1
  <2>4. ASSUME NEW m \in ChannelsOf(w) \ todo', IsHit(Channels[m], shelf'[l], w),
               l \notin DOMAIN found', failed' = {}
        PROVE  Cardinality(DOMAIN shelf') > PerChannel
    <3>1. ~(Cardinality(DOMAIN shelf) <= PerChannel)
      BY <1>1, <1>17, <2>1, <2>4
    <3>2. Cardinality(DOMAIN shelf) \in Nat
      BY FS_CardinalityType DEF ShelfTyped
    <3> QED BY <1>1, <1>2, <3>1, <3>2
  <2> QED BY <2>2, <2>3, <2>4
<1> QED BY <1>12, <1>18

LEMMA FailedAndGathered ==
    ASSUME NEW w \in Wines, ShelfTyped, Gathered(w), Noticed(w), ChannelFails, sought = w
    PROVE  Gathered(w)' /\ Noticed(w)'
<1> PICK n \in todo : NextChannel(n) /\ failed' = failed \cup {Channels[n]} /\ todo' = StillToAsk(n, found)
  BY DEF ChannelFails
<1>1. shelf' = shelf /\ disturbed' = disturbed /\ found' = found
  BY DEF ChannelFails
<1>2. /\ todo' \subseteq todo \ {n}
      /\ \A m \in todo \ {n} : m \in {1, 2} => m \in todo'
  <2>1. todo \subseteq ChannelsOf(w)
    BY DEF Gathered
  <2> QED BY <2>1, ChannelsLeft
<1>3. \A m : AtPlace(m)' = AtPlace(m)
  BY <1>1 DEF AtPlace
<1>4. Gathered(w)'
  BY <1>1, <1>2, <1>3 DEF Gathered
<1>5. /\ Related(w)' = Related(w) /\ SameEan(w)' = SameEan(w) /\ Active' = Active
      /\ \A l : InFront(l)' <=> InFront(l)
  BY <1>1 DEF Related, SameEan, Active, InFront
<1>6. 1 \notin todo' /\ Channels[1] \notin failed' => 1 \notin todo /\ Channels[1] \notin failed
  BY <1>2
<1>7. 2 \notin todo' /\ Channels[2] \notin failed' => 2 \notin todo /\ Channels[2] \notin failed
  BY <1>2
<1>8. failed' # {}
  OBVIOUS
<1>9. Noticed(w)'
  BY <1>1, <1>5, <1>6, <1>7, <1>8 DEF Noticed
<1> QED BY <1>4, <1>9

(* The cut of the list keeps what stands in front.                         *)
LEMMA FrontIsKept ==
    ASSUME NEW w \in Wines, ShelfTyped, Gathered(w),
           NEW s \in kSubset(Min({TotalFound, Cardinality(DOMAIN found)}), DOMAIN found),
           \A l \in s, m \in (DOMAIN found) \ s : ~Precedes(m, l)
    PROVE  /\ s \subseteq DOMAIN found
           /\ \A l : InFront(l) => l \in s
           /\ Cardinality(DOMAIN shelf) <= PerChannel => s = DOMAIN found
<1> DEFINE F == DOMAIN found
<1>1. /\ PerChannel \in Nat \ {0} /\ TotalFound \in Nat /\ 2 * PerChannel <= TotalFound
  BY SearchAssumption
<1>2. IsFiniteSet(F) /\ Cardinality(F) \in Nat /\ Cardinality(F) <= Cardinality(DOMAIN shelf)
  <2>1. F \in SUBSET DOMAIN shelf
    BY DEF Gathered
  <2>2. IsFiniteSet(F) /\ Cardinality(F) <= Cardinality(DOMAIN shelf)
    BY <2>1, FS_Subset DEF ShelfTyped
  <2> QED BY <2>2, FS_CardinalityType
<1>3. s \subseteq F /\ Cardinality(s) = Min({TotalFound, Cardinality(F)})
  BY DEF kSubset
<1>4. Cardinality(s) = TotalFound \/ s = F
  <2>1. Cardinality(s) = TotalFound \/ Cardinality(s) = Cardinality(F)
    BY <1>1, <1>2, <1>3, LesserOfTwo
  <2> QED BY <1>2, <1>3, <2>1, FS_Subset
<1>5. Cardinality(s) <= Cardinality(F) /\ Cardinality(s) \in Nat
  BY <1>2, <1>3, FS_Subset, FS_CardinalityType
<1>6. ASSUME NEW l, InFront(l), l \notin s PROVE FALSE
  <2> DEFINE both == AtPlace(1) \cup AtPlace(2)
  <2>1. /\ l \in F /\ found[l].at \in 1..13 /\ found[l].at <= 2 /\ found[l].best = 100
    BY <1>6 DEF InFront, Gathered
  <2>2. l \in both
    <3>1. found[l].at \in {1, 2}
      BY <2>1
    <3> QED BY <2>1, <3>1 DEF AtPlace
  <2>3. ASSUME NEW k \in s PROVE k \in both \ {l}
    <3>1. k \in F /\ found[k].at \in 1..13 /\ found[k].best \in 0..100
      BY <1>3 DEF Gathered
    <3>2. ~(found[l].best > found[k].best)
          /\ ~(found[l].best = found[k].best /\ found[l].at < found[k].at)
      BY <1>6, <2>1 DEF Precedes
    <3>3. found[k].best = 100
      BY <2>1, <3>1, <3>2
    <3>4. found[k].at \in {1, 2}
      BY <2>1, <3>1, <3>2, <3>3
    <3> QED BY <1>6, <3>1, <3>4 DEF AtPlace
  <2>4. /\ AtPlace(1) \in SUBSET F /\ AtPlace(2) \in SUBSET F
        /\ Cardinality(AtPlace(1)) <= PerChannel /\ Cardinality(AtPlace(2)) <= PerChannel
    BY DEF AtPlace, Gathered
  <2>5. IsFiniteSet(AtPlace(1)) /\ IsFiniteSet(AtPlace(2))
    BY <1>2, <2>4, FS_Subset
  <2>6. /\ IsFiniteSet(both)
        /\ Cardinality(both) = Cardinality(AtPlace(1)) + Cardinality(AtPlace(2))
                                 - Cardinality(AtPlace(1) \cap AtPlace(2))
    BY <2>5, FS_Union
  <2>7. /\ Cardinality(AtPlace(1)) \in Nat /\ Cardinality(AtPlace(2)) \in Nat
        /\ Cardinality(AtPlace(1) \cap AtPlace(2)) \in Nat
    BY <2>5, FS_Intersection, FS_CardinalityType
  <2> HIDE DEF both
  <2>8. IsFiniteSet(both \ {l}) /\ Cardinality(both \ {l}) = Cardinality(both) - 1
    BY <2>2, <2>6, FS_RemoveElement
  <2>9. s \subseteq both \ {l}
    BY <2>3
  <2>10. Cardinality(s) <= Cardinality(both \ {l})
    BY <2>8, <2>9, FS_Subset
  <2>11. Cardinality(both) <= 2 * PerChannel /\ Cardinality(both) \in Int
    BY <1>1, <2>4, <2>6, <2>7
  <2>12. Cardinality(s) < TotalFound
    BY <1>1, <1>5, <2>8, <2>10, <2>11
  <2> QED BY <1>1, <1>4, <1>6, <2>1, <2>12
<1>7. ASSUME Cardinality(DOMAIN shelf) <= PerChannel PROVE s = F
  <2>1. Cardinality(DOMAIN shelf) \in Nat
    BY FS_CardinalityType DEF ShelfTyped
  <2>2. Cardinality(F) < TotalFound
    BY <1>1, <1>2, <1>7, <2>1
  <2> QED BY <1>1, <1>2, <1>4, <1>5, <2>2
<1> QED BY <1>3, <1>6, <1>7

LEMMA EndedFound ==
    ASSUME SearchInv, EndSearch
    PROVE  RightListingFound'
<1> PICK w : w = sought
  OBVIOUS
<1>1. w \in Wines /\ todo = {} /\ ShelfTyped /\ Gathered(w) /\ Noticed(w)
  BY DEF SearchInv, EndSearch
<1> PICK s \in kSubset(Min({TotalFound, Cardinality(DOMAIN found)}), DOMAIN found) :
       /\ \A l \in s, m \in (DOMAIN found) \ s : ~Precedes(m, l)
       /\ chosen' = [wine |-> w, found |-> {[id |-> l, row |-> found[l].row] : l \in s}]
  BY DEF EndSearch
<1>2. /\ s \subseteq DOMAIN found
      /\ \A l : InFront(l) => l \in s
      /\ Cardinality(DOMAIN shelf) <= PerChannel => s = DOMAIN found
  BY <1>1, FrontIsKept
<1>3. chosen'.wine = w /\ Found(chosen') = s
  <2> DEFINE entry(l) == [id |-> l, row |-> found[l].row]
  <2>1. chosen'.wine = w /\ chosen'.found = {entry(l) : l \in s}
    OBVIOUS
  <2>2. \A l \in s : entry(l).id = l
    OBVIOUS
  <2> HIDE DEF entry
  <2>3. {c.id : c \in {entry(l) : l \in s}} = s
    BY <2>2
  <2> QED BY <2>1, <2>3 DEF Found
<1>4. shelf' = shelf /\ disturbed' = disturbed /\ failed' = failed
  BY DEF EndSearch
<1>5. s \cap w.refused = {}
  BY <1>1, <1>2 DEF Gathered
<1>6. Cardinality(DOMAIN shelf) \in Nat /\ PerChannel \in Nat
  BY <1>1, SearchAssumption, FS_CardinalityType DEF ShelfTyped
<1>7. ASSUME NEW l \in Active \ (disturbed \cup w.refused), l \notin s
      PROVE  /\ l \in Related(w) =>
                    \/ <<"verified_link", 0>> \in failed
                    \/ Cardinality(Related(w) \cup disturbed) > PerChannel
             /\ l \in SameEan(w) => <<"gtin", 0>> \in failed \/ Cardinality(SameEan(w)) > PerChannel
             /\ AllButOne(shelf[l], w) => failed # {} \/ Cardinality(DOMAIN shelf) > PerChannel
  <2>1. l \in Related(w) =>
           \/ <<"verified_link", 0>> \in failed
           \/ Cardinality(Related(w) \cup disturbed) > PerChannel
    <3>1. Channels[1] = <<"verified_link", 0>> /\ 1 \notin todo
      BY <1>1, StrongChannelsLead
    <3>2. l \in Related(w) /\ Channels[1] \notin failed
             => InFront(l) \/ Cardinality(Related(w) \cup disturbed) > PerChannel
      BY <1>1, <1>7, <3>1 DEF Noticed
    <3> QED BY <1>2, <1>7, <3>1, <3>2
  <2>2. l \in SameEan(w) => <<"gtin", 0>> \in failed \/ Cardinality(SameEan(w)) > PerChannel
    <3>1. Channels[2] = <<"gtin", 0>> /\ 2 \notin todo
      BY <1>1, StrongChannelsLead
    <3>2. l \in SameEan(w) /\ Channels[2] \notin failed
             => InFront(l) \/ Cardinality(SameEan(w)) > PerChannel
      BY <1>1, <1>7, <3>1 DEF Noticed
    <3> QED BY <1>2, <1>7, <3>1, <3>2
  <2>3. ASSUME AllButOne(shelf[l], w) PROVE failed # {} \/ Cardinality(DOMAIN shelf) > PerChannel
    <3>1. PICK n \in ChannelsOf(w) : IsHit(Channels[n], shelf[l], w)
      BY <1>1, <2>3, GapsBridged
    <3>2. l \in DOMAIN found \/ failed # {} \/ Cardinality(DOMAIN shelf) > PerChannel
      BY <1>1, <3>1 DEF Noticed
    <3> QED BY <1>2, <1>6, <1>7, <3>2
  <2> QED BY <2>1, <2>2, <2>3
<1>8. Related(w)' = Related(w) /\ SameEan(w)' = SameEan(w) /\ Active' = Active
  BY <1>4 DEF Related, SameEan, Active
<1> QED BY <1>3, <1>4, <1>5, <1>7, <1>8 DEF RightListingFound, Related, SameEan

(* Who has changed is disturbed, and whom a search had to compete with     *)
(* before is still counted.                                                *)
LEMMA ShelfChangeKeeps ==
    ASSUME SearchInv, ShelfChanges
    PROVE  SearchInv'
<1> PICK k \in DOMAIN shelf :
       /\ shelf' \in {[shelf EXCEPT ![k].active = ~@], [shelf EXCEPT ![k].vintage = NoField],
                      [shelf EXCEPT ![k].related = {}]}
       /\ disturbed' = disturbed \cup {k}
  BY DEF ShelfChanges
<1>1. /\ sought' = sought /\ todo' = todo /\ found' = found /\ chosen' = chosen
      /\ lookup' = lookup /\ failed' = failed
  BY DEF ShelfChanges
<1>2. /\ DOMAIN shelf' = DOMAIN shelf /\ IsFiniteSet(DOMAIN shelf)
      /\ \A l \in DOMAIN shelf : l # k => shelf'[l] = shelf[l]
  BY DEF SearchInv, ShelfTyped
<1>3. /\ DOMAIN shelf'[k] = ListingFields /\ shelf'[k].words = shelf[k].words
      /\ shelf'[k].gtin = shelf[k].gtin
  <2>1. DOMAIN shelf[k] = ListingFields
    BY DEF SearchInv, ShelfTyped
  <2>2. shelf'[k] \in {[shelf[k] EXCEPT !.active = ~@], [shelf[k] EXCEPT !.vintage = NoField],
                       [shelf[k] EXCEPT !.related = {}]}
    OBVIOUS
  <2> PICK x : x = shelf[k]
    OBVIOUS
  <2>3. {"words", "gtin"} \subseteq DOMAIN x /\ DOMAIN x = ListingFields
    BY <2>1 DEF ListingFields
  <2>4. ASSUME NEW y \in {[x EXCEPT !.active = ~@], [x EXCEPT !.vintage = NoField],
                          [x EXCEPT !.related = {}]}
        PROVE  DOMAIN y = ListingFields /\ y.words = x.words /\ y.gtin = x.gtin
    BY <2>3
  <2> QED BY <2>2, <2>4
<1>4. ShelfTyped'
  <2>1. \A l \in DOMAIN shelf : DOMAIN shelf'[l] = ListingFields /\ IsFiniteSet(shelf'[l].words)
    BY <1>2, <1>3 DEF SearchInv, ShelfTyped
  <2>2. disturbed' \subseteq DOMAIN shelf'
    BY <1>2 DEF SearchInv, ShelfTyped
  <2> QED BY <1>2, <2>1, <2>2 DEF ShelfTyped
<1>5. \A l \in Active' : l \notin disturbed' => l \in Active \ disturbed /\ shelf'[l] = shelf[l]
  BY <1>2 DEF Active
<1>6. ASSUME NEW w
      PROVE  /\ SameEan(w)' = SameEan(w)
             /\ \A l \in Active' \ disturbed' : l \in Related(w)' <=> l \in Related(w)
             /\ Cardinality(Related(w) \cup disturbed) > PerChannel
                  => Cardinality((Related(w) \cup disturbed)') > PerChannel
  <2>1. \A l \in DOMAIN shelf : shelf'[l].gtin = shelf[l].gtin
    BY <1>2, <1>3
  <2>2. SameEan(w)' = SameEan(w)
    BY <1>2, <2>1 DEF SameEan, SameGtin
  <2>3. \A l \in Active' \ disturbed' : l \in Related(w)' <=> l \in Related(w)
    BY <1>2, <1>5 DEF Related
  <2>4. Related(w) \cup disturbed \in SUBSET ((Related(w) \cup disturbed)')
    BY <1>2 DEF Related
  <2>5. (Related(w) \cup disturbed)' \in SUBSET DOMAIN shelf
    BY <1>2, <1>4 DEF Related, ShelfTyped
  <2>6. IsFiniteSet((Related(w) \cup disturbed)')
    BY <1>2, <2>5, FS_Subset
  <2>7. /\ Cardinality(Related(w) \cup disturbed) <= Cardinality((Related(w) \cup disturbed)')
        /\ IsFiniteSet(Related(w) \cup disturbed)
    BY <2>4, <2>6, FS_Subset
  <2>8. PICK x \in Nat : x = Cardinality(Related(w) \cup disturbed)
    BY <2>7, FS_CardinalityType
  <2>9. PICK y \in Nat : y = Cardinality((Related(w) \cup disturbed)')
    BY <2>6, FS_CardinalityType
  <2>10. x <= y /\ PerChannel \in Nat
    BY <2>7, <2>8, <2>9, SearchAssumption
  <2>11. x > PerChannel => y > PerChannel
    BY <2>10
  <2> QED BY <2>2, <2>3, <2>8, <2>9, <2>11
<1>8. ASSUME NEW w \in Wines, Gathered(w), Noticed(w)
      PROVE  Gathered(w)' /\ Noticed(w)'
  <2>1. \A n : AtPlace(n)' = AtPlace(n)
    BY <1>1 DEF AtPlace
  <2>2. Gathered(w)'
    BY <1>1, <1>2, <1>8, <2>1 DEF Gathered
  <2>3. \A l : InFront(l)' <=> InFront(l)
    BY <1>1 DEF InFront
  <2>4. Cardinality(Related(w) \cup disturbed) > PerChannel
           => Cardinality((Related(w) \cup disturbed)') > PerChannel
    BY <1>6
  <2>5. Noticed(w)'
    <3> SUFFICES ASSUME NEW l \in (Active \ (disturbed \cup w.refused))'
        PROVE  /\ 1 \notin todo' /\ l \in Related(w)' /\ Channels[1] \notin failed'
                  => InFront(l)' \/ Cardinality((Related(w) \cup disturbed)') > PerChannel
               /\ 2 \notin todo' /\ l \in SameEan(w)' /\ Channels[2] \notin failed'
                  => InFront(l)' \/ Cardinality(SameEan(w)') > PerChannel
               /\ \A m \in ChannelsOf(w) \ todo' : IsHit(Channels[m], shelf'[l], w)
                  => l \in DOMAIN found' \/ failed' # {} \/ Cardinality(DOMAIN shelf') > PerChannel
      BY DEF Noticed
    <3>1. l \in Active \ (disturbed \cup w.refused) /\ shelf'[l] = shelf[l]
          /\ (l \in Related(w)' <=> l \in Related(w)) /\ SameEan(w)' = SameEan(w)
      BY <1>5, <1>6
    <3>2. 1 \notin todo' /\ l \in Related(w)' /\ Channels[1] \notin failed'
             => InFront(l)' \/ Cardinality((Related(w) \cup disturbed)') > PerChannel
      BY <1>1, <1>8, <2>3, <2>4, <3>1 DEF Noticed
    <3>3. 2 \notin todo' /\ l \in SameEan(w)' /\ Channels[2] \notin failed'
             => InFront(l)' \/ Cardinality(SameEan(w)') > PerChannel
      BY <1>1, <1>8, <2>3, <3>1 DEF Noticed
    <3>4. \A m \in ChannelsOf(w) \ todo' : IsHit(Channels[m], shelf'[l], w)
             => l \in DOMAIN found' \/ failed' # {} \/ Cardinality(DOMAIN shelf') > PerChannel
      BY <1>1, <1>2, <1>8, <3>1 DEF Noticed
    <3> QED BY <3>2, <3>3, <3>4
  <2> QED BY <2>2, <2>5
<1>9. RightWineFound'
  BY <1>1 DEF SearchInv, RightOneFound, RightWineFound
<1>10. RightListingFound'
  <2>1. CASE chosen = NoSearch
    BY <1>1, <2>1 DEF RightListingFound
  <2>2. CASE chosen # NoSearch
    <3> PICK w : w = chosen.wine
      OBVIOUS
    <3> PICK S : S = Found(chosen)
      OBVIOUS
    <3>1. chosen'.wine = w /\ Found(chosen') = S
      BY <1>1
    <3>2. /\ S \cap w.refused = {}
          /\ \A l \in Active \ (disturbed \cup w.refused) :
                \/ l \in S
                \/ /\ l \in Related(w) =>
                          \/ <<"verified_link", 0>> \in failed
                          \/ Cardinality(Related(w) \cup disturbed) > PerChannel
                   /\ l \in SameEan(w) =>
                          <<"gtin", 0>> \in failed \/ Cardinality(SameEan(w)) > PerChannel
                   /\ AllButOne(shelf[l], w) =>
                          failed # {} \/ Cardinality(DOMAIN shelf) > PerChannel
      BY <2>2 DEF SearchInv, RightOneFound, RightListingFound, Related, SameEan
    <3>3. ASSUME NEW l \in Active' \ (disturbed' \cup w.refused), l \notin S
          PROVE  /\ l \in Related(w)' =>
                        \/ <<"verified_link", 0>> \in failed
                        \/ Cardinality((Related(w) \cup disturbed)') > PerChannel
                 /\ l \in SameEan(w)' =>
                        <<"gtin", 0>> \in failed \/ Cardinality(SameEan(w)') > PerChannel
                 /\ AllButOne(shelf'[l], w) =>
                        failed # {} \/ Cardinality(DOMAIN shelf') > PerChannel
      <4>1. l \in Active \ (disturbed \cup w.refused) /\ shelf'[l] = shelf[l]
        BY <1>5, <3>3
      <4>2. /\ l \in Related(w)' <=> l \in Related(w)
            /\ SameEan(w)' = SameEan(w)
            /\ Cardinality(Related(w) \cup disturbed) > PerChannel
                  => Cardinality((Related(w) \cup disturbed)') > PerChannel
        BY <1>6, <3>3
      <4> QED BY <1>2, <3>2, <3>3, <4>1, <4>2
    <3>4. S \cap w.refused = {} /\ failed' = failed
      BY <1>1, <3>2
    <3> DEFINE R == {l \in DOMAIN shelf' : chosen'.wine.id \in shelf'[l].related}
               E == {l \in DOMAIN shelf' : SameGtin(shelf'[l], chosen'.wine)}
    <3>5. Related(w)' = R /\ SameEan(w)' = E
      BY <3>1 DEF Related, SameEan
    <3>6. ASSUME NEW l \in Active' \ (disturbed' \cup chosen'.wine.refused)
          PROVE  \/ l \in Found(chosen')
                 \/ /\ l \in R =>
                          \/ <<"verified_link", 0>> \in failed'
                          \/ Cardinality(R \cup disturbed') > PerChannel
                    /\ l \in E => <<"gtin", 0>> \in failed' \/ Cardinality(E) > PerChannel
                    /\ AllButOne(shelf'[l], chosen'.wine) =>
                          failed' # {} \/ Cardinality(DOMAIN shelf') > PerChannel
      <4> HIDE DEF R, E
      <4> QED BY <3>1, <3>3, <3>4, <3>5
    <3>7. Found(chosen') \cap chosen'.wine.refused = {}
      BY <3>1, <3>4
    <3> QED BY <3>6, <3>7 DEF RightListingFound
  <2> QED BY <2>1, <2>2
<1> QED BY <1>1, <1>4, <1>8, <1>9, <1>10 DEF SearchInv, RightOneFound

-----------------------------------------------------------------------------
(* The other way round, with no more wines than are compared.              *)
LEMMA LookedUpFound ==
    ASSUME NEW l, LookForWines(l)
    PROVE  RightWineFound'
<1> DEFINE r == shelf[l]
           queries == VariantQueries(r)
           similarity == [w \in WinesInForce |-> Similarity(w.display, r.words)]
           given(n) == Limited(queries[n][2], TopVariants, n = 4, similarity)
<1>1. PICK g1 \in given(1), g2 \in given(2), g3 \in given(3), g4 \in given(4) :
         LET all == g1 \cup g2 \cup g3 \cup g4
             best == [w \in all |->
                 Max({queries[n][1] : n \in {m \in 1..4 : w \in <<g1, g2, g3, g4>>[m]}})]
         IN  \E s \in Limited(all, TopEvaluated, TRUE, best) : lookup' = [row |-> r, found |-> s]
  BY DEF LookForWines
<1> DEFINE all == g1 \cup g2 \cup g3 \cup g4
           best == [w \in all |->
                 Max({queries[n][1] : n \in {m \in 1..4 : w \in <<g1, g2, g3, g4>>[m]}})]
<1>2. PICK s \in Limited(all, TopEvaluated, TRUE, best) : lookup' = [row |-> r, found |-> s]
  BY <1>1
<1> HIDE DEF best
<1>3. /\ IsFiniteSet(WinesInForce) /\ Cardinality(WinesInForce) \in Nat
      /\ TopVariants \in Nat /\ TopEvaluated \in Nat /\ TopEvaluated <= TopVariants
  BY SearchAssumption, FS_Subset, FS_CardinalityType DEF WinesInForce
<1>4. \A n \in 1..4 : queries[n][2] \in SUBSET WinesInForce
  BY DEF VariantQueries
<1>5. /\ queries[2][2] = {w \in WinesInForce : OfTheSameBlend(w, r)}
      /\ queries[3][2] = {w \in WinesInForce : OfTheSameSize(w, r)}
  BY DEF VariantQueries
<1> HIDE DEF queries, similarity
<1>6. \A n \in 1..4 : /\ IsFiniteSet(queries[n][2])
                      /\ Cardinality(queries[n][2]) <= Cardinality(WinesInForce)
  BY <1>3, <1>4, FS_Subset
<1>7. ASSUME NEW n \in 1..4, NEW g \in given(n)
      PROVE  /\ g \subseteq WinesInForce
             /\ Cardinality(WinesInForce) <= TopEvaluated => g = queries[n][2]
  <2>1. g \in Limited(queries[n][2], TopVariants, n = 4, similarity)
    BY <1>7
  <2>2. g \subseteq queries[n][2] /\ (Cardinality(queries[n][2]) <= TopVariants => g = queries[n][2])
    BY <1>3, <1>6, <2>1, WhatALimitLeaves
  <2>3. Cardinality(queries[n][2]) \in Nat
    BY <1>6, FS_CardinalityType
  <2> QED BY <1>3, <1>4, <1>6, <2>2, <2>3
<1>8. /\ g1 \subseteq WinesInForce /\ g2 \subseteq WinesInForce
      /\ g3 \subseteq WinesInForce /\ g4 \subseteq WinesInForce
      /\ Cardinality(WinesInForce) <= TopEvaluated => g2 = queries[2][2] /\ g3 = queries[3][2]
  <2> HIDE DEF given
  <2> QED BY <1>1, <1>7
<1>9. all \in SUBSET WinesInForce
  BY <1>8
<1>10. ASSUME Cardinality(WinesInForce) <= TopEvaluated PROVE s = all
  <2> HIDE DEF all
  <2>1. IsFiniteSet(all) /\ Cardinality(all) <= Cardinality(WinesInForce)
    BY <1>3, <1>9, FS_Subset
  <2>2. Cardinality(all) \in Nat
    BY <2>1, FS_CardinalityType
  <2>3. Cardinality(all) <= TopEvaluated
    BY <1>3, <1>10, <2>1, <2>2
  <2>4. PICK sorted : sorted = TRUE
    OBVIOUS
  <2>5. s \in Limited(all, TopEvaluated, sorted, best)
    BY <1>2, <2>4
  <2> QED BY <1>3, <2>1, <2>3, <2>5, WhatALimitLeaves
<1>11. ASSUME NEW w \in WinesInForce, AllButOne(r, w), r.producer # NoField,
              r.volume = NoField => w.grapes # NoField /\ r.grapes = w.grapes
       PROVE  OfTheSameBlend(w, r) \/ OfTheSameSize(w, r)
  <2>1. PICK gap \in WineFields :
           /\ r[gap] \in {w[gap], NoField}
           /\ \A field \in WineFields \ {gap} : r[field] = w[field]
    BY <1>11 DEF AllButOne
  <2>2. /\ r.producer \in {w.producer, NoField} /\ r.vintage \in {w.vintage, NoField}
        /\ r.volume \in {w.volume, NoField}
    <3>1. \A field \in WineFields : r[field] \in {w[field], NoField}
      BY <2>1
    <3> HIDE DEF r
    <3> QED BY <3>1 DEF WineFields
  <2> HIDE DEF r
  <2>3. NotContradicted(w, r) /\ r.producer = w.producer
    BY <1>11, <2>2 DEF NotContradicted
  <2>4. CASE r.volume = NoField
    BY <1>11, <2>3, <2>4 DEF OfTheSameBlend
  <2>5. CASE r.volume # NoField
    BY <1>11, <2>2, <2>3, <2>5 DEF OfTheSameSize
  <2> QED BY <2>4, <2>5
<1>12. lookup'.row = r /\ lookup'.found = s
  BY <1>2
<1> HIDE DEF r, all
<1>13. ASSUME NEW w \in WinesInForce, AllButOne(r, w), r.producer # NoField,
              r.volume = NoField => w.grapes # NoField /\ r.grapes = w.grapes,
              Cardinality(WinesInForce) <= TopEvaluated
       PROVE  w \in s
  <2>1. w \in queries[2][2] \/ w \in queries[3][2]
    BY <1>5, <1>11, <1>13
  <2> QED BY <1>8, <1>10, <1>13, <2>1 DEF all
<1> QED BY <1>12, <1>13 DEF RightWineFound

(* CandidateSearch: in every search the listing of the very wine, and      *)
(* among the wines of a listing the very one, comes through the channels   *)
(* and the limits, but for a channel that failed and a shop that has more  *)
(* than a channel gives.                                                   *)
THEOREM RightOneAlwaysFound == SearchSpec => []RightOneFound
<1>1. SearchInit => SearchInv
  <2> SUFFICES ASSUME SearchInit PROVE SearchInv
    OBVIOUS
  <2>1. ShelfTyped
    BY SearchAssumption DEF SearchInit, ShelfTyped
  <2>2. sought = NoField /\ todo = {} /\ chosen = NoSearch /\ lookup = NoLookup
    BY DEF SearchInit
  <2> QED BY <2>1, <2>2 DEF SearchInv, RightOneFound, RightListingFound, RightWineFound
<1>2. SearchInv /\ [SearchNext]_searchVars => SearchInv'
  <2> SUFFICES ASSUME SearchInv, [SearchNext]_searchVars PROVE SearchInv'
    OBVIOUS
  <2>1. ASSUME NEW w \in WinesInForce, StartSearch(w) PROVE SearchInv'
    <3>1. /\ shelf' = shelf /\ disturbed' = {} /\ sought' = w /\ todo' = ChannelsOf(w)
          /\ found' = <<>> /\ failed' = {} /\ chosen' = NoSearch /\ lookup' = NoLookup
      BY <2>1 DEF StartSearch
    <3>2. w \in Wines /\ w # NoField /\ PerChannel \in Nat
      BY SearchAssumption DEF WinesInForce
    <3>3. ShelfTyped'
      BY <3>1 DEF SearchInv, ShelfTyped
    <3>4. Gathered(w)'
      <4>1. DOMAIN found' = {}
        BY <3>1
      <4>2. \A n : AtPlace(n)' = {}
        BY <4>1 DEF AtPlace
      <4>3. Cardinality({}) <= PerChannel
        BY <3>2, FS_EmptySet
      <4> QED BY <3>1, <4>1, <4>2, <4>3 DEF Gathered
    <3>5. Noticed(w)'
      <4>1. \A l \in DOMAIN shelf : l \in SameEan(w)' => 2 \in ChannelsOf(w)
        BY <3>1, <3>2, StrongChannelsLead DEF SameEan
      <4>2. 1 \in ChannelsOf(w)
        BY <3>2, StrongChannelsLead
      <4>3. Active' \subseteq DOMAIN shelf
        BY <3>1 DEF Active
      <4> QED BY <3>1, <4>1, <4>2, <4>3 DEF Noticed
    <3> QED BY <3>1, <3>2, <3>3, <3>4, <3>5
            DEF SearchInv, RightOneFound, RightListingFound, RightWineFound
  <2>2. CASE AskChannel \/ ChannelFails
    <3> PICK w : w = sought
      OBVIOUS
    <3>1. /\ shelf' = shelf /\ disturbed' = disturbed /\ sought' = w
          /\ chosen' = chosen /\ lookup' = lookup
      BY <2>2 DEF AskChannel, ChannelFails
    <3>2. todo # {}
      BY <2>2 DEF AskChannel, ChannelFails
    <3>3. w \in Wines /\ w # NoField /\ ShelfTyped /\ Gathered(w) /\ Noticed(w)
          /\ chosen = NoSearch
      BY <3>2 DEF SearchInv
    <3>4. Gathered(w)' /\ Noticed(w)'
      BY <2>2, <3>3, AskedAndGathered, FailedAndGathered
    <3>5. ShelfTyped'
      BY <3>1, <3>3 DEF ShelfTyped
    <3>6. RightOneFound'
      BY <3>1, <3>3 DEF SearchInv, RightOneFound, RightListingFound, RightWineFound
    <3> QED BY <3>1, <3>3, <3>4, <3>5, <3>6 DEF SearchInv
  <2>3. CASE EndSearch
    <3>1. /\ shelf' = shelf /\ disturbed' = disturbed /\ lookup' = lookup
          /\ sought' = NoField /\ todo' = {}
      BY <2>3 DEF EndSearch
    <3>2. RightListingFound'
      BY <2>3, EndedFound
    <3> QED BY <3>1, <3>2 DEF SearchInv, ShelfTyped, RightOneFound, RightWineFound
  <2>4. CASE ShelfChanges
    BY <2>4, ShelfChangeKeeps
  <2>5. ASSUME NEW l \in DOMAIN shelf, LookForWines(l) PROVE SearchInv'
    <3>1. /\ shelf' = shelf /\ disturbed' = {} /\ sought' = sought /\ todo' = todo
          /\ sought = NoField /\ chosen' = NoSearch
      BY <2>5 DEF LookForWines
    <3>2. RightWineFound'
      BY <2>5, LookedUpFound
    <3> QED BY <3>1, <3>2 DEF SearchInv, ShelfTyped, RightOneFound, RightListingFound
  <2>6. CASE UNCHANGED searchVars
    <3>1. /\ shelf' = shelf /\ disturbed' = disturbed /\ sought' = sought /\ todo' = todo
          /\ found' = found /\ failed' = failed /\ chosen' = chosen /\ lookup' = lookup
      BY <2>6 DEF searchVars
    <3> PICK w : w = sought
      OBVIOUS
    <3>2. (Gathered(w)' <=> Gathered(w)) /\ (Noticed(w)' <=> Noticed(w))
      BY <3>1 DEF Gathered, Noticed, AtPlace, Active, Related, SameEan, InFront
    <3>3. (RightOneFound' <=> RightOneFound) /\ (ShelfTyped' <=> ShelfTyped)
      BY <3>1 DEF RightOneFound, RightListingFound, RightWineFound, ShelfTyped, Active
    <3> QED BY <3>1, <3>2, <3>3 DEF SearchInv
  <2> QED BY <2>1, <2>2, <2>3, <2>4, <2>5, <2>6 DEF SearchNext
<1>3. SearchInv => RightOneFound
  BY DEF SearchInv
<1> QED BY <1>1, <1>2, <1>3, PTL DEF SearchSpec
=============================================================================
