--------------------------- MODULE MarketPosition ---------------------------
(***************************************************************************)
(* The place of every shop on the market of one variant: what              *)
(* rebuildAndPublish writes for the variant from computeMarketPosition.    *)
(* The offers come ordered by shop, at most one of each (DISTINCT ON).     *)
(***************************************************************************)
EXTENDS Integers, Sequences, FiniteSets, SequencesExt

CONSTANTS
    ShopCount,    \* the shops are 1..ShopCount, in the order of their ids
    Prices,
    NoOffer       \* the shop has no offer for the variant

ASSUME MarketAssumption == ShopCount \in Nat /\ Prices \subseteq Nat \ {0}

Shops == 1..ShopCount

VARIABLES
    offers,       \* shop -> its offer, with whether it is older than freshnessMaxHours
    position      \* the market_offers and market_variant_summary of the variant

marketVars == <<offers, position>>

NotRanked == [ranks |-> <<>>]

-----------------------------------------------------------------------------
(* computeMarketPosition                                                   *)

RoundedQuotient(n, d) == (2 * n + d) \div (2 * d)

Valid == {s \in Shops : offers[s] # NoOffer /\ ~offers[s].stale}

Price(s) == offers[s].price

Cheaper(s, t) == Price(s) < Price(t) \/ (Price(s) = Price(t) /\ s < t)

(* The valid offers, sorted; of one price, by shop.                        *)
ByPrice == CHOOSE q \in [1..Cardinality(Valid) -> Valid] :
    \A i, j \in DOMAIN q : i < j => Cheaper(q[i], q[j])

(* Mutant: an index from zero.                                             *)
MedianBefore(prices) ==
    LET n == Len(prices)
        mid == n \div 2
    IN IF n = 1 THEN prices[1]
       ELSE IF n % 2 = 1 THEN prices[mid]
       ELSE RoundedQuotient(prices[mid] + prices[mid + 1], 2)

MedianOf(prices) ==
    LET n == Len(prices)
        mid == n \div 2
    IN IF n % 2 = 1 THEN prices[mid + 1]
       ELSE RoundedQuotient(prices[mid] + prices[mid + 1], 2)

(* Mutant: the dense rank, which counts prices and not offers.             *)
RankDense(sorted) ==
    LET rank[i \in 1..Len(sorted)] ==
          IF i = 1 THEN 1
          ELSE IF Price(sorted[i]) = Price(sorted[i - 1]) THEN rank[i - 1]
          ELSE rank[i - 1] + 1
    IN rank

(* The rank moves on to the index where the price changes.                 *)
RankAt(sorted) ==
    LET rank[i \in 1..Len(sorted)] ==
          IF i > 1 /\ Price(sorted[i]) = Price(sorted[i - 1]) THEN rank[i - 1] ELSE i
    IN rank

(* Forint by forint.                                                       *)
SumOfPrices == Cardinality(UNION {{s} \X (1..Price(s)) : s \in Valid})

Percent(part, whole) == RoundedQuotient(10000 * part, whole)

RankEntry(price, rank, n, tied, min, median) ==
    [rank |-> rank, denominator |-> n, tied |-> tied,
     toMin |-> price - min, toMinPct |-> Percent(price - min, min),
     toMedian |-> price - median, toMedianPct |-> Percent(price - median, median)]

Ranks(sorted, min, median) ==
    [s \in ToSet(sorted) |->
        RankEntry(Price(s), RankAt(sorted)[CHOOSE i \in DOMAIN sorted : sorted[i] = s],
                  Len(sorted), \E t \in ToSet(sorted) \ {s} : Price(t) = Price(s),
                  min, median)]

AnyStale == \E s \in Shops : offers[s] # NoOffer /\ offers[s].stale

DataQuality ==
    CASE Valid = {} -> "degraded"
      [] Valid # {} /\ AnyStale -> "partial"
      [] Cardinality(Valid) = 1 /\ ~AnyStale -> "provisional"
      [] OTHER -> "ok"

Computed ==
    LET sorted == ByPrice
        prices == [i \in DOMAIN sorted |-> Price(sorted[i])]
        n == Len(sorted)
        median == MedianOf(prices)
    IN [ranks |-> Ranks(sorted, prices[1], median),
        min |-> prices[1], max |-> prices[n], median |-> median,
        avg |-> RoundedQuotient(SumOfPrices, n),
        spreadPct |-> Percent(prices[n] - prices[1], prices[1]),
        minShop |-> sorted[1], maxShop |-> sorted[n],
        quality |-> DataQuality]

(* A variant without a valid offer has a summary and no ranks.             *)
Unranked == [ranks |-> <<>>, quality |-> DataQuality]

Collected == {s \in Shops : offers[s] # NoOffer}

MarketInit == offers = [s \in Shops |-> NoOffer] /\ position = NotRanked

(* The rows of the variant: a variant without a row is not in byVariant.   *)
Collect ==
    /\ Collected = {}
    /\ offers' \in [Shops -> [price : Prices, stale : BOOLEAN] \cup {NoOffer}]
    /\ UNCHANGED position

Position ==
    /\ Collected # {} /\ position = NotRanked
    /\ position' = IF Valid = {} THEN Unranked ELSE Computed
    /\ UNCHANGED offers

MarketNext == Collect \/ Position

MarketSpec == MarketInit /\ [][MarketNext]_marketVars

-----------------------------------------------------------------------------
MarketTypeOK ==
    /\ offers \in [Shops -> [price : Prices, stale : BOOLEAN] \cup {NoOffer}]
    /\ DOMAIN position.ranks \subseteq Shops

Positioned == position # NotRanked /\ position.quality # "degraded"

(* What the screens read as "the third cheapest of five" is so: a shop is  *)
(* ranked when its offer is fresh, behind exactly the offers that are      *)
(* cheaper; ties share the better rank and are marked; the deltas lead     *)
(* back to the cheapest and to the median price.  The summary is one of    *)
(* the same offers: its cheapest and dearest shops bound them, at most     *)
(* half lie below the median and at most half above.                       *)
RankedAsCounted(s, r) ==
    /\ r.rank = 1 + Cardinality({t \in Valid : Price(t) < Price(s)})
    /\ r.denominator = Cardinality(Valid)
    /\ r.tied = (\E t \in Valid \ {s} : position.ranks[t].rank = r.rank)
    /\ Price(s) - r.toMin = position.min /\ Price(s) - r.toMedian = position.median

PositionAddsUp ==
    Positioned =>
        /\ DOMAIN position.ranks = Valid
        /\ \A s \in Valid : RankedAsCounted(s, position.ranks[s])
        /\ position.minShop \in Valid /\ position.ranks[position.minShop].rank = 1
        /\ position.min = Price(position.minShop) /\ position.max = Price(position.maxShop)
        /\ \A s \in Valid : Price(s) \in position.min..position.max
        /\ 2 * Cardinality({s \in Valid : Price(s) < position.median}) <= Cardinality(Valid)
        /\ 2 * Cardinality({s \in Valid : Price(s) > position.median}) <= Cardinality(Valid)
        /\ position.avg \in position.min..position.max
        /\ position.quality = "ok" => Cardinality(Valid) >= 2
=============================================================================
