-------------------------- MODULE CollectionProofs --------------------------
(***************************************************************************)
(* Proofs for what collects the prices and sets them side by side:         *)
(* OfferPrice, PoliteFetcher, SourceWalk and MarketPosition, for any       *)
(* values of their constants.  Each has a section of its own: what is      *)
(* inductive beside its properties, and the theorems.                      *)
(***************************************************************************)
EXTENDS OfferPrice, PoliteFetcher, SourceWalk, MarketPosition, FiniteSetTheorems,
        SequenceTheorems, WellFoundedInduction, TLAPS

-----------------------------------------------------------------------------
(* A row that was written once holds the selection of its page, unless the *)
(* listing had drifted.                                                    *)
Faithful ==
    (latest # Unobserved /\ ~latest.rewritten) =>
        (latest.comparable =>
            /\ Selection(latest.page).comparable
            /\ latest.selected = Selection(latest.page).selected)

OfferInv == OfferTypeOK /\ Faithful

-----------------------------------------------------------------------------
LEMMA SelectionTyped ==
    ASSUME NEW s \in Snapshots
    PROVE  /\ Selection(s).selected \in Int \cup {NoPrice}
           /\ Selection(s).comparable \in BOOLEAN
<1>1. PublicPrice(s) \in Int \cup {NoPrice} /\ s.restricted \in Int \cup {NoPrice}
    BY OfferAssumption DEF PublicPrice
<1>2. CASE ~Shown(PublicPrice(s)) /\ Shown(s.restricted)
    BY <1>1, <1>2 DEF Selection
<1>3. CASE ~Shown(PublicPrice(s)) /\ ~Shown(s.restricted)
    BY <1>3 DEF Selection
<1>4. CASE Shown(PublicPrice(s)) /\ Swapped(s)
    BY <1>4 DEF Selection
<1>5. CASE Shown(PublicPrice(s)) /\ ~Swapped(s)
  <2>1. Selection(s) = [selected |-> PublicPrice(s), type |-> PriceType(s),
                         comparable |-> PriceType(s) \in AllowedTypes]
      BY <1>5 DEF Selection
  <2>2. (PriceType(s) \in AllowedTypes) \in BOOLEAN
      OBVIOUS
  <2> QED
      BY <1>1, <2>1, <2>2
<1> QED
    BY <1>2, <1>3, <1>4, <1>5

(* selectComparablePrice calls a price comparable only if every visitor    *)
(* pays it and the page does not contradict itself.                        *)
LEMMA ComparableIsPublic ==
    ASSUME NEW s \in Snapshots, Selection(s).comparable
    PROVE  /\ Selection(s).selected \in {s.current, s.sale, s.regular}
           /\ Shown(s.sale) /\ Shown(s.regular) => s.sale <= s.regular
<1>1. CASE ~Shown(PublicPrice(s))
    BY <1>1 DEF Selection
<1>2. CASE Shown(PublicPrice(s)) /\ Swapped(s)
    BY <1>2 DEF Selection
<1>3. CASE Shown(PublicPrice(s)) /\ ~Swapped(s)
  <2>1. Selection(s).selected = PublicPrice(s)
      BY <1>3 DEF Selection
  <2>2. PublicPrice(s) \in {s.current, s.sale, s.regular}
      BY <1>3 DEF PublicPrice, Shown
  <2>3. Shown(s.sale) /\ Shown(s.regular) => s.sale <= s.regular
      BY <1>3, OfferAssumption DEF Swapped, Shown
  <2> QED
      BY <2>1, <2>2, <2>3
<1> QED
    BY <1>1, <1>2, <1>3

-----------------------------------------------------------------------------
LEMMA TimesMonotone ==
    ASSUME NEW a \in Int, NEW b \in Int, NEW c \in Nat, a <= b
    PROVE  c * a <= c * b
OBVIOUS

LEMMA Rounded ==
    ASSUME NEW x \in Int, NEW d \in Nat \ {0}
    PROVE  /\ x \div d \in Int
           /\ d * (x \div d) <= x
           /\ x < d * (x \div d) + d
OBVIOUS

(* A change that detectPriceAnomaly does not call extreme is less than     *)
(* ExtremePct, in spite of the rounding.                                   *)
LEMMA LeapBound ==
    ASSUME NEW new \in Int, NEW old \in Nat \ {0}, ~Leap(new, old)
    PROVE  /\ 100 * Absolute(new - old) < ExtremePct * old
           /\ new < MagnitudeFactor * old
           /\ old < MagnitudeFactor * new
<1> DEFINE diff == new - old
           q == (20000 * diff + old) \div (2 * old)
           most == 100 * ExtremePct - 1
<1> USE OfferAssumption
<1>1. diff \in Int /\ 2 * old \in Nat \ {0} /\ 20000 * diff + old \in Int
    OBVIOUS
<1>2. /\ q \in Int
      /\ (2 * old) * q <= 20000 * diff + old
      /\ 20000 * diff + old < (2 * old) * q + 2 * old
  <2>1. \A x \in Int, d \in Nat \ {0} :
           /\ x \div d \in Int
           /\ d * (x \div d) <= x
           /\ x < d * (x \div d) + d
      BY Rounded
  <2> HIDE DEF diff
  <2> DEFINE x == 20000 * diff + old
             d == 2 * old
  <2>2. x \in Int /\ d \in Nat \ {0}
      BY <1>1
  <2> HIDE DEF x, d
  <2>3. x \div d \in Int /\ d * (x \div d) <= x /\ x < d * (x \div d) + d
      BY <2>1, <2>2
  <2> QED
      BY <2>3 DEF x, d
<1>3. DeltaPct(new, old) = q
    BY DEF DeltaPct
<1>4. Absolute(q) <= most
    BY <1>2, <1>3 DEF Leap, Absolute
<1>5. most \in Int /\ q <= most /\ -most <= q
    BY <1>2, <1>4 DEF Absolute
<1> HIDE DEF q, diff, most
<1>6. (2 * old) * q <= (2 * old) * most
    BY <1>1, <1>2, <1>5, TimesMonotone
<1>7. (2 * old) * (-most) <= (2 * old) * q
    BY <1>1, <1>2, <1>5, TimesMonotone
<1>8. /\ (2 * old) * most = 200 * (ExtremePct * old) - 2 * old
      /\ (2 * old) * (-most) = 2 * old - 200 * (ExtremePct * old)
    BY DEF most
<1>9. ExtremePct * old \in Int /\ (2 * old) * q \in Int
    BY <1>2
<1>10. 100 * diff < ExtremePct * old /\ -(ExtremePct * old) < 100 * diff
    BY <1>1, <1>2, <1>6, <1>7, <1>8, <1>9
<1>11. 100 * Absolute(diff) < ExtremePct * old
    BY <1>1, <1>9, <1>10 DEF Absolute
<1>12. new < MagnitudeFactor * old /\ old < MagnitudeFactor * new
    BY DEF Leap
<1> QED
    BY <1>11, <1>12 DEF diff

-----------------------------------------------------------------------------
LEMMA ObserveKeeps ==
    ASSUME OfferInv, NEW s \in Snapshots, NEW drifted \in BOOLEAN,
           Observe(s, drifted) \/ ObserveAgain(s, drifted)
    PROVE  OfferInv'
<1>1. PriceKept(s, drifted) \in Int \cup {NoPrice} /\ Selection(s).comparable \in BOOLEAN
    BY SelectionTyped DEF PriceKept
<1>2. Withheld(s, drifted) \in BOOLEAN
    BY DEF Withheld, Anomalous
<1>3. CASE Observe(s, drifted)
  <2>1. OfferTypeOK'
      BY <1>1, <1>2, <1>3 DEF Observe, OfferTypeOK
  <2>2. Faithful'
      BY <1>3 DEF Observe, Faithful, PriceKept
  <2> QED
      BY <2>1, <2>2 DEF OfferInv
<1>4. CASE ObserveAgain(s, drifted)
  <2>1. OfferTypeOK'
      BY <1>1, <1>2, <1>4 DEF ObserveAgain, OfferInv, OfferTypeOK
  <2>2. latest'.rewritten
      BY <1>4 DEF ObserveAgain, OfferInv, OfferTypeOK
  <2> QED
      BY <2>1, <2>2 DEF OfferInv, Faithful
<1> QED
    BY <1>3, <1>4

LEMMA OfferInvariant == OfferSpec => []OfferInv
<1>1. OfferInit => OfferInv
    BY DEF OfferInit, OfferInv, OfferTypeOK, Faithful
<1>2. OfferInv /\ [OfferNext]_offerVars => OfferInv'
    BY ObserveKeeps DEF OfferNext, offerVars, OfferInv, OfferTypeOK, Faithful
<1> QED
    BY <1>1, <1>2, PTL DEF OfferSpec

(* What the selection of a page calls comparable, and persistListing keeps,*)
(* is a price every visitor of that page could pay.                        *)
THEOREM PublicAlways == OfferSpec => []PublicPricesOnly
<1>1. OfferInv => PublicPricesOnly
  <2> SUFFICES ASSUME OfferInv, Publishable(latest), ~latest.rewritten
               PROVE  LET s == latest.page
                      IN /\ latest.selected \in {s.current, s.sale, s.regular}
                         /\ Shown(s.sale) /\ Shown(s.regular) => s.sale <= s.regular
      BY DEF PublicPricesOnly
  <2>1. latest # Unobserved /\ latest.comparable /\ latest.page \in Snapshots
      BY DEF Publishable, OfferInv, OfferTypeOK
  <2>2. /\ Selection(latest.page).comparable
        /\ latest.selected = Selection(latest.page).selected
      BY <2>1 DEF OfferInv, Faithful
  <2> QED
      BY <2>1, <2>2, ComparableIsPublic
<1> QED
    BY <1>1, OfferInvariant, PTL

(* detectPriceAnomaly holds every price against the one that the row of    *)
(* the observation before keeps, withheld or not, so that a publishable    *)
(* price never directly follows one it leaps from.                         *)
THEOREM LeapsAreWithheld == OfferSpec => NoLeapShown
<1> DEFINE Close ==
        latest # Unobserved /\ Shown(latest.selected) /\ Publishable(latest') =>
          /\ 100 * Absolute(latest'.selected - latest.selected)
               < ExtremePct * latest.selected
          /\ latest'.selected < MagnitudeFactor * latest.selected
          /\ latest.selected < MagnitudeFactor * latest'.selected
<1>1. ASSUME OfferInv, OfferInv', [OfferNext]_offerVars, latest' # latest
      PROVE  Close
  <2> SUFFICES ASSUME latest # Unobserved, Shown(latest.selected), Publishable(latest')
               PROVE  Close
      OBVIOUS
  <2>1. latest.selected \in Nat \ {0} /\ latest'.selected \in Nat \ {0}
      BY <1>1 DEF Shown, Publishable, OfferInv, OfferTypeOK
  <2>2. PICK s \in Snapshots, drifted \in BOOLEAN :
            Observe(s, drifted) \/ ObserveAgain(s, drifted)
      BY <1>1 DEF OfferNext, offerVars
  <2>3. latest'.quarantined = Withheld(s, drifted) /\ latest'.selected = PriceKept(s, drifted)
    <3>1. CASE Observe(s, drifted)
        BY <3>1 DEF Observe
    <3>2. CASE ObserveAgain(s, drifted)
      <4>1. latest # Unobserved /\ latest \in [page : Snapshots, selected : Int \cup {NoPrice},
                  comparable : BOOLEAN, quarantined : BOOLEAN, rewritten : BOOLEAN]
          BY <1>1, <3>2 DEF ObserveAgain, OfferInv, OfferTypeOK
      <4> QED
          BY <3>2, <4>1 DEF ObserveAgain
    <3> QED
        BY <2>2, <3>1, <3>2
  <2>4. ~Withheld(s, drifted)
      BY <2>3 DEF Publishable
  <2>5. latest'.selected = Selection(s).selected /\ PreviousPrice = latest.selected
      BY <2>3, <2>4 DEF Withheld, PriceKept, PreviousPrice
  <2>6. Shown(latest.selected) /\ Selection(s).selected # NoPrice
      BY <2>5 DEF Shown, Publishable
  <2>7. ~Leap(latest'.selected, latest.selected)
      BY <2>4, <2>5, <2>6 DEF Withheld, Anomalous
  <2> QED
      BY <2>1, <2>7, LeapBound
<1>2. OfferInv /\ OfferInv' /\ [OfferNext]_offerVars => [Close]_offerVars
    BY <1>1 DEF offerVars
<1>3. OfferSpec => [][Close]_offerVars
    BY <1>2, OfferInvariant, PTL DEF OfferSpec
<1> QED
    BY <1>3 DEF NoLeapShown

(* selectComparablePrice and the quarantine of persistExtractedListing:    *)
(* what the market may show is public and no leap from its neighbour.      *)
THEOREM FitToPublishAlways == OfferSpec => FitToPublish
<1> QED
    BY PublicAlways, LeapsAreWithheld DEF FitToPublish

-----------------------------------------------------------------------------
(* The inductive invariant of RateKept: what has been askedIn and what may   *)
(* be askedIn at once keep to the bound together.                            *)
Paced == \A k \in 0..Window : askedIn[k] * Cost + Refilled <= Full + k * Gain

(* Who waits where: a queue holds every fetch once, in the phase that      *)
(* waits in it; a fetch that may ask again has an attempt left; and active *)
(* counts the fetches that hold a place.                                   *)
Waits(at, queue, where) ==
    /\ \A i \in 1..Len(queue) : at[queue[i]] = where
    /\ \A i, j \in 1..Len(queue) : queue[i] = queue[j] => i = j

AttemptLeft ==
    \A f \in Fetches :
        phase[f] \in {"new", "queued", "woken", "ask", "asleep"} => attempt[f] < MaxAttempts

Inside == {f \in Fetches : phase[f] \in {"ask", "paced", "sent", "asleep"}}

Placed ==
    /\ Waits(phase, semQueue, "queued")
    /\ Waits(phase, tokQueue, "paced")
    /\ AttemptLeft
    /\ IsFiniteSet(Inside)
    /\ active = Cardinality(Inside)

FetchInv == FetchTypeOK /\ Paced /\ Placed

LEMMA MinOfTwo ==
    ASSUME NEW m \in Nat, NEW n \in Nat
    PROVE  /\ Min({m, n}) \in Nat
           /\ Min({m, n}) <= m /\ Min({m, n}) <= n
           /\ Min({m, n}) = m \/ Min({m, n}) = n
<1>1. \E x \in {m, n} : \A y \in {m, n} : x <= y
  <2>1. CASE m <= n
    BY <2>1
  <2>2. CASE ~(m <= n)
    BY <2>2
  <2>3. QED
    BY <2>1, <2>2
<1>2. /\ Min({m, n}) \in {m, n}
      /\ \A y \in {m, n} : Min({m, n}) <= y
  BY <1>1 DEF Min
<1>3. QED
  BY <1>2

LEMMA ProductsOfRates ==
    ASSUME NEW m \in Nat, NEW n \in Nat, NEW p \in Nat
    PROVE  /\ m * p \in Nat
           /\ m <= n + 1 => m * p <= n * p + p
OBVIOUS

LEMMA FetchConstants ==
    /\ Limit \in Nat /\ Gain \in Nat /\ Cost \in Nat \ {0} /\ MaxAttempts \in Nat \ {0}
    /\ Window \in Nat /\ Full \in Nat
<1>1. /\ Limit \in Nat /\ Gain \in Nat /\ Cost \in Nat \ {0} /\ Burst \in Nat
      /\ MaxAttempts \in Nat \ {0} /\ Window \in Nat
  BY FetcherAssumption
<1>2. \A a, b \in Nat : a * b \in Nat
  OBVIOUS
<1>3. QED
  BY <1>1, <1>2 DEF Full

LEMMA FetchStart == FetchInit => FetchInv
<1> USE FetchConstants DEF FetchInit
<1> SUFFICES ASSUME FetchInit PROVE FetchInv
  OBVIOUS
<1>1. FetchTypeOK
  BY DEF FetchTypeOK
<1>2. Refilled = Full
  <2>1. tokens + since * Gain = Full
    OBVIOUS
  <2>2. QED
    BY <2>1, MinOfTwo DEF Refilled
<1>3. Paced
  <2>1. \A k \in 0..Window : k * Gain \in Nat /\ askedIn[k] * Cost = 0
    OBVIOUS
  <2>2. QED
    BY <1>2, <2>1 DEF Paced
<1>4. Placed
  <2>1. Inside = {}
    BY DEF Inside
  <2>2. Waits(phase, semQueue, "queued") /\ Waits(phase, tokQueue, "paced")
    BY DEF Waits
  <2>3. AttemptLeft
    BY DEF AttemptLeft
  <2>4. QED
    BY <2>1, <2>2, <2>3, FS_EmptySet DEF Placed
<1>5. QED
  BY <1>1, <1>3, <1>4 DEF FetchInv

(* The bucket after a tick holds at most a tick's gain more than before.   *)
LEMMA TickRefills ==
    ASSUME FetchTypeOK, Tick
    PROVE  /\ Refilled \in Nat /\ Refilled' \in Nat
           /\ Refilled' <= Full /\ Refilled' <= Refilled + Gain
<1> USE FetchConstants
<1> DEFINE was == tokens + since * Gain
           now == tokens + since' * Gain
<1>1. tokens \in Nat /\ since \in Nat /\ since + 1 \in Nat
  BY DEF FetchTypeOK
<1>2. since' \in Nat /\ since' <= since + 1 /\ tokens' = tokens
  BY <1>1, MinOfTwo DEF Tick
<1>3. was \in Nat /\ now \in Nat
  <2>1. since * Gain \in Nat /\ since' * Gain \in Nat
    BY <1>1, <1>2, ProductsOfRates
  <2>2. QED
    BY <1>1, <2>1
<1>4. now <= was + Gain
  <2>1. since' * Gain <= since * Gain + Gain
    BY <1>1, <1>2, ProductsOfRates
  <2>2. since * Gain \in Nat /\ since' * Gain \in Nat
    BY <1>1, <1>2, ProductsOfRates
  <2>3. QED
    BY <1>1, <2>1, <2>2
<1>5. Refilled = Min({Full, was}) /\ Refilled' = Min({Full, now})
  BY <1>2 DEF Refilled, Full
<1> HIDE DEF was, now
<1>6. QED
  BY <1>3, <1>4, <1>5, MinOfTwo

(* The bucket before a request and after it.                               *)
LEMMA SendSpends ==
    ASSUME FetchTypeOK, NEW f \in Fetches, Send(f)
    PROVE  /\ Refilled \in Nat /\ Refilled <= Full /\ Refilled >= Cost
           /\ tokens' = Refilled - Cost /\ since' = 0 /\ tokens' \in 0..Full
<1> USE FetchConstants
<1>1. tokens \in Nat /\ since \in Nat
  BY DEF FetchTypeOK
<1>2. tokens + since * Gain \in Nat
  <2>1. since * Gain \in Nat
    BY <1>1, ProductsOfRates
  <2>2. QED
    BY <1>1, <2>1
<1>3. Refilled \in Nat /\ Refilled <= Full
  BY <1>2, MinOfTwo DEF Refilled
<1>4. QED
  BY <1>3 DEF Send

(* Fetches that enter or leave the semaphore are counted.                  *)
LEMMA OneMoreInside ==
    ASSUME Placed, NEW f \in Fetches, f \notin Inside, Inside' = Inside \cup {f},
           active' = active + 1
    PROVE  IsFiniteSet(Inside)' /\ (active = Cardinality(Inside))'
BY FS_AddElement DEF Placed

LEMMA OneLessInside ==
    ASSUME Placed, NEW f \in Fetches, f \in Inside, Inside' = Inside \ {f},
           active' = active - 1
    PROVE  IsFiniteSet(Inside)' /\ (active = Cardinality(Inside))' /\ active' \in Nat
<1>1. IsFiniteSet(Inside) /\ active = Cardinality(Inside)
  BY DEF Placed
<1>2. /\ IsFiniteSet(Inside \ {f})
      /\ Cardinality(Inside \ {f}) = Cardinality(Inside) - 1
  BY <1>1, FS_RemoveElement
<1>3. QED
  BY <1>1, <1>2, FS_CardinalityType

(* A queue whose waiters stay where they are; one that a fetch joins; and  *)
(* one that its head leaves.                                               *)
LEMMA QueueStays ==
    ASSUME NEW queue \in Seq(Fetches), NEW where, NEW at, NEW now, Waits(at, queue, where),
           \A g \in Fetches : at[g] = where => now[g] = where
    PROVE  Waits(now, queue, where)
<1>1. \A i \in 1..Len(queue) : queue[i] \in Fetches
  OBVIOUS
<1>2. QED
  BY <1>1 DEF Waits

LEMMA QueueJoined ==
    ASSUME NEW queue \in Seq(Fetches), NEW where, NEW at, NEW now, Waits(at, queue, where),
           NEW f \in Fetches, at[f] # where, now[f] = where,
           \A g \in Fetches : at[g] = where => now[g] = where
    PROVE  Append(queue, f) \in Seq(Fetches) /\ Waits(now, Append(queue, f), where)
<1> DEFINE longer == Append(queue, f)
<1>1. /\ longer \in Seq(Fetches) /\ Len(longer) = Len(queue) + 1 /\ Len(queue) \in Nat
      /\ \A i \in 1..Len(queue) : longer[i] = queue[i]
      /\ longer[Len(queue) + 1] = f
  BY AppendProperties
<1>2. \A i \in 1..Len(queue) : queue[i] \in Fetches /\ queue[i] # f
  BY DEF Waits
<1>3. \A i \in 1..Len(longer) : i \in 1..Len(queue) \/ i = Len(queue) + 1
  BY <1>1
<1> HIDE DEF longer
<1>4. \A i \in 1..Len(longer) : now[longer[i]] = where
  BY <1>1, <1>2, <1>3 DEF Waits
<1>5. \A i, j \in 1..Len(longer) : longer[i] = longer[j] => i = j
  BY <1>1, <1>2, <1>3 DEF Waits
<1>6. QED
  BY <1>1, <1>4, <1>5 DEF Waits, longer

LEMMA HeadLeaves ==
    ASSUME NEW queue \in Seq(Fetches), queue # <<>>, NEW where, NEW at, NEW now,
           Waits(at, queue, where),
           \A g \in Fetches \ {Head(queue)} : at[g] = where => now[g] = where
    PROVE  /\ Head(queue) \in Fetches /\ at[Head(queue)] = where
           /\ Tail(queue) \in Seq(Fetches) /\ Waits(now, Tail(queue), where)
<1> DEFINE rest == Tail(queue)
<1>1. /\ Head(queue) = queue[1] /\ Len(queue) \in Nat /\ 1 \in 1..Len(queue)
      /\ rest \in Seq(Fetches) /\ Len(rest) = Len(queue) - 1
      /\ \A i \in 1..Len(rest) : rest[i] = queue[i + 1]
  BY HeadTailProperties
<1>2. \A i \in 1..Len(rest) : i + 1 \in 1..Len(queue)
  BY <1>1
<1>3. \A i \in 1..Len(rest) : rest[i] \in Fetches \ {Head(queue)} /\ at[rest[i]] = where
  <2>1. SUFFICES ASSUME NEW i \in 1..Len(rest)
                 PROVE  rest[i] \in Fetches \ {Head(queue)} /\ at[rest[i]] = where
    OBVIOUS
  <2>2. rest[i] = queue[i + 1] /\ i + 1 \in 1..Len(queue) /\ i + 1 # 1
    BY <1>1, <1>2
  <2>3. queue[i + 1] # queue[1] /\ at[queue[i + 1]] = where
    BY <1>1, <2>2 DEF Waits
  <2>4. queue[i + 1] \in Fetches
    BY <2>2
  <2>5. QED
    BY <1>1, <2>2, <2>3, <2>4
<1>4. \A i, j \in 1..Len(rest) : rest[i] = rest[j] => i = j
  BY <1>1, <1>2 DEF Waits
<1>5. Head(queue) \in Fetches /\ at[Head(queue)] = where
  BY <1>1 DEF Waits
<1> HIDE DEF rest
<1>6. Waits(now, rest, where)
  BY <1>3, <1>4 DEF Waits
<1>7. QED
  BY <1>1, <1>5, <1>6 DEF rest

(* The queues, the attempts and the count of the semaphore, action by      *)
(* action.                                                                 *)
Phases == {"new", "queued", "woken", "ask", "paced", "sent", "asleep", "done"}

LEMMA FetchKeepsPlaces ==
    ASSUME FetchTypeOK, Placed, NEW f \in Fetches, FetchStep(f)
    PROVE  FetchTypeOK' /\ Placed'
<1>0. /\ Waits(phase, semQueue, "queued") /\ Waits(phase, tokQueue, "paced") /\ AttemptLeft
      /\ IsFiniteSet(Inside) /\ active = Cardinality(Inside)
  BY DEF Placed
<1>t. /\ phase \in [Fetches -> Phases] /\ attempt \in [Fetches -> 0..MaxAttempts]
      /\ active \in Nat /\ semQueue \in Seq(Fetches) /\ tokQueue \in Seq(Fetches)
      /\ tokens \in 0..Full /\ since \in 0..Full /\ askedIn \in [0..Window -> Nat]
  BY DEF FetchTypeOK, Phases
<1>c. ASSUME phase' \in [Fetches -> Phases], attempt' \in [Fetches -> 0..MaxAttempts],
             active' \in Nat, semQueue' \in Seq(Fetches), tokQueue' \in Seq(Fetches),
             UNCHANGED <<tokens, since, askedIn>>
      PROVE  FetchTypeOK'
  BY <1>c, <1>t DEF FetchTypeOK, Phases
<1>q. ASSUME UNCHANGED semQueue,
             \A g \in Fetches : phase[g] = "queued" => phase'[g] = "queued"
      PROVE  Waits(phase, semQueue, "queued")'
  BY <1>q, <1>0, <1>t, QueueStays
<1>p. ASSUME UNCHANGED tokQueue,
             \A g \in Fetches : phase[g] = "paced" => phase'[g] = "paced"
      PROVE  Waits(phase, tokQueue, "paced")'
  BY <1>p, <1>0, <1>t, QueueStays
<1>1. CASE Enter(f) /\ active < Limit
  <2>1. /\ phase[f] = "new" /\ phase' = [phase EXCEPT ![f] = "ask"] /\ active' = active + 1
        /\ UNCHANGED <<attempt, semQueue, tokens, since, tokQueue, askedIn>>
    BY <1>1 DEF Enter
  <2>2. phase' \in [Fetches -> Phases]
    BY <1>t, <2>1 DEF Phases
  <2>3. FetchTypeOK'
    BY <1>t, <1>c, <2>1, <2>2
  <2>4. Waits(phase, semQueue, "queued")' /\ Waits(phase, tokQueue, "paced")'
    BY <1>t, <1>q, <1>p, <2>1
  <2>5. AttemptLeft'
    BY <1>0, <1>t, <2>1 DEF AttemptLeft
  <2>6. f \notin Inside /\ Inside' = Inside \cup {f}
    BY <1>t, <2>1 DEF Inside
  <2>7. QED
    BY <2>1, <2>3, <2>4, <2>5, <2>6, OneMoreInside DEF Placed
<1>2. CASE Enter(f) /\ ~(active < Limit)
  <2>1. /\ phase[f] = "new" /\ phase' = [phase EXCEPT ![f] = "queued"]
        /\ semQueue' = Append(semQueue, f)
        /\ UNCHANGED <<attempt, active, tokens, since, tokQueue, askedIn>>
    BY <1>2 DEF Enter
  <2>2. phase' \in [Fetches -> Phases] /\ phase'[f] = "queued"
    BY <1>t, <2>1 DEF Phases
  <2>3. semQueue' \in Seq(Fetches) /\ Waits(phase, semQueue, "queued")'
    <3>1. \A g \in Fetches : phase[g] = "queued" => phase'[g] = "queued"
      BY <1>t, <2>1
    <3>2. /\ Append(semQueue, f) \in Seq(Fetches)
          /\ Waits(phase', Append(semQueue, f), "queued")
      <4>1. phase[f] # "queued" /\ phase'[f] = "queued"
        BY <2>1, <2>2
      <4>2. QED
        BY <1>0, <1>t, <3>1, <4>1, QueueJoined
    <3>3. QED
      BY <2>1, <3>2
  <2>4. FetchTypeOK'
    BY <1>t, <1>c, <2>1, <2>2, <2>3
  <2>5. Waits(phase, tokQueue, "paced")'
    BY <1>t, <1>p, <2>1
  <2>6. AttemptLeft'
    BY <1>0, <1>t, <2>1 DEF AttemptLeft
  <2>7. Inside' = Inside
    BY <1>t, <2>1 DEF Inside
  <2>8. QED
    BY <1>0, <2>1, <2>3, <2>4, <2>5, <2>6, <2>7 DEF Placed
<1>3. CASE Resume(f)
  <2>1. /\ phase[f] = "woken" /\ phase' = [phase EXCEPT ![f] = "ask"] /\ active' = active + 1
        /\ UNCHANGED <<attempt, semQueue, tokens, since, tokQueue, askedIn>>
    BY <1>3 DEF Resume
  <2>2. phase' \in [Fetches -> Phases]
    BY <1>t, <2>1 DEF Phases
  <2>3. FetchTypeOK'
    BY <1>t, <1>c, <2>1, <2>2
  <2>4. Waits(phase, semQueue, "queued")' /\ Waits(phase, tokQueue, "paced")'
    BY <1>t, <1>q, <1>p, <2>1
  <2>5. AttemptLeft'
    BY <1>0, <1>t, <2>1 DEF AttemptLeft
  <2>6. f \notin Inside /\ Inside' = Inside \cup {f}
    BY <1>t, <2>1 DEF Inside
  <2>7. QED
    BY <2>1, <2>3, <2>4, <2>5, <2>6, OneMoreInside DEF Placed
<1>4. CASE AskToken(f)
  <2>1. /\ phase[f] = "ask" /\ phase' = [phase EXCEPT ![f] = "paced"]
        /\ attempt' = [attempt EXCEPT ![f] = @ + 1] /\ tokQueue' = Append(tokQueue, f)
        /\ UNCHANGED <<active, semQueue, tokens, since, askedIn>>
    BY <1>4 DEF AskToken
  <2>2. phase' \in [Fetches -> Phases] /\ phase'[f] = "paced"
    BY <1>t, <2>1 DEF Phases
  <2>3. attempt' \in [Fetches -> 0..MaxAttempts]
    <3>1. attempt[f] < MaxAttempts /\ attempt[f] \in 0..MaxAttempts
      BY <1>0, <1>t, <2>1 DEF AttemptLeft
    <3>2. attempt[f] + 1 \in 0..MaxAttempts
      BY <3>1, FetchConstants
    <3>3. QED
      BY <1>t, <2>1, <3>2
  <2>4. tokQueue' \in Seq(Fetches) /\ Waits(phase, tokQueue, "paced")'
    <3>1. \A g \in Fetches : phase[g] = "paced" => phase'[g] = "paced"
      BY <1>t, <2>1
    <3>2. /\ Append(tokQueue, f) \in Seq(Fetches)
          /\ Waits(phase', Append(tokQueue, f), "paced")
      <4>1. phase[f] # "paced" /\ phase'[f] = "paced"
        BY <2>1, <2>2
      <4>2. QED
        BY <1>0, <1>t, <3>1, <4>1, QueueJoined
    <3>3. QED
      BY <2>1, <3>2
  <2>5. FetchTypeOK'
    BY <1>t, <1>c, <2>1, <2>2, <2>3, <2>4
  <2>6. Waits(phase, semQueue, "queued")'
    BY <1>t, <1>q, <2>1
  <2>7. AttemptLeft'
    BY <1>0, <1>t, <2>1 DEF AttemptLeft
  <2>8. Inside' = Inside
    BY <1>t, <2>1 DEF Inside
  <2>9. QED
    BY <1>0, <2>1, <2>4, <2>5, <2>6, <2>7, <2>8 DEF Placed
<1>5. CASE Send(f)
  <2>1. /\ tokQueue # <<>> /\ Head(tokQueue) = f /\ tokQueue' = Tail(tokQueue)
        /\ phase' = [phase EXCEPT ![f] = "sent"]
        /\ askedIn' = [k \in 0..Window |-> askedIn[k] + 1]
        /\ UNCHANGED <<attempt, active, semQueue>>
    BY <1>5 DEF Send
  <2>2. phase' \in [Fetches -> Phases]
    BY <1>t, <2>1 DEF Phases
  <2>3. /\ phase[f] = "paced" /\ tokQueue' \in Seq(Fetches)
        /\ Waits(phase, tokQueue, "paced")'
    <3>1. \A g \in Fetches \ {Head(tokQueue)} : phase[g] = "paced" => phase'[g] = "paced"
      BY <1>t, <2>1
    <3>2. QED
      BY <1>0, <1>t, <2>1, <3>1, HeadLeaves
  <2>4. FetchTypeOK'
    <3>1. tokens' \in 0..Full /\ since' \in 0..Full
      BY <1>5, SendSpends, FetchConstants
    <3>2. askedIn' \in [0..Window -> Nat]
      BY <1>t, <2>1
    <3>3. QED
      BY <1>t, <2>1, <2>2, <2>3, <3>1, <3>2 DEF FetchTypeOK, Phases
  <2>5. Waits(phase, semQueue, "queued")'
    BY <1>t, <1>q, <2>1, <2>3
  <2>6. AttemptLeft'
    BY <1>0, <1>t, <2>1 DEF AttemptLeft
  <2>7. Inside' = Inside
    BY <1>t, <2>1, <2>3 DEF Inside
  <2>8. QED
    BY <1>0, <2>1, <2>3, <2>4, <2>5, <2>6, <2>7 DEF Placed
<1>6. CASE Answer(f)
  <2>1. /\ phase[f] = "sent" /\ active' = active - 1
        /\ UNCHANGED <<attempt, tokens, since, tokQueue, askedIn>>
    BY <1>6 DEF Answer, Released
  <2>2. /\ phase' \in [Fetches -> Phases] /\ semQueue' \in Seq(Fetches)
        /\ Waits(phase, semQueue, "queued")'
        /\ phase'[f] = "done"
        /\ \A g \in Fetches \ {f} :
              phase'[g] = phase[g] \/ (phase[g] = "queued" /\ phase'[g] = "woken")
    <3>1. CASE semQueue = <<>>
      <4>1. phase' = [phase EXCEPT ![f] = "done"] /\ UNCHANGED semQueue
        BY <1>6, <3>1 DEF Answer, Released
      <4>2. phase' \in [Fetches -> Phases]
        BY <1>t, <4>1 DEF Phases
      <4>3. /\ phase'[f] = "done"
            /\ \A g \in Fetches \ {f} : phase'[g] = phase[g]
        BY <1>t, <4>1
      <4>4. QED
        BY <1>t, <1>q, <2>1, <4>1, <4>2, <4>3
    <3>2. CASE semQueue # <<>>
      <4> DEFINE h == Head(semQueue)
      <4>1. /\ phase' = [phase EXCEPT ![f] = "done", ![h] = "woken"]
            /\ semQueue' = Tail(semQueue)
        BY <1>6, <3>2 DEF Answer, Released
      <4>2. h \in Fetches /\ phase[h] = "queued"
        BY <1>0, <1>t, <3>2, HeadLeaves
      <4> HIDE DEF h
      <4>3. phase' \in [Fetches -> Phases]
        BY <1>t, <4>1, <4>2 DEF Phases
      <4>4. /\ phase'[f] = "done" /\ phase'[h] = "woken"
            /\ \A g \in Fetches \ {f, h} : phase'[g] = phase[g]
        BY <1>t, <2>1, <4>1, <4>2
      <4>5. \A g \in Fetches \ {h} : phase[g] = "queued" => phase'[g] = "queued"
        BY <2>1, <4>4
      <4>6. semQueue' \in Seq(Fetches) /\ Waits(phase, semQueue, "queued")'
        <5>1. /\ Tail(semQueue) \in Seq(Fetches)
              /\ Waits(phase', Tail(semQueue), "queued")
          BY <1>0, <1>t, <3>2, <4>5, HeadLeaves DEF h
        <5>2. QED
          BY <4>1, <5>1
      <4>7. QED
        BY <4>2, <4>3, <4>4, <4>6
    <3>3. QED
      BY <3>1, <3>2
  <2>3. Waits(phase, tokQueue, "paced")'
    <3>1. \A g \in Fetches : phase[g] = "paced" => phase'[g] = "paced"
      BY <2>1, <2>2
    <3>2. QED
      BY <1>p, <2>1, <3>1
  <2>4. AttemptLeft'
    BY <1>0, <2>1, <2>2 DEF AttemptLeft
  <2>5. f \in Inside /\ Inside' = Inside \ {f}
    BY <2>1, <2>2 DEF Inside
  <2>6. active' \in Nat /\ IsFiniteSet(Inside)' /\ (active = Cardinality(Inside))'
    BY <2>1, <2>5, OneLessInside
  <2>7. FetchTypeOK'
    BY <1>t, <1>c, <2>1, <2>2, <2>6
  <2>8. QED
    BY <2>2, <2>3, <2>4, <2>6, <2>7 DEF Placed
<1>7. CASE Refuse(f) \/ BackOff(f) \/ Awake(f)
  <2>1. /\ UNCHANGED <<attempt, active, semQueue, tokens, since, tokQueue, askedIn>>
        /\ \/ phase[f] = "new" /\ phase' = [phase EXCEPT ![f] = "done"]
           \/ /\ phase[f] = "sent" /\ attempt[f] < MaxAttempts
              /\ phase' = [phase EXCEPT ![f] = "asleep"]
           \/ phase[f] = "asleep" /\ phase' = [phase EXCEPT ![f] = "ask"]
    BY <1>7 DEF Refuse, BackOff, Awake
  <2>2. phase' \in [Fetches -> Phases]
    BY <1>t, <2>1 DEF Phases
  <2>3. FetchTypeOK'
    BY <1>t, <1>c, <2>1, <2>2
  <2>4. Waits(phase, semQueue, "queued")' /\ Waits(phase, tokQueue, "paced")'
    BY <1>t, <1>q, <1>p, <2>1
  <2>5. AttemptLeft'
    BY <1>0, <1>t, <2>1 DEF AttemptLeft
  <2>6. Inside' = Inside
    BY <1>t, <2>1 DEF Inside
  <2>7. QED
    BY <1>0, <2>1, <2>3, <2>4, <2>5, <2>6 DEF Placed
<1>8. QED
  BY <1>1, <1>2, <1>3, <1>4, <1>5, <1>6, <1>7 DEF FetchStep

LEMMA FetchStepKeeps ==
    ASSUME FetchInv, [FetchNext]_fetchVars PROVE FetchInv'
<1> USE FetchConstants DEF FetchInv
<1>0. FetchTypeOK /\ Paced /\ Placed
  OBVIOUS
<1>1. ASSUME NEW f \in Fetches,
             Enter(f) \/ Refuse(f) \/ Resume(f) \/ AskToken(f) \/ Answer(f)
               \/ BackOff(f) \/ Awake(f)
      PROVE  FetchInv'
  <2>1. UNCHANGED <<tokens, since, askedIn>>
    BY <1>1 DEF Enter, Refuse, Resume, AskToken, Answer, BackOff, Awake
  <2>2. Paced'
    BY <2>1, <1>0 DEF Paced, Refilled
  <2>3. FetchTypeOK' /\ Placed'
    BY <1>0, <1>1, FetchKeepsPlaces DEF FetchStep
  <2>4. QED
    BY <2>2, <2>3
<1>2. ASSUME NEW f \in Fetches, Send(f)
      PROVE  FetchInv'
  <2>1. /\ Refilled \in Nat /\ Refilled <= Full /\ Refilled >= Cost
        /\ tokens' = Refilled - Cost /\ since' = 0
    BY <1>0, <1>2, SendSpends
  <2>2. Refilled' = Refilled - Cost
    <3>1. Refilled - Cost \in Nat /\ Refilled - Cost <= Full
      BY <2>1
    <3>2. (tokens + since * Gain)' = Refilled - Cost
      BY <2>1, <3>1
    <3>3. Refilled' = Min({Full, Refilled - Cost})
      BY <3>2 DEF Refilled
    <3>4. QED
      BY <3>1, <3>3, MinOfTwo
  <2>3. Paced'
    <3>1. SUFFICES ASSUME NEW k \in 0..Window
                   PROVE  askedIn'[k] * Cost + Refilled' <= Full + k * Gain
      BY DEF Paced
    <3>2. askedIn'[k] = askedIn[k] + 1 /\ askedIn[k] \in Nat
      BY <1>2, <1>0 DEF Send, FetchTypeOK
    <3>3. askedIn'[k] * Cost = askedIn[k] * Cost + Cost
      BY <3>2
    <3>4. askedIn[k] * Cost \in Nat /\ k * Gain \in Nat
      BY <3>2
    <3>5. askedIn[k] * Cost + Refilled <= Full + k * Gain
      BY <1>0 DEF Paced
    <3>6. QED
      BY <2>1, <2>2, <3>3, <3>4, <3>5
  <2>4. FetchTypeOK' /\ Placed'
    BY <1>0, <1>2, FetchKeepsPlaces DEF FetchStep
  <2>5. QED
    BY <2>3, <2>4
<1>3. CASE Tick
  <2>1. /\ Refilled \in Nat /\ Refilled' \in Nat
        /\ Refilled' <= Full /\ Refilled' <= Refilled + Gain
    BY <1>0, <1>3, TickRefills
  <2>2. Paced'
    <3>1. SUFFICES ASSUME NEW k \in 0..Window
                   PROVE  askedIn'[k] * Cost + Refilled' <= Full + k * Gain
      BY DEF Paced
    <3>2. CASE k = 0
      <4>1. askedIn'[k] * Cost = 0 /\ k * Gain = 0
        BY <1>3, <3>2 DEF Tick
      <4>2. QED
        BY <2>1, <4>1
    <3>3. CASE k # 0
      <4>1. k - 1 \in 0..Window /\ askedIn'[k] = askedIn[k - 1]
        BY <1>3, <3>3 DEF Tick
      <4>2. askedIn[k - 1] * Cost + Refilled <= Full + (k - 1) * Gain
        BY <1>0, <4>1 DEF Paced
      <4>3. (k - 1) * Gain + Gain = k * Gain
        OBVIOUS
      <4>4. askedIn[k - 1] * Cost \in Nat /\ k * Gain \in Nat /\ (k - 1) * Gain \in Nat
        BY <1>0, <4>1 DEF FetchTypeOK
      <4>5. QED
        BY <2>1, <4>1, <4>2, <4>3, <4>4
    <3>4. QED
      BY <3>2, <3>3
  <2>3. FetchTypeOK'
    <3>1. since' \in 0..Full
      <4>1. since + 1 \in Nat /\ since' = Min({since + 1, Full})
        BY <1>0, <1>3 DEF Tick, FetchTypeOK
      <4>2. QED
        BY <4>1, MinOfTwo
    <3>2. askedIn' \in [0..Window -> Nat]
      BY <1>0, <1>3 DEF Tick, FetchTypeOK
    <3>3. QED
      BY <1>0, <1>3, <3>1, <3>2 DEF Tick, FetchTypeOK
  <2>4. Placed'
    BY <1>0, <1>3 DEF Tick, Placed, Waits, AttemptLeft, Inside
  <2>5. QED
    BY <2>2, <2>3, <2>4
<1>4. CASE UNCHANGED fetchVars
  BY <1>0, <1>4 DEF fetchVars, FetchTypeOK, Paced, Refilled, Placed, Waits, AttemptLeft, Inside
<1>5. QED
  BY <1>1, <1>2, <1>3, <1>4 DEF FetchNext, FetchStep

(* Whatever the fetches, their retries, the queues of the limiter and the   *)
(* clock do, no stretch of ticks holds more requests to the host than the  *)
(* bucket and what it gains in that stretch allow.                         *)
THEOREM RateAlwaysKept == FetchSpec => []RateKept
<1>1. FetchInit => FetchInv
  BY FetchStart
<1>2. FetchInv /\ [FetchNext]_fetchVars => FetchInv'
  BY FetchStepKeeps
<1>3. FetchInv => RateKept
  <2>1. SUFFICES ASSUME FetchInv, NEW k \in 0..Window
                 PROVE  askedIn[k] * Cost <= Full + k * Gain
    BY DEF RateKept
  <2>2. Refilled \in Nat
    <3>1. tokens \in Nat /\ since * Gain \in Nat
      BY <2>1, FetchConstants, ProductsOfRates DEF FetchInv, FetchTypeOK
    <3>2. tokens + since * Gain \in Nat
      BY <3>1
    <3>3. QED
      BY <3>2, FetchConstants, MinOfTwo DEF Refilled
  <2>3. askedIn[k] * Cost + Refilled <= Full + k * Gain
    BY <2>1 DEF FetchInv, Paced
  <2>4. askedIn[k] * Cost \in Nat /\ k * Gain \in Nat
    <3>1. askedIn[k] \in Nat /\ k \in Nat
      BY <2>1, FetchConstants DEF FetchInv, FetchTypeOK
    <3>2. QED
      BY <3>1, FetchConstants, ProductsOfRates
  <2>5. QED
    BY <2>2, <2>3, <2>4, FetchConstants
<1>4. QED
  BY <1>1, <1>2, <1>3, PTL DEF FetchSpec
-----------------------------------------------------------------------------
(* SourceWalk: in what order pages and sitemaps are read.                  *)

(* A finite set that is ordered by R has a first member: the one with the  *)
(* fewest before it.                                                       *)
LEMMA FiniteHasFirst ==
    ASSUME NEW S, IsFiniteSet(S), S # {}, NEW R,
           \A x, y \in S : <<x, y>> \in R \/ <<y, x>> \in R,
           \A x, y, z \in S : <<x, y>> \in R /\ <<y, z>> \in R => <<x, z>> \in R
    PROVE  \E m \in S : \A x \in S : <<m, x>> \in R
<1> DEFINE Under(x) == {y \in S : <<x, y>> \notin R}
           F == {Under(x) : x \in S}
<1>1. \A x \in S : Under(x) \in FiniteSubsetsOf(S)
  <2> SUFFICES ASSUME NEW x \in S PROVE Under(x) \in FiniteSubsetsOf(S) OBVIOUS
  <2>1. Under(x) \in SUBSET S OBVIOUS
  <2> QED BY <2>1, FS_Subset DEF FiniteSubsetsOf
<1>2. F \subseteq FiniteSubsetsOf(S) /\ F # {}
  <2>1. PICK x \in S : TRUE
    OBVIOUS
  <2>2. Under(x) \in F
    OBVIOUS
  <2>3. \A f \in F : f \in FiniteSubsetsOf(S)
    BY <1>1
  <2> HIDE DEF F
  <2> QED BY <2>2, <2>3
<1>3. PICK u \in F : \A v \in F : ~ (<<v, u>> \in StrictSubsetOrdering(S))
  BY <1>2, FS_StrictSubsetOrderingWellFounded, WFMin
<1>4. PICK m \in S : u = Under(m) OBVIOUS
<1>5. ASSUME NEW y \in S, <<m, y>> \notin R PROVE FALSE
  <2>1. y \in Under(m) /\ <<y, m>> \in R /\ y \notin Under(y)
    BY <1>5
  <2>2. \A z \in Under(y) : z \in Under(m)
    BY <2>1
  <2>3. Under(y) \subseteq Under(m)
    BY <2>2
  <2>4. Under(y) \in SUBSET S /\ Under(m) \in SUBSET S /\ Under(y) \in F OBVIOUS
  <2>5. <<Under(y), Under(m)>> \in StrictSubsetOrdering(S)
    <3> HIDE DEF Under
    <3> QED BY <2>1, <2>3, <2>4 DEF StrictSubsetOrdering
  <2> QED BY <1>3, <1>4, <2>4, <2>5
<1> QED BY <1>5

-----------------------------------------------------------------------------
(* The locals of a walk.                                                   *)
Walks ==
    [at : {"idle", "api", "resolve", "sitemaps", "categories", "done", "refreshed"},
     endpoint : {1, 2}, page : Nat \ {0}, works : BOOLEAN, total : Nat,
     queue : Seq(Sitemaps), processed : SUBSET Sitemaps,
     targets : SUBSET Products, status : {"ok", "partial"} \cup Blocks,
     completeness : {"complete", "partial", "unknown"}]

WalkTyped ==
    /\ adapter \in Adapters /\ listed \subseteq Products /\ kept \subseteq listed
    /\ gaps \subseteq BadAnswers \cup {"added", "removed", "unnamed"}
    /\ walk \in Walks /\ IsFiniteSet(walk.processed)
    /\ refreshed.of \in Products \cup {0}

(* Without a removal, a product that was listed all along and whose place  *)
(* is on a page that was read has been read.                               *)
PagesRead ==
    "removed" \notin gaps =>
        \A p \in kept : Place(p) <= (walk.page - 1) * PageSize => p \in walk.targets

(* While nothing comes or goes, the count is that of the list.             *)
CountHolds ==
    gaps \cap {"added", "removed"} = {} =>
        /\ kept = listed /\ walk.targets \subseteq listed
        /\ walk.total # 0 => walk.total = Cardinality(listed)

PagesInOrder ==
    walk.at = "api" =>
        /\ walk.processed = {}
        /\ ~walk.works => walk.targets = {} /\ walk.page = 1
        /\ PagesRead /\ CountHolds

(* While no sitemap is missed, those that are named are processed or in    *)
(* the queue, and what the processed ones list is found.                   *)
SitemapsRead ==
    walk.status = "ok" /\ gaps \cap {"noise", "unnamed"} = {} =>
        /\ ToSet(Roots) \subseteq walk.processed \cup ToSet(walk.queue)
        /\ \A sm \in walk.processed :
              ToSet(ChildrenOf[sm]) \subseteq walk.processed \cup ToSet(walk.queue)
        /\ Cardinality(walk.targets) < MaxUrls =>
              \A p \in kept : SitemapOf[p] \in walk.processed => p \in walk.targets

SitemapsInOrder ==
    /\ walk.at = "resolve" =>
          walk.processed = {} /\ walk.targets = {} /\ walk.status = "ok"
    /\ walk.at = "sitemaps" =>
          (walk.processed = {} => walk.targets = {}) /\ SitemapsRead
    /\ walk.at = "categories" => walk.status # "ok"

WalkInOrder == WalkTyped /\ PagesInOrder /\ SitemapsInOrder /\ NothingTakenForGone

-----------------------------------------------------------------------------
LEMMA ProductsFinite == Products \subseteq Int /\ IsFiniteSet(Products)
<1>1. ProductCount \in Int /\ 1 \in Int
  BY WalkAssumption
<1>2. IsFiniteSet(1..ProductCount)
  BY <1>1, FS_Interval
<1>3. 1..ProductCount \subseteq Int
  BY <1>1
<1> QED BY <1>2, <1>3 DEF Products

(* The places of the products on the pages.                                *)
LEMMA SomeOfThePage ==
    ASSUME listed \subseteq Products, NEW B \in Nat, NEW p \in listed, Place(p) > B
    PROVE  \E q \in listed : Place(q) > B /\ Place(q) <= B + 1
<1> DEFINE Ahead(x) == {y \in listed : Earlier(y, x)}
<1>1. listed \subseteq Int /\ IsFiniteSet(listed)
  BY ProductsFinite, FS_Subset
<1>2. \A x \in listed : IsFiniteSet(Ahead(x)) /\ Cardinality(Ahead(x)) \in Nat
  <2> SUFFICES ASSUME NEW x \in listed
               PROVE  IsFiniteSet(Ahead(x)) /\ Cardinality(Ahead(x)) \in Nat
    OBVIOUS
  <2>1. Ahead(x) \in SUBSET listed
    OBVIOUS
  <2> HIDE DEF Ahead
  <2> QED BY <1>1, <2>1, FS_Subset, FS_CardinalityType
<1>3. \A x : Place(x) = Cardinality(Ahead(x))
  BY DEF Place
<1>4. PICK R : R = {d \in listed \X listed : Earlier(d[1], d[2])}
  OBVIOUS
<1>5. PICK L : L = {d \in listed \X listed : Earlier(d[2], d[1])}
  OBVIOUS
<1>6. \A x, y \in listed : /\ <<x, y>> \in R <=> Earlier(x, y)
                           /\ <<x, y>> \in L <=> Earlier(y, x)
  BY <1>4, <1>5
<1>7. \A x, y \in listed : Earlier(x, y) \/ Earlier(y, x)
  BY <1>1 DEF Earlier
<1>8. \A x, y, z \in listed : Earlier(x, y) /\ Earlier(y, z) => Earlier(x, z)
  BY <1>1 DEF Earlier
<1>9. \A x, y \in listed : Earlier(x, y) /\ Earlier(y, x) => x = y
  BY <1>1 DEF Earlier
<1> HIDE DEF Ahead
<1>10. PICK T \in SUBSET listed : T = {q \in listed : Place(q) > B}
  OBVIOUS
<1>11. PICK m \in T : \A x \in T : <<m, x>> \in R
  <2>1. IsFiniteSet(T) /\ T # {}
    BY <1>1, <1>10, FS_Subset
  <2>2. \A x, y \in T : <<x, y>> \in R \/ <<y, x>> \in R
    BY <1>6, <1>7
  <2>3. \A x, y, z \in T : <<x, y>> \in R /\ <<y, z>> \in R => <<x, z>> \in R
    BY <1>6, <1>8
  <2> QED BY <2>1, <2>2, <2>3, FiniteHasFirst
<1>12. PICK E \in SUBSET listed : E = Ahead(m) \ {m}
  BY DEF Ahead
<1>13. Cardinality(Ahead(m)) = Cardinality(E) + 1 /\ Cardinality(E) \in Nat
  <2>1. m \in Ahead(m)
    BY <1>7 DEF Ahead
  <2>2. IsFiniteSet(Ahead(m)) /\ Cardinality(Ahead(m)) \in Nat
    BY <1>2
  <2>3. IsFiniteSet(E) /\ Cardinality(E) = Cardinality(Ahead(m)) - 1
    BY <1>12, <2>1, <2>2, FS_RemoveElement
  <2>4. Cardinality(E) \in Nat
    BY <2>3, FS_CardinalityType
  <2> QED BY <2>2, <2>3, <2>4
<1>14. Cardinality(E) <= B
  <2>1. CASE E = {}
    BY <2>1, FS_EmptySet
  <2>2. CASE E # {}
    <3>1. PICK l \in E : \A x \in E : <<l, x>> \in L
      <4>1. IsFiniteSet(E)
        BY <1>1, FS_Subset
      <4>2. \A x, y \in E : <<x, y>> \in L \/ <<y, x>> \in L
        BY <1>6, <1>7
      <4>3. \A x, y, z \in E : <<x, y>> \in L /\ <<y, z>> \in L => <<x, z>> \in L
        BY <1>6, <1>8
      <4> QED BY <2>2, <4>1, <4>2, <4>3, FiniteHasFirst
    <3>2. l \in listed /\ l # m /\ Earlier(l, m)
      BY <1>12 DEF Ahead
    <3>3. l \notin T
      BY <1>6, <1>9, <1>11, <3>2
    <3>4. E \subseteq Ahead(l)
      BY <1>6, <3>1 DEF Ahead
    <3>5. Cardinality(E) <= Cardinality(Ahead(l))
      BY <1>2, <3>2, <3>4, FS_Subset
    <3>6. Cardinality(Ahead(l)) \in Nat /\ ~(Cardinality(Ahead(l)) > B)
      BY <1>2, <1>3, <1>10, <3>2, <3>3
    <3> QED BY <1>13, <3>5, <3>6
  <2> QED BY <2>1, <2>2
<1>15. Place(m) <= B + 1
  BY <1>3, <1>13, <1>14
<1> QED BY <1>10, <1>11, <1>15

LEMMA PlacesTyped ==
    ASSUME listed \subseteq Products
    PROVE  \A p \in listed : Place(p) \in Nat /\ Place(p) >= 1
<1> SUFFICES ASSUME NEW p \in listed PROVE Place(p) \in Nat /\ Place(p) >= 1
  OBVIOUS
<1>1. listed \subseteq Int /\ IsFiniteSet(listed)
  BY ProductsFinite, FS_Subset
<1>2. PICK A \in SUBSET listed : A = {q \in listed : Earlier(q, p)}
  OBVIOUS
<1>3. p \in A
  BY <1>1, <1>2 DEF Earlier
<1>4. IsFiniteSet(A) /\ Cardinality(A) \in Nat
  BY <1>1, FS_Subset, FS_CardinalityType
<1>5. Cardinality(A) # 0
  BY <1>3, <1>4, FS_EmptySet
<1> QED BY <1>2, <1>4, <1>5 DEF Place

LEMMA PlacesOnlyGrow ==
    ASSUME listed' \subseteq Products, listed \subseteq listed', adapter' = adapter,
           NEW p \in listed
    PROVE  Place(p) \in Nat /\ Place(p)' \in Nat /\ Place(p) <= Place(p)'
<1>1. listed' \subseteq Int /\ IsFiniteSet(listed')
  BY ProductsFinite, FS_Subset
<1>2. PICK A : A = {q \in listed : Earlier(q, p)}
  OBVIOUS
<1>3. PICK C \in SUBSET listed' : C = {q \in listed' : Earlier(q, p)'}
  OBVIOUS
<1>4. A \in SUBSET C
  BY <1>2, <1>3 DEF Earlier
<1>5. IsFiniteSet(C) /\ Cardinality(C) \in Nat
  BY <1>1, FS_Subset, FS_CardinalityType
<1>6. IsFiniteSet(A) /\ Cardinality(A) \in Nat /\ Cardinality(A) <= Cardinality(C)
  BY <1>4, <1>5, FS_Subset, FS_CardinalityType
<1>7. Place(p) = Cardinality(A) /\ Place(p)' = Cardinality(C)
  BY <1>2, <1>3 DEF Place
<1> QED BY <1>5, <1>6, <1>7
-----------------------------------------------------------------------------
(* How the walk over the API of a platform ends or goes on.                *)
LEMMA EndpointsTyped ==
    ASSUME NEW w \in Walks
    PROVE  \/ /\ w.works /\ AfterApi(w) \in Walks
              /\ AfterApi(w) = [w EXCEPT !.at = "done",
                                   !.completeness = IF adapter = "shopify"
                                                    THEN ShopifyComplete(w)
                                                    ELSE WooComplete(w)]
           \/ /\ ~w.works /\ AfterApi(w) \in Walks
              /\ AfterApi(w) = [w EXCEPT !.endpoint = 2, !.page = 1]
           \/ AfterApi(w) = Fresh("resolve") /\ Fresh("resolve") \in Walks
<1>1. ShopifyComplete(w) \in {"complete", "partial", "unknown"}
  BY DEF ShopifyComplete
<1>2. WooComplete(w) \in {"complete", "partial", "unknown"}
  BY DEF WooComplete
<1>3. Fresh("resolve") \in Walks
  BY EmptySeq DEF Fresh, Walks
<1>4. w.works \in BOOLEAN
  BY DEF Walks
<1>5. CASE w.works
  <2>1. AfterApi(w) = [w EXCEPT !.at = "done",
                          !.completeness = IF adapter = "shopify"
                                           THEN ShopifyComplete(w) ELSE WooComplete(w)]
    BY <1>5 DEF AfterApi, AfterShopify, AfterWoo
  <2>2. AfterApi(w) \in Walks
    BY <1>1, <1>2, <2>1 DEF Walks
  <2> QED BY <1>5, <2>1, <2>2
<1>6. CASE ~w.works /\ adapter = "shopify" /\ w.endpoint = 1
  <2>1. AfterApi(w) = [w EXCEPT !.endpoint = 2, !.page = 1]
    BY <1>6 DEF AfterApi, AfterShopify
  <2>2. PICK one \in Nat \ {0}, two \in {1, 2} : one = 1 /\ two = 2
    OBVIOUS
  <2>3. [w EXCEPT !.endpoint = two, !.page = one] \in Walks
    BY DEF Walks
  <2>4. AfterApi(w) \in Walks
    BY <2>1, <2>2, <2>3
  <2> QED BY <1>6, <2>1, <2>4
<1>7. CASE ~w.works /\ ~(adapter = "shopify" /\ w.endpoint = 1)
  BY <1>3, <1>7 DEF AfterApi, AfterShopify, AfterWoo
<1> QED BY <1>4, <1>5, <1>6, <1>7

LEMMA TotalsTyped ==
    ASSUME WalkTyped, NEW page, NEW reported
    PROVE  Total(page, reported) \in Nat
<1>1. IsFiniteSet(listed)
  BY ProductsFinite, FS_Subset DEF WalkTyped
<1> QED BY <1>1, FS_CardinalityType DEF Total, WalkTyped, Walks

(* The record a good page leaves.                                          *)
WithPage(reported) ==
    [walk EXCEPT
        !.page = @ + 1, !.works = TRUE,
        !.targets = @ \cup ApiPage(walk.page),
        !.total = IF adapter = "woocommerce" THEN Total(walk.page, reported) ELSE 0]

LEMMA PageTyped ==
    ASSUME WalkTyped, NEW reported
    PROVE  /\ WithPage(reported) \in Walks
           /\ WithPage(reported).page = walk.page + 1
           /\ WithPage(reported).works
           /\ WithPage(reported).targets = walk.targets \cup ApiPage(walk.page)
           /\ WithPage(reported).total \in {0, walk.total, Cardinality(listed)}
           /\ WithPage(reported).at = walk.at
           /\ WithPage(reported).status = walk.status
           /\ WithPage(reported).processed = walk.processed
<1>1. PICK t \in Nat : t = IF adapter = "woocommerce"
                           THEN Total(walk.page, reported) ELSE 0
  BY TotalsTyped
<1>2. PICK f \in SUBSET Products : f = ApiPage(walk.page)
  BY DEF WalkTyped, ApiPage
<1>3. PICK g : g = walk.page + 1
  OBVIOUS
<1>4. walk \in Walks /\ g \in Nat \ {0}
  BY <1>3 DEF WalkTyped, Walks
<1>5. WithPage(reported) = [walk EXCEPT !.page = g, !.works = TRUE,
                               !.targets = walk.targets \cup f, !.total = t]
  BY <1>1, <1>2, <1>3 DEF WithPage
<1>6. t \in {0, walk.total, Cardinality(listed)}
  BY <1>1 DEF Total
<1>7. PICK ts \in SUBSET Products : ts = walk.targets \cup f
  BY <1>4 DEF Walks
<1>8. WithPage(reported) = [walk EXCEPT !.page = g, !.works = TRUE,
                               !.targets = ts, !.total = t]
  BY <1>5, <1>7
<1>9. [walk EXCEPT !.page = g, !.works = TRUE, !.targets = ts, !.total = t] \in Walks
  BY <1>4 DEF Walks
<1>10. /\ WithPage(reported).page = g
       /\ WithPage(reported).works
       /\ WithPage(reported).targets = ts
       /\ WithPage(reported).total = t
       /\ WithPage(reported).at = walk.at
       /\ WithPage(reported).status = walk.status
       /\ WithPage(reported).processed = walk.processed
  BY <1>4, <1>8 DEF Walks
<1> QED BY <1>2, <1>3, <1>6, <1>7, <1>8, <1>9, <1>10

LEMMA StatusTyped ==
    ASSUME WalkTyped, NEW a
    PROVE  /\ [walk EXCEPT !.status = StatusAfter(a, @)] \in Walks
           /\ [walk EXCEPT !.status = SitemapStatus(a, @)] \in Walks
<1>1. walk \in Walks /\ walk.status \in {"ok", "partial"} \cup Blocks
  BY DEF WalkTyped, Walks
<1>2. StatusAfter(a, walk.status) \in {"ok", "partial"} \cup Blocks
  BY <1>1 DEF StatusAfter
<1>3. SitemapStatus(a, walk.status) \in {"ok", "partial"} \cup Blocks
  BY <1>1 DEF SitemapStatus
<1> QED BY <1>1, <1>2, <1>3 DEF Walks

LEMMA WalkStartsInOrder == WalkInit => WalkInOrder
<1> SUFFICES ASSUME WalkInit PROVE WalkInOrder
  OBVIOUS
<1>1. Fresh("idle") \in Walks
  BY EmptySeq DEF Fresh, Walks
<1>2. IsFiniteSet(walk.processed)
  BY FS_EmptySet DEF WalkInit, Fresh
<1>3. WalkTyped
  BY <1>1, <1>2, WalkAssumption DEF WalkInit, WalkTyped, NoRefresh
<1>4. walk.at = "idle"
  BY DEF WalkInit, Fresh
<1> QED BY <1>3, <1>4 DEF WalkInOrder, PagesInOrder, SitemapsInOrder,
      NothingTakenForGone, CompleteIsWhole, RefreshTellsGoneFromBlocked
-----------------------------------------------------------------------------
(* A walk over the API that is over has the products of every page, or the *)
(* count of the shop to go by.                                             *)
LEMMA EndOfPages ==
    ASSUME WalkTyped, NEW w \in Walks, w.processed = {}, w.works, walk' = AfterApi(w),
           adapter' = adapter, listed' = listed, kept' = kept,
           "removed" \notin gaps' =>
              \A p \in kept : Place(p) <= (w.page - 1) * PageSize => p \in w.targets,
           gaps' \cap {"added", "removed"} = {} =>
              /\ kept = listed /\ w.targets \subseteq listed
              /\ w.total # 0 => w.total = Cardinality(listed),
           \/ w.page > MaxPages \/ Cardinality(w.targets) >= MaxUrls
           \/ w.status # "ok" \/ gaps' \cap {"lost", "error", "noise"} # {}
           \/ \A p \in listed : Place(p) <= (w.page - 1) * PageSize
    PROVE  CompleteIsWhole' /\ walk' \in Walks /\ walk'.at = "done"
<1>1. PICK c : c = IF adapter = "shopify" THEN ShopifyComplete(w) ELSE WooComplete(w)
  OBVIOUS
<1>2. \/ AfterApi(w) = [w EXCEPT !.at = "done", !.completeness = c] /\ AfterApi(w) \in Walks
      \/ AfterApi(w) = Fresh("resolve") /\ ~w.works
  BY <1>1, EndpointsTyped DEF AfterApi, AfterShopify, AfterWoo
<1>3. walk' = [w EXCEPT !.at = "done", !.completeness = c] /\ walk' \in Walks
  BY <1>2
<1>4. /\ walk'.at = "done" /\ walk'.completeness = c /\ walk'.processed = {}
      /\ walk'.page = w.page /\ walk'.targets = w.targets
  BY <1>3 DEF Walks
<1>5. SUFFICES ASSUME c = "complete", ~Unnoticed' PROVE kept' \subseteq walk'.targets
  BY <1>3, <1>4 DEF CompleteIsWhole
<1>6. c = "complete" => w.status = "ok"
  BY <1>1 DEF ShopifyComplete, WooComplete
<1>7. ASSUME "removed" \notin gaps', gaps' \cap {"lost", "error", "noise"} = {},
             ~AtALimit'
      PROVE  kept' \subseteq walk'.targets
  <2>1. \A p \in listed : Place(p) <= (w.page - 1) * PageSize
    BY <1>4, <1>5, <1>6, <1>7 DEF AtALimit
  <2>2. \A p \in kept : p \in w.targets
    BY <1>7, <2>1 DEF WalkTyped
  <2> QED BY <1>4, <2>2
<1>8. CASE adapter = "shopify"
  <2>1. ~AtALimit' /\ gaps' \cap {"removed", "lost", "error", "noise"} = {}
    BY <1>4, <1>5, <1>8 DEF Unnoticed
  <2> QED BY <1>7, <2>1
<1>9. CASE adapter # "shopify"
  <2>1. /\ "removed" \notin gaps'
        /\ "added" \in gaps' => ~AtALimit' /\ gaps' \cap {"lost", "error", "noise"} = {}
    BY <1>4, <1>5, <1>9 DEF Unnoticed
  <2>2. CASE "added" \in gaps'
    BY <1>7, <2>1, <2>2
  <2>3. CASE "added" \notin gaps'
    <3>1. kept = listed /\ w.targets \subseteq listed
      BY <2>1, <2>3
    <3>2. w.total # 0 /\ Cardinality(w.targets) >= w.total
      BY <1>1, <1>5, <1>6, <1>9 DEF WooComplete
    <3>3. w.total = Cardinality(listed)
      BY <2>1, <2>3, <3>2
    <3>4. IsFiniteSet(listed) /\ Cardinality(listed) \in Nat
      BY ProductsFinite, FS_Subset, FS_CardinalityType DEF WalkTyped
    <3>5. PICK T \in SUBSET listed : T = w.targets
      BY <3>1
    <3>6. /\ IsFiniteSet(T) /\ Cardinality(T) <= Cardinality(listed)
          /\ Cardinality(listed) = Cardinality(T) => listed = T
      BY <3>4, FS_Subset
    <3>7. Cardinality(T) \in Nat
      BY <3>6, FS_CardinalityType
    <3>8. Cardinality(T) = Cardinality(listed)
      BY <3>2, <3>3, <3>4, <3>5, <3>6, <3>7
    <3> QED BY <1>4, <3>1, <3>5, <3>6, <3>8
  <2> QED BY <2>2, <2>3
<1> QED BY <1>3, <1>4, <1>8, <1>9

(* The page that holds no product is behind the last product.              *)
LEMMA EmptyPageIsTheLast ==
    ASSUME WalkTyped, ApiPage(walk.page) = {}
    PROVE  \A p \in listed : Place(p) <= (walk.page - 1) * PageSize
<1>1. PICK B \in Nat : B = (walk.page - 1) * PageSize
  BY WalkAssumption DEF WalkTyped, Walks
<1>2. B + 1 <= walk.page * PageSize
  <2>1. PICK g \in Nat \ {0}, z \in Nat \ {0} : g = walk.page /\ z = PageSize
    BY WalkAssumption DEF WalkTyped, Walks
  <2>2. g * z = (g - 1) * z + z
    BY <2>1
  <2>3. (g - 1) * z \in Nat /\ g * z \in Nat
    BY <2>1
  <2> QED BY <1>1, <2>1, <2>2, <2>3
<1>3. SUFFICES ASSUME NEW p \in listed, ~(Place(p) <= B) PROVE FALSE
  BY <1>1
<1>4. listed \subseteq Products
  BY DEF WalkTyped
<1>5. Place(p) \in Nat
  BY <1>4, PlacesTyped
<1>6. PICK q \in listed : Place(q) > B /\ Place(q) <= B + 1
  BY <1>1, <1>3, <1>4, <1>5, SomeOfThePage
<1>7. Place(q) \in Nat /\ walk.page * PageSize \in Nat
  BY <1>4, PlacesTyped, WalkAssumption DEF WalkTyped, Walks
<1>8. q \in ApiPage(walk.page)
  BY <1>1, <1>2, <1>6, <1>7 DEF ApiPage
<1> QED BY <1>8

LEMMA AskedApiInOrder ==
    ASSUME WalkInOrder, NEW a \in BadAnswers \cup {"ok"}, NEW reported, AskApi(a, reported)
    PROVE  WalkInOrder'
<1>1. /\ WalkTyped /\ walk \in Walks /\ walk.at = "api" /\ walk.processed = {}
      /\ ~walk.works => walk.targets = {} /\ walk.page = 1
      /\ PagesRead /\ CountHolds /\ LoopGoesOn(walk)
  BY DEF WalkInOrder, WalkTyped, PagesInOrder, AskApi
<1>2. /\ adapter' = adapter /\ listed' = listed /\ kept' = kept /\ refreshed' = refreshed
      /\ Answers(a)
  BY DEF AskApi
<1>3. /\ gaps' \subseteq BadAnswers \cup {"added", "removed", "unnamed"}
      /\ "removed" \in gaps' <=> "removed" \in gaps
      /\ gaps' \cap {"added", "removed"} = gaps \cap {"added", "removed"}
      /\ a # "ok" => a \in gaps'
  <2>1. gaps \subseteq BadAnswers \cup {"added", "removed", "unnamed"}
    BY <1>1 DEF WalkTyped
  <2>2. CASE a = "ok"
    <3>1. gaps' = gaps
      BY <1>2, <2>2 DEF Answers
    <3> QED BY <2>1, <2>2, <3>1
  <2>3. CASE a # "ok"
    <3>1. a \in BadAnswers /\ gaps' = gaps \cup {a}
      BY <1>2, <2>3 DEF Answers
    <3>2. a # "added" /\ a # "removed"
      BY <3>1 DEF BadAnswers, Blocks
    <3> QED BY <2>1, <3>1, <3>2
  <2> QED BY <2>2, <2>3
<1>4. walk' \in Walks /\ IsFiniteSet(walk'.processed) => WalkTyped'
  BY <1>1, <1>2, <1>3 DEF WalkTyped
<1>5. walk'.at = "resolve" /\ walk' = Fresh("resolve") => WalkInOrder'
  <2> SUFFICES ASSUME walk' = Fresh("resolve") PROVE WalkInOrder'
    OBVIOUS
  <2>1. walk' \in Walks
    BY EmptySeq DEF Fresh, Walks
  <2>2. IsFiniteSet(walk'.processed)
    BY FS_EmptySet DEF Fresh
  <2>3. /\ walk'.at = "resolve" /\ walk'.processed = {} /\ walk'.targets = {}
        /\ walk'.status = "ok"
    BY DEF Fresh
  <2> QED BY <1>4, <2>1, <2>2, <2>3 DEF WalkInOrder, PagesInOrder, SitemapsInOrder,
        NothingTakenForGone, CompleteIsWhole, RefreshTellsGoneFromBlocked
<1>6. walk'.at = "done" /\ CompleteIsWhole' /\ WalkTyped' => WalkInOrder'
  BY DEF WalkInOrder, PagesInOrder, SitemapsInOrder, NothingTakenForGone,
      RefreshTellsGoneFromBlocked
<1>7. walk'.at = "api" /\ PagesInOrder' /\ WalkTyped' => WalkInOrder'
  BY DEF WalkInOrder, SitemapsInOrder, NothingTakenForGone, CompleteIsWhole,
      RefreshTellsGoneFromBlocked
<1>8. CASE a = "ok" /\ ApiPage(walk.page) # {}
  <2>1. PICK more \in Walks : more = WithPage(reported)
    BY <1>1, PageTyped
  <2>2. /\ more.page = walk.page + 1 /\ more.works
        /\ more.targets = walk.targets \cup ApiPage(walk.page)
        /\ more.total \in {0, walk.total, Cardinality(listed)}
        /\ more.at = "api" /\ more.processed = {}
    BY <1>1, <2>1, PageTyped
  <2>3. walk' = IF LoopGoesOn(more) THEN more ELSE AfterApi(more)
    BY <1>8, <2>1 DEF AskApi, WithPage
  <2>4. \A p \in kept : Place(p) <= (more.page - 1) * PageSize =>
           \/ Place(p) <= (walk.page - 1) * PageSize \/ p \in ApiPage(walk.page)
    <3> SUFFICES ASSUME NEW p \in kept, Place(p) <= (more.page - 1) * PageSize,
                        ~(Place(p) <= (walk.page - 1) * PageSize)
                 PROVE  p \in ApiPage(walk.page)
      OBVIOUS
    <3>1. p \in listed /\ listed \subseteq Products
      BY <1>1 DEF WalkTyped
    <3>2. Place(p) \in Nat
      BY <3>1, PlacesTyped
    <3>3. PICK g \in Nat \ {0}, z \in Nat \ {0} : g = walk.page /\ z = PageSize
      BY <1>1, WalkAssumption DEF Walks
    <3>4. (more.page - 1) * PageSize = g * z /\ (walk.page - 1) * PageSize = (g - 1) * z
      BY <2>2, <3>3
    <3>5. (g - 1) * z \in Int /\ g * z \in Int
      BY <3>3
    <3>6. (g - 1) * z < Place(p) /\ Place(p) <= g * z
      BY <3>2, <3>4, <3>5
    <3> QED BY <3>1, <3>3, <3>6 DEF ApiPage
  <2>5. "removed" \notin gaps' =>
           \A p \in kept : Place(p) <= (more.page - 1) * PageSize => p \in more.targets
    BY <1>1, <1>3, <2>2, <2>4 DEF PagesRead
  <2>6. gaps' \cap {"added", "removed"} = {} =>
           /\ kept = listed /\ more.targets \subseteq listed
           /\ more.total # 0 => more.total = Cardinality(listed)
    BY <1>1, <1>3, <2>2 DEF CountHolds, ApiPage
  <2>7. CASE LoopGoesOn(more)
    <3>1. walk' = more
      BY <2>3, <2>7
    <3>2. PagesRead'
      BY <1>2, <2>5, <3>1 DEF PagesRead, Place, Earlier
    <3>3. CountHolds'
      BY <1>2, <2>6, <3>1 DEF CountHolds
    <3>4. PagesInOrder'
      BY <2>2, <3>1, <3>2, <3>3 DEF PagesInOrder
    <3>5. IsFiniteSet(walk'.processed)
      BY <2>2, <3>1, FS_EmptySet
    <3> QED BY <1>4, <1>7, <2>1, <2>2, <3>1, <3>4, <3>5
  <2>8. CASE ~LoopGoesOn(more)
    <3>1. walk' = AfterApi(more)
      BY <2>3, <2>8
    <3>2. more.page > MaxPages \/ Cardinality(more.targets) >= MaxUrls
      <4>1. more.page \in Nat /\ MaxPages \in Nat /\ MaxUrls \in Nat
        BY <2>1, WalkAssumption DEF Walks
      <4>2. IsFiniteSet(more.targets)
        <5>1. PICK T \in SUBSET Products : T = more.targets
          BY <2>1 DEF Walks
        <5> QED BY <5>1, ProductsFinite, FS_Subset
      <4>3. PICK n \in Nat : n = Cardinality(more.targets)
        BY <4>2, FS_CardinalityType
      <4> QED BY <2>8, <4>1, <4>3 DEF LoopGoesOn
    <3>3. CompleteIsWhole' /\ walk' \in Walks /\ walk'.at = "done"
      BY <1>1, <1>2, <2>1, <2>2, <2>5, <2>6, <3>1, <3>2, EndOfPages
    <3>4. walk'.processed = {}
      BY <2>1, <2>2, <3>1 DEF AfterApi, AfterShopify, AfterWoo, Walks
    <3> QED BY <1>4, <1>6, <3>3, <3>4, FS_EmptySet
  <2> QED BY <2>7, <2>8
<1>9. CASE ~(a = "ok" /\ ApiPage(walk.page) # {})
  <2>1. PICK w \in Walks : w = [walk EXCEPT !.status = StatusAfter(a, @)]
    BY <1>1, StatusTyped
  <2>2. walk' = AfterApi(w)
    BY <1>9, <2>1 DEF AskApi
  <2>3. /\ w.page = walk.page /\ w.works = walk.works /\ w.targets = walk.targets
        /\ w.total = walk.total /\ w.processed = {} /\ w.at = "api"
        /\ w.status = StatusAfter(a, walk.status)
    BY <1>1, <2>1 DEF Walks
  <2>4. CASE w.works
    <3>1. "removed" \notin gaps' =>
             \A p \in kept : Place(p) <= (w.page - 1) * PageSize => p \in w.targets
      BY <1>1, <1>3, <2>3 DEF PagesRead
    <3>2. gaps' \cap {"added", "removed"} = {} =>
             /\ kept = listed /\ w.targets \subseteq listed
             /\ w.total # 0 => w.total = Cardinality(listed)
      BY <1>1, <1>3, <2>3 DEF CountHolds
    <3>3. \/ w.status # "ok" \/ gaps' \cap {"lost", "error", "noise"} # {}
          \/ \A p \in listed : Place(p) <= (w.page - 1) * PageSize
      <4>1. CASE a = "ok"
        BY <1>1, <1>9, <2>3, <4>1, EmptyPageIsTheLast
      <4>2. CASE a \in Blocks \cup {"late"}
        BY <2>3, <4>2 DEF StatusAfter, Blocks
      <4>3. CASE a \in {"lost", "error", "noise"}
        BY <1>3, <4>3
      <4> QED BY <4>1, <4>2, <4>3 DEF BadAnswers
    <3>4. CompleteIsWhole' /\ walk' \in Walks /\ walk'.at = "done"
      BY <1>1, <1>2, <2>1, <2>2, <2>3, <2>4, <3>1, <3>2, <3>3, EndOfPages
    <3>5. walk'.processed = {}
      BY <2>1, <2>2, <2>3, <2>4 DEF AfterApi, AfterShopify, AfterWoo, Walks
    <3> QED BY <1>4, <1>6, <3>4, <3>5, FS_EmptySet
  <2>5. CASE ~w.works
    <3>1. CASE AfterApi(w) = [w EXCEPT !.endpoint = 2, !.page = 1] /\ AfterApi(w) \in Walks
      <4>1. /\ walk'.at = "api" /\ walk'.page = 1 /\ walk'.processed = {}
            /\ walk'.targets = {} /\ walk'.total = walk.total /\ walk' \in Walks
        BY <1>1, <2>1, <2>2, <2>3, <2>5, <3>1 DEF Walks
      <4>2. PagesRead'
        <5>1. \A p \in kept : Place(p) >= 1 /\ Place(p) \in Nat
          BY <1>1, PlacesTyped DEF WalkTyped
        <5>2. (1 - 1) * PageSize = 0
          BY WalkAssumption
        <5>3. \A p \in kept : ~(Place(p) <= (1 - 1) * PageSize)
          BY <5>1, <5>2
        <5>4. \A p \in kept : ~(Place(p)' <= (walk'.page - 1) * PageSize)
          BY <1>2, <4>1, <5>3 DEF Place, Earlier
        <5> QED BY <1>2, <5>4 DEF PagesRead
      <4>3. CountHolds'
        BY <1>1, <1>2, <1>3, <4>1 DEF CountHolds
      <4>4. PagesInOrder'
        BY <4>1, <4>2, <4>3 DEF PagesInOrder
      <4> QED BY <1>4, <1>7, <4>1, <4>4, FS_EmptySet
    <3>2. CASE AfterApi(w) = Fresh("resolve")
      <4>1. walk' = Fresh("resolve") /\ Fresh("resolve").at = "resolve"
        BY <2>2, <3>2 DEF Fresh
      <4> QED BY <1>5, <4>1
    <3> QED BY <2>5, <3>1, <3>2, EndpointsTyped
  <2> QED BY <2>4, <2>5
<1> QED BY <1>8, <1>9

-----------------------------------------------------------------------------
LEMMA WalkBegunInOrder ==
    ASSUME WalkInOrder, BeginWalk
    PROVE  WalkInOrder'
<1>1. /\ WalkTyped /\ adapter' = adapter /\ listed' = listed /\ kept' = listed
      /\ gaps' = gaps /\ refreshed' = refreshed
  BY DEF WalkInOrder, BeginWalk
<1>2. PICK at \in {"resolve", "api"} : walk' = Fresh(at)
  BY DEF BeginWalk
<1>3. walk' \in Walks
  BY <1>2, EmptySeq DEF Fresh, Walks
<1>4. /\ walk'.at = at /\ walk'.processed = {} /\ walk'.targets = {}
      /\ walk'.page = 1 /\ walk'.total = 0 /\ walk'.status = "ok"
  BY <1>2 DEF Fresh
<1>5. WalkTyped'
  BY <1>1, <1>3, <1>4, FS_EmptySet DEF WalkTyped
<1>6. PagesRead'
  <2>1. \A p \in listed : Place(p) >= 1 /\ Place(p) \in Nat
    BY <1>1, PlacesTyped DEF WalkTyped
  <2>2. (1 - 1) * PageSize = 0
    BY WalkAssumption
  <2>3. \A p \in listed : ~(Place(p) <= (1 - 1) * PageSize)
    BY <2>1, <2>2
  <2>4. \A p \in listed : ~(Place(p)' <= (walk'.page - 1) * PageSize)
    BY <1>1, <1>4, <2>3 DEF Place, Earlier
  <2> QED BY <1>1, <2>4 DEF PagesRead
<1>7. CountHolds'
  BY <1>1, <1>4 DEF CountHolds
<1> QED BY <1>4, <1>5, <1>6, <1>7 DEF WalkInOrder, PagesInOrder, SitemapsInOrder,
      NothingTakenForGone, CompleteIsWhole, RefreshTellsGoneFromBlocked

LEMMA ProductsComeInOrder ==
    ASSUME WalkInOrder, NEW p \in Products, AddProduct(p)
    PROVE  WalkInOrder'
<1>1. /\ WalkTyped /\ adapter' = adapter /\ listed' = listed \cup {p} /\ kept' = kept
      /\ gaps' = gaps \cup {"added"} /\ walk' = walk /\ refreshed' = refreshed
      /\ walk.at \notin {"idle", "done", "refreshed"}
  BY DEF WalkInOrder, AddProduct, Walking
<1>2. WalkTyped'
  BY <1>1 DEF WalkTyped
<1>3. PagesInOrder'
  <2> SUFFICES ASSUME walk.at = "api" PROVE PagesInOrder'
    BY <1>1 DEF PagesInOrder
  <2>1. PagesRead'
    <3>1. SUFFICES ASSUME "removed" \notin gaps, NEW q \in kept,
                          Place(q)' <= (walk.page - 1) * PageSize
                   PROVE  q \in walk.targets
      BY <1>1 DEF PagesRead
    <3>2. q \in listed /\ listed' \subseteq Products /\ listed \subseteq listed'
      BY <1>1 DEF WalkTyped
    <3>3. Place(q) \in Nat /\ Place(q)' \in Nat /\ Place(q) <= Place(q)'
      BY <1>1, <3>2, PlacesOnlyGrow
    <3>4. (walk.page - 1) * PageSize \in Int
      BY <1>1, WalkAssumption DEF WalkTyped, Walks
    <3>5. Place(q) <= (walk.page - 1) * PageSize
      BY <3>1, <3>3, <3>4
    <3> QED BY <3>1, <3>5 DEF WalkInOrder, PagesInOrder, PagesRead
  <2>2. CountHolds'
    BY <1>1 DEF CountHolds
  <2> QED BY <1>1, <2>1, <2>2 DEF WalkInOrder, PagesInOrder
<1>4. SitemapsInOrder'
  <2>1. SitemapsRead => SitemapsRead'
    BY <1>1 DEF SitemapsRead
  <2> QED BY <1>1, <2>1 DEF WalkInOrder, SitemapsInOrder
<1> QED BY <1>1, <1>2, <1>3, <1>4 DEF WalkInOrder, NothingTakenForGone,
      CompleteIsWhole, RefreshTellsGoneFromBlocked

LEMMA ProductsGoInOrder ==
    ASSUME WalkInOrder, NEW p \in Products, RemoveProduct(p)
    PROVE  WalkInOrder'
<1>1. /\ WalkTyped /\ adapter' = adapter /\ listed' = listed \ {p} /\ kept' = kept \ {p}
      /\ gaps' = gaps \cup {"removed"} /\ walk' = walk /\ refreshed' = refreshed
      /\ walk.at \notin {"idle", "done", "refreshed"}
  BY DEF WalkInOrder, RemoveProduct, Walking
<1>2. WalkTyped'
  BY <1>1 DEF WalkTyped
<1>3. PagesInOrder'
  BY <1>1 DEF WalkInOrder, PagesInOrder, PagesRead, CountHolds
<1>4. SitemapsInOrder'
  <2>1. SitemapsRead => SitemapsRead'
    BY <1>1 DEF SitemapsRead
  <2> QED BY <1>1, <2>1 DEF WalkInOrder, SitemapsInOrder
<1> QED BY <1>1, <1>2, <1>3, <1>4 DEF WalkInOrder, NothingTakenForGone,
      CompleteIsWhole, RefreshTellsGoneFromBlocked

LEMMA RefreshedInOrder ==
    ASSUME WalkInOrder, NEW p \in Products, Refresh(p)
    PROVE  WalkInOrder'
<1>1. /\ WalkTyped /\ adapter' = adapter /\ listed' = listed /\ kept' = kept
      /\ gaps' = gaps /\ walk' = [walk EXCEPT !.at = "refreshed"]
  BY DEF WalkInOrder, Refresh
<1>2. PICK byId \in ByIdAnswers(p), page \in PageAnswers(p) :
         refreshed' = [of |-> p, byId |-> byId, page |-> page,
                       status |-> IF byId = "ok" THEN "ok" ELSE ExtractStatus(page)]
  BY DEF Refresh
<1>3. /\ refreshed'.of = p /\ refreshed'.page = page
      /\ refreshed'.status = IF byId = "ok" THEN "ok" ELSE ExtractStatus(page)
  BY <1>2
<1>4. /\ walk' \in Walks /\ walk'.at = "refreshed" /\ walk'.processed = walk.processed
  BY <1>1 DEF WalkTyped, Walks
<1>5. WalkTyped'
  BY <1>1, <1>3, <1>4 DEF WalkTyped
<1>6. byId = "ok" => p \in listed
  BY DEF ByIdAnswers
<1>7. ExtractStatus(page) = "ok" => p \in listed
  BY DEF ExtractStatus, PageAnswers
<1>8. ExtractStatus(page) = "unavailable" /\ p \in listed => page = "lost"
  BY DEF ExtractStatus, PageAnswers
<1>9. RefreshTellsGoneFromBlocked'
  BY <1>1, <1>3, <1>6, <1>7, <1>8 DEF RefreshTellsGoneFromBlocked
<1> QED BY <1>4, <1>5, <1>9 DEF WalkInOrder, PagesInOrder, SitemapsInOrder,
      NothingTakenForGone, CompleteIsWhole

-----------------------------------------------------------------------------
(* The queue of sitemaps.                                                  *)
LEMMA InSequence ==
    ASSUME NEW S, NEW q \in Seq(S)
    PROVE  \A x : x \in ToSet(q) <=> \E i \in 1..Len(q) : x = q[i]
<1>1. DOMAIN q = 1..Len(q)
  BY LenProperties
<1> QED BY <1>1 DEF ToSet

LEMMA SitemapsParted ==
    ASSUME NEW S, NEW q \in Seq(S), q # <<>>
    PROVE  /\ Head(q) \in S /\ Tail(q) \in Seq(S)
           /\ ToSet(q) \subseteq {Head(q)} \cup ToSet(Tail(q))
<1>1. Head(q) \in S /\ Tail(q) \in Seq(S) /\ Len(q) \in Nat \ {0}
  BY HeadTailProperties
<1>2. \A i \in 1..Len(q) : q[i] = Head(q) \/ q[i] \in ToSet(Tail(q))
  <2> SUFFICES ASSUME NEW i \in 1..Len(q), i # 1 PROVE q[i] \in ToSet(Tail(q))
    OBVIOUS
  <2>1. i - 1 \in 1..Len(Tail(q)) /\ Tail(q)[i - 1] = q[i]
    BY <1>1
  <2> QED BY <1>1, <2>1, InSequence
<1> QED BY <1>1, <1>2, InSequence

LEMMA SitemapsJoined ==
    ASSUME NEW S, NEW q \in Seq(S), NEW r \in Seq(S)
    PROVE  /\ q \o r \in Seq(S)
           /\ \A x : x \in ToSet(q \o r) <=> x \in ToSet(q) \/ x \in ToSet(r)
<1>1. q \o r \in Seq(S) /\ Len(q \o r) = Len(q) + Len(r)
  BY ConcatProperties
<1>2. \A i \in 1..Len(q) : (q \o r)[i] = q[i]
  BY ConcatProperties
<1>3. \A i \in 1..Len(r) : (q \o r)[Len(q) + i] = r[i]
  BY ConcatProperties
<1>4. \A i \in 1..Len(q \o r) : i \in 1..Len(q) \/ i - Len(q) \in 1..Len(r)
  BY <1>1
<1>5. \A i \in 1..Len(q \o r) : (q \o r)[i] \in ToSet(q) \cup ToSet(r)
  <2> SUFFICES ASSUME NEW i \in 1..Len(q \o r)
               PROVE  (q \o r)[i] \in ToSet(q) \cup ToSet(r)
    OBVIOUS
  <2>1. CASE i \in 1..Len(q)
    BY <1>2, <2>1 DEF ToSet
  <2>2. CASE i - Len(q) \in 1..Len(r)
    <3>1. i = Len(q) + (i - Len(q))
      OBVIOUS
    <3>2. (q \o r)[i] = r[i - Len(q)]
      BY <1>3, <2>2, <3>1
    <3> QED BY <2>2, <3>2 DEF ToSet
  <2> QED BY <1>4, <2>1, <2>2
<1>6. \A i \in 1..Len(q) : q[i] \in ToSet(q \o r)
  BY <1>1, <1>2 DEF ToSet
<1>7. \A i \in 1..Len(r) : r[i] \in ToSet(q \o r)
  <2> SUFFICES ASSUME NEW i \in 1..Len(r) PROVE r[i] \in ToSet(q \o r)
    OBVIOUS
  <2>1. Len(q) + i \in 1..Len(q \o r)
    BY <1>1
  <2> QED BY <1>1, <1>3, <2>1 DEF ToSet
<1>8. \A x : x \in ToSet(q \o r) <=> x \in ToSet(q) \cup ToSet(r)
  <2>1. \A x : x \in ToSet(q \o r) => x \in ToSet(q) \cup ToSet(r)
    <3> SUFFICES ASSUME NEW x \in ToSet(q \o r) PROVE x \in ToSet(q) \cup ToSet(r)
      OBVIOUS
    <3>1. PICK i \in 1..Len(q \o r) : x = (q \o r)[i]
      <4>1. PICK j \in Seq(S) : j = q \o r
        BY <1>1
      <4> QED BY <4>1, InSequence
    <3> QED BY <1>5, <3>1
  <2>2. \A x : x \in ToSet(q) => x \in ToSet(q \o r)
    BY <1>6, InSequence
  <2>3. \A x : x \in ToSet(r) => x \in ToSet(q \o r)
    BY <1>7, InSequence
  <2> QED BY <2>1, <2>2, <2>3
<1> QED BY <1>1, <1>8

(* A resolved walk starts at the roots, or at a place that happens to hold *)
(* a sitemap.                                                              *)
LEMMA ResolvedInOrder ==
    ASSUME WalkInOrder, NEW a, Resolve(a)
    PROVE  WalkInOrder'
<1>1. /\ WalkTyped /\ walk \in Walks /\ walk.at = "resolve" /\ walk.processed = {}
      /\ walk.targets = {} /\ walk.status = "ok" /\ a \in {"ok", "lost"}
      /\ adapter' = adapter /\ listed' = listed /\ kept' = kept /\ refreshed' = refreshed
      /\ gaps' = (gaps \ BadAnswers) \cup (IF a = "ok" THEN {} ELSE {"unnamed"})
  BY DEF WalkInOrder, WalkTyped, SitemapsInOrder, Resolve
<1>2. PICK found \in IF a = "ok" THEN {Roots} ELSE {<<>>} \cup {<<r>> : r \in ToSet(Roots)} :
         walk' = [walk EXCEPT !.at = "sitemaps", !.queue = found, !.works = found # <<>>]
  BY DEF Resolve
<1>3. found \in Seq(Sitemaps)
  <2>1. Roots \in Seq(Sitemaps)
    BY WalkAssumption
  <2>2. \A r \in ToSet(Roots) : r \in Sitemaps
    BY <2>1, InSequence, ElementOfSeq
  <2>3. \A r \in ToSet(Roots) : <<r>> \in Seq(Sitemaps)
    BY <2>2
  <2>4. <<>> \in Seq(Sitemaps)
    BY EmptySeq
  <2> QED BY <1>2, <2>1, <2>3, <2>4
<1>4. PICK works \in BOOLEAN : works <=> found # <<>>
  OBVIOUS
<1>5. walk' = [walk EXCEPT !.at = "sitemaps", !.queue = found, !.works = works]
  BY <1>2, <1>4
<1>6. /\ walk' \in Walks /\ walk'.at = "sitemaps" /\ walk'.queue = found
      /\ walk'.processed = {} /\ walk'.targets = {}
  BY <1>1, <1>3, <1>5 DEF Walks
<1>7. gaps' \subseteq BadAnswers \cup {"added", "removed", "unnamed"}
  BY <1>1 DEF WalkTyped
<1>8. WalkTyped'
  BY <1>1, <1>6, <1>7, FS_EmptySet DEF WalkTyped
<1>9. SitemapsRead'
  BY <1>1, <1>2, <1>6 DEF SitemapsRead
<1> QED BY <1>6, <1>8, <1>9 DEF WalkInOrder, PagesInOrder, SitemapsInOrder,
      NothingTakenForGone, CompleteIsWhole, RefreshTellsGoneFromBlocked

LEMMA SkippedInOrder ==
    ASSUME WalkInOrder, SkipSitemap
    PROVE  WalkInOrder'
<1>1. /\ WalkTyped /\ walk \in Walks /\ walk.at = "sitemaps" /\ walk.queue # <<>>
      /\ walk.queue \in Seq(Sitemaps) /\ Head(walk.queue) \in walk.processed
      /\ adapter' = adapter /\ listed' = listed /\ kept' = kept /\ refreshed' = refreshed
      /\ gaps' = gaps /\ walk' = [walk EXCEPT !.queue = Tail(@)]
  BY DEF WalkInOrder, WalkTyped, Walks, SkipSitemap, SitemapsGoOn
<1>2. PICK rest \in Seq(Sitemaps) : /\ rest = Tail(walk.queue)
                                    /\ ToSet(walk.queue) \subseteq walk.processed \cup ToSet(rest)
  BY <1>1, SitemapsParted
<1>3. walk' = [walk EXCEPT !.queue = rest]
  BY <1>1, <1>2
<1>4. /\ walk' \in Walks /\ walk'.at = "sitemaps" /\ walk'.queue = rest
      /\ walk'.processed = walk.processed /\ walk'.targets = walk.targets
      /\ walk'.status = walk.status
  BY <1>1, <1>3 DEF Walks
<1>5. WalkTyped'
  BY <1>1, <1>4 DEF WalkTyped
<1>6. SitemapsRead'
  <2>1. SitemapsRead
    BY <1>1 DEF WalkInOrder, SitemapsInOrder
  <2>2. walk.processed \cup ToSet(walk.queue) \subseteq walk.processed \cup ToSet(rest)
    BY <1>2
  <2>3. SUFFICES ASSUME walk.status = "ok", gaps \cap {"noise", "unnamed"} = {}
                 PROVE  SitemapsRead'
    BY <1>1, <1>4 DEF SitemapsRead
  <2>4. /\ ToSet(Roots) \subseteq walk.processed \cup ToSet(rest)
        /\ \A sm \in walk.processed :
              ToSet(ChildrenOf[sm]) \subseteq walk.processed \cup ToSet(rest)
    BY <2>1, <2>2, <2>3 DEF SitemapsRead
  <2>5. Cardinality(walk.targets) < MaxUrls =>
           \A p \in kept : SitemapOf[p] \in walk.processed => p \in walk.targets
    BY <2>1, <2>3 DEF SitemapsRead
  <2> QED BY <1>1, <1>4, <2>4, <2>5 DEF SitemapsRead
<1> QED BY <1>1, <1>4, <1>5, <1>6 DEF WalkInOrder, PagesInOrder, SitemapsInOrder,
      NothingTakenForGone, CompleteIsWhole, RefreshTellsGoneFromBlocked

(* A sitemap that is read names its children and gives its products.       *)
LEMMA SitemapReadInOrder ==
    ASSUME WalkTyped, walk.at = "sitemaps", SitemapsRead, SitemapsGoOn(walk),
           NEW sm, sm = Head(walk.queue),
           NEW rest \in Seq(Sitemaps), rest = Tail(walk.queue),
           ToSet(walk.queue) \subseteq {sm} \cup ToSet(rest), sm \in Sitemaps,
           NEW ts \in UpToMaxUrls(walk.targets, Listing(sm)),
           walk'.queue = rest \o ChildrenOf[sm], walk'.targets = ts,
           walk'.processed = walk.processed \cup {sm}, walk'.status = walk.status,
           gaps' = gaps, kept' = kept
    PROVE  SitemapsRead'
<1>1. ChildrenOf[sm] \in Seq(Sitemaps)
  BY WalkAssumption
<1>2. ToSet(walk'.queue) = ToSet(rest) \cup ToSet(ChildrenOf[sm])
  <2>1. PICK kids \in Seq(Sitemaps) : kids = ChildrenOf[sm]
    BY <1>1
  <2>2. \A x : x \in ToSet(rest \o kids) <=> x \in ToSet(rest) \/ x \in ToSet(kids)
    BY SitemapsJoined
  <2>3. PICK A : A = ToSet(rest \o kids)
    OBVIOUS
  <2>4. A = ToSet(rest) \cup ToSet(kids)
    BY <2>2, <2>3
  <2> QED BY <2>1, <2>3, <2>4
<1>3. PICK named : named = walk'.processed \cup ToSet(walk'.queue)
  OBVIOUS
<1>4. walk.processed \cup ToSet(walk.queue) \subseteq named
  BY <1>2, <1>3
<1>5. ToSet(ChildrenOf[sm]) \subseteq named
  BY <1>2, <1>3
<1>6. SUFFICES ASSUME walk.status = "ok", gaps \cap {"noise", "unnamed"} = {}
               PROVE  SitemapsRead'
  BY DEF SitemapsRead
<1>7. ToSet(Roots) \subseteq named
  BY <1>4, <1>6 DEF SitemapsRead
<1>8. \A s \in walk'.processed : ToSet(ChildrenOf[s]) \subseteq named
  <2>1. \A s \in walk.processed : ToSet(ChildrenOf[s]) \subseteq named
    BY <1>4, <1>6 DEF SitemapsRead
  <2> QED BY <1>5, <2>1
<1>9. ASSUME Cardinality(ts) < MaxUrls, NEW p \in kept, SitemapOf[p] \in walk'.processed
      PROVE  p \in ts
  <2>1. ts = walk.targets \cup Listing(sm)
    <3>1. MaxUrls \in Nat /\ ~(MaxUrls < MaxUrls)
      BY WalkAssumption
    <3>2. Cardinality(ts) # MaxUrls
      BY <1>9, <3>1
    <3> QED BY <3>2 DEF UpToMaxUrls
  <2>2. CASE SitemapOf[p] = sm
    BY <2>1, <2>2 DEF Listing, WalkTyped
  <2>3. CASE SitemapOf[p] \in walk.processed
    <3>1. p \in walk.targets
      BY <1>6, <2>3 DEF SitemapsRead, SitemapsGoOn
    <3> QED BY <2>1, <3>1
  <2> QED BY <1>9, <2>2, <2>3
<1>10. Cardinality(walk'.targets) < MaxUrls =>
          \A p \in kept' : SitemapOf[p] \in walk'.processed => p \in walk'.targets
  BY <1>9
<1> QED BY <1>3, <1>7, <1>8, <1>10 DEF SitemapsRead

LEMMA AskedSitemapInOrder ==
    ASSUME WalkInOrder, NEW a \in BadAnswers \cup {"ok"}, AskSitemap(a)
    PROVE  WalkInOrder'
<1>1. /\ WalkTyped /\ walk \in Walks /\ walk.at = "sitemaps" /\ SitemapsGoOn(walk)
      /\ walk.queue # <<>> /\ walk.queue \in Seq(Sitemaps)
      /\ walk.processed \subseteq Sitemaps /\ walk.targets \subseteq Products
      /\ adapter' = adapter /\ listed' = listed /\ kept' = kept /\ refreshed' = refreshed
      /\ Answers(a) /\ SitemapsRead
  BY DEF WalkInOrder, WalkTyped, Walks, AskSitemap, SitemapsGoOn, SitemapsInOrder
<1>2. PICK sm \in Sitemaps, rest \in Seq(Sitemaps) :
         /\ sm = Head(walk.queue) /\ rest = Tail(walk.queue)
         /\ ToSet(walk.queue) \subseteq {sm} \cup ToSet(rest)
  BY <1>1, SitemapsParted
<1>3. /\ gaps' \subseteq BadAnswers \cup {"added", "removed", "unnamed"}
      /\ a = "ok" => gaps' = gaps
      /\ a # "ok" => a \in gaps'
  <2>1. CASE a = "ok"
    BY <1>1, <2>1 DEF Answers, WalkTyped
  <2>2. CASE a # "ok"
    BY <1>1, <2>2 DEF Answers, WalkTyped
  <2> QED BY <2>1, <2>2
<1>4. PICK seen : seen = walk.processed \cup {sm}
  OBVIOUS
<1>5. seen \subseteq Sitemaps /\ IsFiniteSet(seen) /\ IsFiniteSet(walk.processed)
  <2>1. IsFiniteSet(walk.processed)
    BY <1>1 DEF WalkTyped
  <2> QED BY <1>1, <1>4, <2>1, FS_AddElement
<1>6. walk' \in Walks /\ IsFiniteSet(walk'.processed) => WalkTyped'
  BY <1>1, <1>3 DEF WalkTyped
<1>7. CASE a = "late"
  <2>1. walk' = [walk EXCEPT !.status = "partial", !.at = "categories"]
    BY <1>7 DEF AskSitemap
  <2>2. /\ walk' \in Walks /\ walk'.at = "categories" /\ walk'.status = "partial"
        /\ walk'.processed = walk.processed
    BY <1>1, <2>1 DEF Walks
  <2> QED BY <1>5, <1>6, <2>2 DEF WalkInOrder, PagesInOrder, SitemapsInOrder,
        NothingTakenForGone, CompleteIsWhole, RefreshTellsGoneFromBlocked
<1>8. CASE a = "ok"
  <2>1. PICK ts \in UpToMaxUrls(walk.targets, Listing(sm)) :
           walk' = [[walk EXCEPT !.queue = Tail(@), !.processed = @ \cup {sm}]
                       EXCEPT !.queue = @ \o ChildrenOf[sm], !.targets = ts]
    BY <1>2, <1>8 DEF AskSitemap
  <2>2. ts \subseteq Products
    BY <1>1 DEF UpToMaxUrls, Listing, WalkTyped
  <2>3. PICK waiting \in Seq(Sitemaps) : waiting = rest \o ChildrenOf[sm]
    <3>1. ChildrenOf[sm] \in Seq(Sitemaps)
      BY WalkAssumption
    <3> QED BY <3>1, SitemapsJoined
  <2>4. walk' = [walk EXCEPT !.queue = waiting, !.processed = seen, !.targets = ts]
    BY <1>1, <1>2, <1>4, <2>1, <2>3 DEF Walks
  <2>5. walk' \in Walks
    BY <1>1, <1>5, <2>2, <2>4 DEF Walks
  <2>6. /\ walk'.at = "sitemaps" /\ walk'.queue = waiting /\ walk'.processed = seen
        /\ walk'.targets = ts /\ walk'.status = walk.status
    BY <1>1, <2>4 DEF Walks
  <2>7. SitemapsRead'
    BY <1>1, <1>2, <1>3, <1>4, <1>8, <2>3, <2>6, SitemapReadInOrder
  <2>8. walk'.processed # {}
    BY <1>4, <2>6
  <2> QED BY <1>5, <1>6, <2>5, <2>6, <2>7, <2>8 DEF WalkInOrder, PagesInOrder,
        SitemapsInOrder, NothingTakenForGone, CompleteIsWhole,
        RefreshTellsGoneFromBlocked
<1>9. CASE a \notin {"late", "ok"}
  <2>1. walk' = [[walk EXCEPT !.queue = Tail(@), !.processed = @ \cup {sm}]
                    EXCEPT !.status = SitemapStatus(a, @)]
    BY <1>2, <1>9 DEF AskSitemap
  <2>2. PICK s \in {"ok", "partial"} \cup Blocks : s = SitemapStatus(a, walk.status)
    BY <1>1 DEF SitemapStatus, Walks
  <2>3. walk' = [walk EXCEPT !.queue = rest, !.processed = seen, !.status = s]
    BY <1>1, <1>2, <1>4, <2>1, <2>2 DEF Walks
  <2>4. walk' \in Walks
    BY <1>1, <1>2, <1>5, <2>3 DEF Walks
  <2>5. /\ walk'.at = "sitemaps" /\ walk'.processed = seen /\ walk'.status = s
    BY <1>1, <2>3 DEF Walks
  <2>6. s # "ok" \/ a = "noise"
    BY <1>9, <2>2 DEF SitemapStatus, BadAnswers, Blocks
  <2>7. SitemapsRead'
    BY <1>3, <1>9, <2>5, <2>6 DEF SitemapsRead
  <2>8. walk'.processed # {}
    BY <1>4, <2>5
  <2> QED BY <1>5, <1>6, <2>4, <2>5, <2>7, <2>8 DEF WalkInOrder, PagesInOrder,
        SitemapsInOrder, NothingTakenForGone, CompleteIsWhole,
        RefreshTellsGoneFromBlocked
<1> QED BY <1>7, <1>8, <1>9

(* A walk over the sitemaps that calls itself complete has emptied its     *)
(* queue, so that the sitemaps it processed are closed under naming.       *)
LEMMA EndedInOrder ==
    ASSUME WalkInOrder, EndSitemaps
    PROVE  WalkInOrder'
<1>1. /\ WalkTyped /\ walk \in Walks /\ SitemapsInOrder
      /\ walk.at = "categories" \/ (walk.at = "sitemaps" /\ ~SitemapsGoOn(walk))
      /\ adapter' = adapter /\ listed' = listed /\ kept' = kept /\ refreshed' = refreshed
      /\ gaps' = gaps
  <2>1. WalkTyped /\ walk \in Walks /\ SitemapsInOrder
    BY DEF WalkInOrder, WalkTyped
  <2>2. walk.at = "categories" \/ (walk.at = "sitemaps" /\ ~SitemapsGoOn(walk))
    BY DEF EndSitemaps
  <2>3. /\ adapter' = adapter /\ listed' = listed /\ kept' = kept
        /\ refreshed' = refreshed /\ gaps' = gaps
    BY DEF EndSitemaps
  <2> QED BY <2>1, <2>2, <2>3
<1> DEFINE Left(links) ==
        [walk EXCEPT !.at = "done", !.targets = @ \cup links,
            !.status = IF links # {} /\ @ = "ok" THEN "partial" ELSE @]
<1>2. PICK links \in IF walk.targets = {} THEN SUBSET listed ELSE {{}} :
         walk' = [Left(links) EXCEPT !.completeness = BaseComplete(Left(links))]
  BY DEF EndSitemaps
<1>0. PICK w : w = Left(links)
  OBVIOUS
<1>3. PICK ts \in SUBSET Products : ts = walk.targets \cup links
  BY <1>1, <1>2 DEF WalkTyped, Walks
<1>4. PICK s \in {"ok", "partial"} \cup Blocks :
         s = IF links # {} /\ walk.status = "ok" THEN "partial" ELSE walk.status
  BY <1>1 DEF Walks
<1>5. w = [walk EXCEPT !.at = "done", !.targets = ts, !.status = s]
  BY <1>0, <1>1, <1>3, <1>4 DEF Walks
<1>6. /\ w \in Walks /\ w.at = "done" /\ w.targets = ts /\ w.status = s
      /\ w.processed = walk.processed
  BY <1>1, <1>5 DEF Walks
<1>7. PICK c \in {"complete", "partial", "unknown"} : c = BaseComplete(w)
  BY DEF BaseComplete
<1>8. walk' = [w EXCEPT !.completeness = c]
  BY <1>0, <1>2, <1>7
<1>9. /\ walk' \in Walks /\ walk'.at = "done" /\ walk'.targets = ts
      /\ walk'.processed = walk.processed /\ walk'.completeness = c
  BY <1>6, <1>8 DEF Walks
<1>10. WalkTyped'
  BY <1>1, <1>9 DEF WalkTyped
<1>11. ASSUME c = "complete", ~Unnoticed' PROVE kept' \subseteq walk'.targets
  <2>1. s = "ok" /\ ts # {}
    BY <1>6, <1>7, <1>11 DEF BaseComplete
  <2>2. walk.status = "ok" /\ links = {} /\ ts = walk.targets
    BY <1>3, <1>4, <2>1
  <2>3. walk.at = "sitemaps" /\ ~SitemapsGoOn(walk) /\ walk.processed # {} /\ SitemapsRead
    BY <1>1, <2>1, <2>2 DEF SitemapsInOrder
  <2>4. ~AtALimit' /\ gaps \cap {"noise", "unnamed"} = {}
    BY <1>1, <1>9, <1>11, <2>3 DEF Unnoticed
  <2>5. PICK n \in Nat, m \in Nat : n = Cardinality(walk.processed)
                                 /\ m = Cardinality(walk.targets)
    <3>1. IsFiniteSet(walk.processed)
      BY <1>1 DEF WalkTyped
    <3>2. IsFiniteSet(ts)
      BY ProductsFinite, FS_Subset
    <3> QED BY <2>2, <3>1, <3>2, FS_CardinalityType
  <2>6. ~(m >= MaxUrls) /\ ~(n >= MaxSitemaps)
    BY <1>9, <2>2, <2>4, <2>5 DEF AtALimit
  <2>7. m < MaxUrls /\ n < MaxSitemaps
    BY <2>6, WalkAssumption
  <2>8. walk.queue = <<>>
    BY <2>3, <2>5, <2>7 DEF SitemapsGoOn
  <2>9. ToSet(walk.queue) = {}
    BY <2>8 DEF ToSet
  <2>10. /\ ToSet(Roots) \subseteq walk.processed
         /\ \A sm \in walk.processed : ToSet(ChildrenOf[sm]) \subseteq walk.processed
         /\ \A p \in kept : SitemapOf[p] \in walk.processed => p \in walk.targets
    BY <2>2, <2>3, <2>4, <2>5, <2>7, <2>9 DEF SitemapsRead
  <2>11. walk.processed \in SUBSET Sitemaps
    BY <1>1 DEF Walks
  <2>12. \A p \in Products : SitemapOf[p] \in walk.processed
    BY <2>10, <2>11, WalkAssumption
  <2>13. kept \subseteq Products
    BY <1>1 DEF WalkTyped
  <2> QED BY <1>1, <1>9, <2>2, <2>10, <2>12, <2>13
<1>12. CompleteIsWhole'
  BY <1>9, <1>11 DEF CompleteIsWhole
<1> QED BY <1>9, <1>10, <1>12 DEF WalkInOrder, PagesInOrder, SitemapsInOrder,
      NothingTakenForGone, RefreshTellsGoneFromBlocked

-----------------------------------------------------------------------------
LEMMA WalkStaysInOrder == WalkInOrder /\ [WalkNext]_walkVars => WalkInOrder'
<1> SUFFICES ASSUME WalkInOrder, [WalkNext]_walkVars PROVE WalkInOrder'
  OBVIOUS
<1>1. CASE BeginWalk
  BY <1>1, WalkBegunInOrder
<1>2. CASE SkipSitemap
  BY <1>2, SkippedInOrder
<1>3. CASE EndSitemaps
  BY <1>3, EndedInOrder
<1>4. ASSUME NEW a \in BadAnswers \cup {"ok"}, NEW reported \in BOOLEAN,
             AskApi(a, reported)
      PROVE  WalkInOrder'
  BY <1>4, AskedApiInOrder
<1>5. ASSUME NEW a \in BadAnswers \cup {"ok"}, Resolve(a) PROVE WalkInOrder'
  BY <1>5, ResolvedInOrder
<1>6. ASSUME NEW a \in BadAnswers \cup {"ok"}, AskSitemap(a) PROVE WalkInOrder'
  BY <1>6, AskedSitemapInOrder
<1>7. ASSUME NEW p \in Products, AddProduct(p) PROVE WalkInOrder'
  BY <1>7, ProductsComeInOrder
<1>8. ASSUME NEW p \in Products, RemoveProduct(p) PROVE WalkInOrder'
  BY <1>8, ProductsGoInOrder
<1>9. ASSUME NEW p \in Products, Refresh(p) PROVE WalkInOrder'
  BY <1>9, RefreshedInOrder
<1>10. CASE UNCHANGED walkVars
  <2>1. /\ adapter' = adapter /\ listed' = listed /\ walk' = walk /\ kept' = kept
        /\ gaps' = gaps /\ refreshed' = refreshed
    BY <1>10 DEF walkVars
  <2>2. WalkTyped'
    BY <2>1 DEF WalkInOrder, WalkTyped
  <2>3. PagesInOrder'
    BY <2>1 DEF WalkInOrder, PagesInOrder, PagesRead, CountHolds, Place, Earlier
  <2>4. SitemapsInOrder'
    BY <2>1 DEF WalkInOrder, SitemapsInOrder, SitemapsRead
  <2>5. Unnoticed' <=> Unnoticed
    BY <2>1 DEF Unnoticed, AtALimit
  <2>6. NothingTakenForGone'
    BY <2>1, <2>5 DEF WalkInOrder, NothingTakenForGone, CompleteIsWhole,
        RefreshTellsGoneFromBlocked
  <2> QED BY <2>2, <2>3, <2>4, <2>6 DEF WalkInOrder
<1> QED BY <1>1, <1>2, <1>3, <1>4, <1>5, <1>6, <1>7, <1>8, <1>9, <1>10 DEF WalkNext

(* The locals of a walk keep their types.                                  *)
THEOREM WalkTypesHold == WalkSpec => []WalkTypeOK
<1>1. WalkInOrder => WalkTypeOK
  BY DEF WalkInOrder, WalkTyped, WalkTypeOK, Walks
<1> QED BY <1>1, WalkStartsInOrder, WalkStaysInOrder, PTL DEF WalkSpec

(* Whatever a shop adds, removes or answers on the way, targets that are   *)
(* called complete have every product that was listed all along, but for   *)
(* what that way of walking cannot notice; and a refresh calls a listed    *)
(* product unavailable only when no answer came.                           *)
THEOREM NothingTakenAlways == WalkSpec => []NothingTakenForGone
<1>1. WalkInOrder => NothingTakenForGone
  BY DEF WalkInOrder
<1> QED BY <1>1, WalkStartsInOrder, WalkStaysInOrder, PTL DEF WalkSpec

-----------------------------------------------------------------------------
(* MarketPosition.  The sorted offers are all the valid ones, each at the  *)
(* place that the number of cheaper ones gives it; the rank of a price is  *)
(* the place of the first of its offers.                                   *)

MarketRows == offers \in [Shops -> [price : Prices, stale : BOOLEAN] \cup {NoOffer}]

MarketInv ==
    /\ MarketRows
    /\ \/ position = NotRanked
       \/ Collected # {} /\ position = IF Valid = {} THEN Unranked ELSE Computed

LEMMA ValidTyped ==
    ASSUME MarketRows
    PROVE  /\ Valid \subseteq Shops /\ Valid \subseteq Int /\ IsFiniteSet(Valid)
           /\ Cardinality(Valid) \in Nat
           /\ \A s \in Valid : Price(s) \in Nat \ {0}
<1>1. Valid \subseteq Shops
  BY DEF Valid
<1>2. Shops \subseteq Int /\ IsFiniteSet(Shops)
  BY FS_Interval, MarketAssumption DEF Shops
<1>3. \A s \in Valid : Price(s) \in Nat \ {0}
  BY MarketAssumption DEF Valid, Price, MarketRows
<1>4. IsFiniteSet(Valid)
  BY <1>1, <1>2, FS_Subset
<1> QED BY <1>1, <1>2, <1>3, <1>4, FS_CardinalityType

(* By price and shop the valid offers are in a strict order.               *)
LEMMA CheaperOrders ==
    ASSUME MarketRows
    PROVE  /\ \A s \in Valid : ~Cheaper(s, s)
           /\ \A s, t \in Valid : s # t => Cheaper(s, t) \/ Cheaper(t, s)
           /\ \A s, t, u \in Valid : Cheaper(s, t) /\ Cheaper(t, u) => Cheaper(s, u)
           /\ \A s, t \in Valid : Cheaper(s, t) => Price(s) <= Price(t)
<1> DEFINE P(s) == Price(s)
<1>1. \A s \in Valid : s \in Int /\ P(s) \in Int
  BY ValidTyped
<1>2. \A s, t : Cheaper(s, t) <=> P(s) < P(t) \/ (P(s) = P(t) /\ s < t)
  BY DEF Cheaper
<1> HIDE DEF P
<1>3. /\ \A s \in Valid : ~Cheaper(s, s)
      /\ \A s, t \in Valid : s # t => Cheaper(s, t) \/ Cheaper(t, s)
      /\ \A s, t, u \in Valid : Cheaper(s, t) /\ Cheaper(t, u) => Cheaper(s, u)
      /\ \A s, t \in Valid : Cheaper(s, t) => P(s) <= P(t)
  BY <1>1, <1>2
<1> QED BY <1>3 DEF P

(* What stands at some places of a list is no more than the places.        *)
LEMMA AtThePlaces ==
    ASSUME NEW q, NEW I, IsFiniteSet(I), NEW S, \A s \in S : \E i \in I : q[i] = s
    PROVE  IsFiniteSet(S) /\ Cardinality(S) <= Cardinality(I)
<1> DEFINE J == {i \in I : q[i] \in S}
           g == [i \in J |-> q[i]]
<1>1. IsFiniteSet(J) /\ Cardinality(J) <= Cardinality(I)
  BY FS_Subset
<1>2. g \in Surjection(J, S)
  BY DEF Surjection
<1>3. IsFiniteSet(S) /\ Cardinality(S) <= Cardinality(J)
  BY <1>1, <1>2, FS_Surjection
<1>4. Cardinality(I) \in Nat /\ Cardinality(J) \in Nat /\ Cardinality(S) \in Nat
  BY <1>1, <1>3, FS_CardinalityType
<1> HIDE DEF J, g
<1> QED BY <1>1, <1>3, <1>4

LEMMA SortedOffers ==
    ASSUME MarketRows, NEW n, n = Cardinality(Valid)
    PROVE  /\ ByPrice \in [1..n -> Valid]
           /\ \A i, j \in 1..n : i < j => Cheaper(ByPrice[i], ByPrice[j])
           /\ \A s \in Valid : \E i \in 1..n : ByPrice[i] = s
<1> DEFINE Under(s) == {t \in Valid : Cheaper(t, s)}
           pos == [s \in Valid |-> Cardinality(Under(s)) + 1]
           q == [i \in 1..n |-> CHOOSE s \in Valid : pos[s] = i]
           InOrder(f) == \A i, j \in DOMAIN f : i < j => Cheaper(f[i], f[j])
<1>1. n \in Nat /\ IsFiniteSet(Valid)
  BY ValidTyped
<1>2. IsFiniteSet(1..n) /\ Cardinality(1..n) = n
  BY <1>1, FS_Interval
<1>3. ASSUME NEW s \in Valid
      PROVE  /\ IsFiniteSet(Under(s)) /\ Cardinality(Under(s)) \in Nat
             /\ Cardinality(Under(s)) + 1 <= n
  <2>1. Under(s) \subseteq Valid \ {s}
    BY CheaperOrders
  <2>2. IsFiniteSet(Valid \ {s}) /\ Cardinality(Valid \ {s}) = n - 1
    BY <1>1, FS_RemoveElement
  <2>3. IsFiniteSet(Under(s)) /\ Cardinality(Under(s)) <= n - 1
    BY <2>1, <2>2, FS_Subset
  <2> HIDE DEF Under
  <2> QED BY <1>1, <2>3, FS_CardinalityType
<1>4. ASSUME NEW s \in Valid, NEW t \in Valid, Cheaper(s, t) PROVE pos[s] < pos[t]
  <2>1. Under(s) \cup {s} \subseteq Under(t) /\ s \notin Under(s)
    BY <1>4, CheaperOrders
  <2>2. IsFiniteSet(Under(s) \cup {s}) /\ Cardinality(Under(s) \cup {s}) = Cardinality(Under(s)) + 1
    BY <1>3, <2>1, FS_AddElement
  <2>3. Cardinality(Under(s) \cup {s}) <= Cardinality(Under(t))
    BY <1>3, <2>1, FS_Subset
  <2>4. pos[s] = Cardinality(Under(s)) + 1 /\ pos[t] = Cardinality(Under(t)) + 1
    OBVIOUS
  <2>5. Cardinality(Under(s)) \in Nat /\ Cardinality(Under(t)) \in Nat
    BY <1>3
  <2> HIDE DEF Under, pos
  <2> QED BY <2>2, <2>3, <2>4, <2>5
<1>5. pos \in [Valid -> 1..n]
  <2> HIDE DEF Under
  <2> QED BY <1>1, <1>3
<1>6. \A s, t \in Valid : pos[s] = pos[t] => s = t
  <2> SUFFICES ASSUME NEW s \in Valid, NEW t \in Valid, pos[s] = pos[t], s # t PROVE FALSE
    OBVIOUS
  <2>1. Cheaper(s, t) \/ Cheaper(t, s)
    BY CheaperOrders
  <2>2. pos[s] < pos[t] \/ pos[t] < pos[s]
    BY <1>4, <2>1
  <2>3. pos[s] \in Int /\ pos[t] \in Int
    BY <1>5
  <2> HIDE DEF pos
  <2> QED BY <2>2, <2>3
<1>7. \A i \in 1..n : \E s \in Valid : pos[s] = i
  <2> HIDE DEF pos
  <2>1. pos \in Injection(Valid, 1..n)
    BY <1>5, <1>6 DEF Injection, IsInjective
  <2>2. pos \in Surjection(Valid, 1..n)
    BY <1>2, <2>1, FS_Injection
  <2> QED BY <2>2 DEF Surjection
<1>8. q \in [1..n -> Valid] /\ \A i \in 1..n : pos[q[i]] = i
  <2> HIDE DEF pos
  <2> QED BY <1>7
<1>9. InOrder(q)
  <2> SUFFICES ASSUME NEW i \in 1..n, NEW j \in 1..n, i < j, ~Cheaper(q[i], q[j]) PROVE FALSE
    <3> HIDE DEF q
    <3> QED BY <1>8
  <2>1. q[i] \in Valid /\ q[j] \in Valid /\ pos[q[i]] = i /\ pos[q[j]] = j
    BY <1>8
  <2> HIDE DEF q, pos
  <2>2. q[i] # q[j]
    BY <1>1, <2>1
  <2>3. Cheaper(q[j], q[i])
    BY <2>1, <2>2, CheaperOrders
  <2>4. j < i
    BY <1>4, <2>1, <2>3
  <2> QED BY <2>4
<1>10. ByPrice \in [1..n -> Valid] /\ InOrder(ByPrice)
  <2>1. ByPrice = CHOOSE f \in [1..n -> Valid] : InOrder(f)
    BY DEF ByPrice
  <2> HIDE DEF q, InOrder
  <2> QED BY <1>8, <1>9, <2>1
<1>11. ByPrice \in Injection(1..n, Valid)
  <2>1. ASSUME NEW i \in 1..n, NEW j \in 1..n, i # j PROVE ByPrice[i] # ByPrice[j]
    <3>1. i < j \/ j < i
      BY <1>1, <2>1
    <3>2. Cheaper(ByPrice[i], ByPrice[j]) \/ Cheaper(ByPrice[j], ByPrice[i])
      BY <1>10, <3>1
    <3> QED BY <1>10, <3>2, CheaperOrders
  <2> QED BY <1>10, <2>1 DEF Injection, IsInjective
<1>12. ByPrice \in Surjection(1..n, Valid)
  BY <1>1, <1>2, <1>11, FS_Injection
<1> QED BY <1>10, <1>12 DEF Surjection

(* An offer's rank is the number of the cheaper ones and one.              *)
CheaperThan(s) == {t \in Valid : Price(t) < Price(s)}

LEMMA RankCounts ==
    ASSUME MarketRows, NEW n, n = Cardinality(Valid), NEW i \in 1..n
    PROVE  RankAt(ByPrice)[i] = 1 + Cardinality(CheaperThan(ByPrice[i]))
<1> DEFINE q == ByPrice
           P(j) == Price(q[j])
           Step(f) == [j \in 1..n |-> IF j > 1 /\ P(j) = P(j - 1) THEN f[j - 1] ELSE j]
           count == [j \in 1..n |-> 1 + Cardinality(CheaperThan(q[j]))]
           rank == CHOOSE f : f = Step(f)
<1>1. /\ n \in Nat /\ IsFiniteSet(Valid) /\ q \in [1..n -> Valid]
      /\ \A s \in Valid : Price(s) \in Nat
      /\ \A j, k \in 1..n : j < k => Price(q[j]) <= Price(q[k])
      /\ \A j, k \in 1..n : j < k => q[j] # q[k]
      /\ \A s \in Valid : \E j \in 1..n : q[j] = s
  <2>1. n \in Nat /\ IsFiniteSet(Valid) /\ \A s \in Valid : Price(s) \in Nat
    BY ValidTyped
  <2>2. q \in [1..n -> Valid] /\ \A s \in Valid : \E j \in 1..n : q[j] = s
    BY SortedOffers
  <2>3. \A j, k \in 1..n : j < k => Cheaper(q[j], q[k]) /\ q[j] \in Valid /\ q[k] \in Valid
    BY <2>2, SortedOffers
  <2> QED BY <2>1, <2>2, <2>3, CheaperOrders
<1>2. RankAt(q) = rank
  <2>1. Len(q) = n
    BY <1>1
  <2> QED BY <2>1 DEF RankAt
<1> HIDE DEF q
<1>3. ASSUME NEW j \in 1..n, j > 1, P(j) = P(j - 1)
      PROVE  count[j] = count[j - 1]
  <2>1. CheaperThan(q[j]) = CheaperThan(q[j - 1])
    BY <1>3 DEF CheaperThan
  <2>2. j - 1 \in 1..n
    BY <1>1, <1>3
  <2> QED BY <2>1, <2>2
<1>4. ASSUME NEW j \in 1..n, ~(j > 1 /\ P(j) = P(j - 1))
      PROVE  count[j] = j
  <2> DEFINE I == 1..(j - 1)
             C == CheaperThan(q[j])
  <2>1. IsFiniteSet(I) /\ Cardinality(I) = j - 1 /\ I \subseteq 1..n
    <3>1. j \in Int /\ j >= 1 /\ j <= n /\ j - 1 \in Int
      BY <1>1
    <3>2. IsFiniteSet(1..(j - 1)) /\ Cardinality(1..(j - 1)) = IF 1 > j - 1 THEN 0 ELSE j - 1 - 1 + 1
      BY <3>1, FS_Interval
    <3> QED BY <1>1, <3>1, <3>2
  <2>2. \A k \in I : P(k) < P(j)
    <3> SUFFICES ASSUME NEW k \in I PROVE P(k) < P(j)
      OBVIOUS
    <3>1. j > 1 /\ j - 1 \in 1..n /\ (k = j - 1 \/ k < j - 1) /\ k \in 1..n
      BY <1>1
    <3>2. q[k] \in Valid /\ q[j] \in Valid /\ q[j - 1] \in Valid
      BY <1>1, <3>1
    <3>3. P(k) \in Nat /\ P(j) \in Nat /\ P(j - 1) \in Nat
      BY <1>1, <3>2
    <3>4. P(k) <= P(j - 1) /\ P(j - 1) <= P(j)
      BY <1>1, <3>1, <3>3
    <3> HIDE DEF P
    <3> QED BY <1>4, <3>1, <3>3, <3>4
  <2>3. \A s \in C : \E k \in I : q[k] = s
    <3> SUFFICES ASSUME NEW s \in C PROVE \E k \in I : q[k] = s
      OBVIOUS
    <3>1. s \in Valid /\ Price(s) < P(j)
      BY DEF CheaperThan
    <3>2. PICK k \in 1..n : q[k] = s
      BY <1>1, <3>1
    <3>3. k \notin j..n
      <4> SUFFICES ASSUME k \in j..n PROVE FALSE
        OBVIOUS
      <4>1. P(j) <= P(k) /\ P(j) \in Nat /\ P(k) \in Nat
        BY <1>1
      <4> QED BY <3>1, <3>2, <4>1
    <3> QED BY <1>1, <3>2, <3>3
  <2>4. [k \in I |-> q[k]] \in Bijection(I, C)
    <3> DEFINE g == [k \in I |-> q[k]]
    <3>1. \A k \in I : q[k] \in C
      BY <1>1, <2>1, <2>2 DEF CheaperThan
    <3>2. \A k, m \in I : q[k] = q[m] => k = m
      BY <1>1, <2>1
    <3>3. g \in Injection(I, C)
      BY <3>1, <3>2 DEF Injection, IsInjective
    <3>4. g \in Surjection(I, C)
      BY <2>3, <3>1 DEF Surjection
    <3> QED BY <3>3, <3>4 DEF Bijection
  <2>5. Cardinality(C) = j - 1
    BY <2>1, <2>4, FS_Bijection DEF ExistsBijection
  <2> QED BY <1>1, <2>5
<1>5. count = Step(count)
  <2> SUFFICES ASSUME NEW j \in 1..n PROVE count[j] = Step(count)[j]
    <3> HIDE DEF count
    <3>1. count = [j \in 1..n |-> count[j]]
      BY DEF count
    <3> QED BY <3>1
  <2> HIDE DEF count, P
  <2> QED BY <1>3, <1>4
<1> HIDE DEF count, P
<1>6. rank = Step(rank)
  <2> HIDE DEF Step
  <2> QED BY <1>5
<1> HIDE DEF rank
<1>7. ASSUME rank[i] # count[i] PROVE FALSE
  <2> DEFINE B == {j \in 1..n : rank[j] # count[j]}
             R == {d \in Int \X Int : d[1] <= d[2]}
  <2>1. IsFiniteSet(B) /\ B # {} /\ B \subseteq Int
    <3>1. IsFiniteSet(1..n)
      BY <1>1, FS_Interval
    <3>2. B \in SUBSET (1..n) /\ i \in B
      BY <1>7
    <3> HIDE DEF B
    <3>3. IsFiniteSet(B)
      BY <3>1, <3>2, FS_Subset
    <3> QED BY <1>1, <3>2, <3>3
  <2>2. PICK m \in B : \A x \in B : <<m, x>> \in R
    <3>1. \A x, y \in B : <<x, y>> \in R \/ <<y, x>> \in R
      BY <2>1
    <3>2. \A x, y, z \in B : <<x, y>> \in R /\ <<y, z>> \in R => <<x, z>> \in R
      BY <2>1
    <3> HIDE DEF B, R
    <3> QED BY <2>1, <3>1, <3>2, FiniteHasFirst
  <2>3. m \in 1..n /\ rank[m] # count[m] /\ \A x \in B : m <= x
    BY <2>2
  <2>4. CASE m > 1 /\ P(m) = P(m - 1)
    <3>1. m - 1 \in 1..n /\ m - 1 \notin B
      BY <1>1, <2>3, <2>4
    <3>2. rank[m - 1] = count[m - 1]
      BY <3>1
    <3>3. rank[m] = rank[m - 1]
      BY <1>6, <2>3, <2>4
    <3> QED BY <1>3, <2>3, <2>4, <3>2, <3>3
  <2>5. CASE ~(m > 1 /\ P(m) = P(m - 1))
    <3>1. rank[m] = m
      BY <1>6, <2>3, <2>5
    <3> QED BY <1>4, <2>3, <2>5, <3>1
  <2> QED BY <2>4, <2>5
<1> QED BY <1>2, <1>7 DEF count, q

(* A rounded quotient stays between the bounds of what is divided.         *)
LEMMA QuotientBetween ==
    ASSUME NEW x \in Nat, NEW d \in Nat \ {0}, NEW lo \in Nat, NEW hi \in Nat,
           d * lo <= x, x <= d * hi
    PROVE  RoundedQuotient(x, d) \in lo..hi
<1> DEFINE r == (2 * x + d) \div (2 * d)
<1>1. 2 * d \in Nat \ {0} /\ 2 * x + d \in Int
  OBVIOUS
<1>2. r \in Int /\ (2 * d) * r <= 2 * x + d /\ 2 * x + d < (2 * d) * r + 2 * d
  BY <1>1, Rounded
<1> HIDE DEF r
<1>3. ASSUME r < lo PROVE FALSE
  <2>1. r + 1 <= lo /\ r + 1 \in Int
    BY <1>2, <1>3
  <2>2. d * (r + 1) <= d * lo
    BY <2>1, TimesMonotone
  <2>3. d * (r + 1) = d * r + d /\ (2 * d) * r = 2 * (d * r) /\ d * r \in Int
    BY <1>2
  <2>4. d * lo \in Int
    OBVIOUS
  <2> QED BY <1>2, <2>2, <2>3, <2>4
<1>4. ASSUME r > hi PROVE FALSE
  <2>1. hi + 1 <= r /\ hi + 1 \in Int
    BY <1>2, <1>4
  <2>2. d * (hi + 1) <= d * r
    BY <1>2, <2>1, TimesMonotone
  <2>3. d * (hi + 1) = d * hi + d /\ (2 * d) * r = 2 * (d * r) /\ d * r \in Int
    BY <1>2
  <2>4. d * hi \in Int
    OBVIOUS
  <2> QED BY <1>2, <2>2, <2>3, <2>4
<1> QED BY <1>2, <1>3, <1>4 DEF RoundedQuotient, r

(* The average lies between the cheapest and the dearest.                  *)
LEMMA AverageBetween ==
    ASSUME MarketRows, Valid # {}, NEW lo \in Nat, NEW hi \in Nat,
           \A s \in Valid : lo <= Price(s) /\ Price(s) <= hi
    PROVE  RoundedQuotient(SumOfPrices, Cardinality(Valid)) \in lo..hi
<1> DEFINE U == UNION {{s} \X (1..Price(s)) : s \in Valid}
           n == Cardinality(Valid)
<1>1. IsFiniteSet(Valid) /\ n \in Nat \ {0}
  BY ValidTyped, FS_EmptySet
<1>2. \A s \in Valid : Price(s) \in Nat
  BY ValidTyped
<1>3. U \subseteq Valid \X (1..hi) /\ Valid \X (1..lo) \subseteq U
  BY <1>2
<1>4. /\ IsFiniteSet(1..lo) /\ Cardinality(1..lo) = lo
      /\ IsFiniteSet(1..hi) /\ Cardinality(1..hi) = hi
  BY FS_Interval
<1>5. /\ IsFiniteSet(Valid \X (1..hi)) /\ Cardinality(Valid \X (1..hi)) = n * hi
      /\ Cardinality(Valid \X (1..lo)) = n * lo
  BY <1>1, <1>4, FS_Product
<1> HIDE DEF U
<1>6. IsFiniteSet(U) /\ Cardinality(U) <= n * hi
  BY <1>3, <1>5, FS_Subset
<1>7. n * lo <= Cardinality(U) /\ Cardinality(U) \in Nat
  BY <1>3, <1>5, <1>6, FS_Subset, FS_CardinalityType
<1> HIDE DEF n
<1>8. RoundedQuotient(Cardinality(U), n) \in lo..hi
  BY <1>1, <1>6, <1>7, QuotientBetween
<1> QED BY <1>8 DEF SumOfPrices, U, n

(* No more than half of the offers are below the median, nor above it.     *)
LEMMA MedianHalves ==
    ASSUME MarketRows, Valid # {}, NEW n, n = Cardinality(Valid),
           NEW p, p = [i \in DOMAIN ByPrice |-> Price(ByPrice[i])]
    PROVE  /\ MedianOf(p) \in Int
           /\ 2 * Cardinality({s \in Valid : Price(s) < MedianOf(p)}) <= n
           /\ 2 * Cardinality({s \in Valid : Price(s) > MedianOf(p)}) <= n
<1> DEFINE q == ByPrice
           h == n \div 2
           m == MedianOf(p)
           below == {s \in Valid : Price(s) < m}
           above == {s \in Valid : Price(s) > m}
<1>1. /\ n \in Nat \ {0} /\ q \in [1..n -> Valid]
      /\ \A i \in 1..n : p[i] = Price(q[i]) /\ p[i] \in Nat
      /\ \A i, j \in 1..n : i < j => p[i] <= p[j]
      /\ \A s \in Valid : \E i \in 1..n : q[i] = s
  <2>1. n \in Nat \ {0} /\ \A s \in Valid : Price(s) \in Nat
    BY ValidTyped, FS_EmptySet
  <2>2. q \in [1..n -> Valid] /\ \A s \in Valid : \E j \in 1..n : q[j] = s
    BY SortedOffers
  <2>3. \A i \in 1..n : p[i] = Price(q[i]) /\ q[i] \in Valid
    BY <2>2
  <2>4. \A j, k \in 1..n : j < k => Cheaper(q[j], q[k])
    BY SortedOffers
  <2>5. \A j, k \in 1..n : j < k => Price(q[j]) <= Price(q[k])
    BY <2>3, <2>4, CheaperOrders
  <2> QED BY <2>1, <2>2, <2>3, <2>5
<1>2. Len(p) = n
  <2>1. DOMAIN p = 1..n
    BY <1>1
  <2> QED BY <1>1, <2>1
<1>3. h \in Nat /\ (n % 2 = 1 => n = 2 * h + 1) /\ (n % 2 # 1 => n = 2 * h /\ h >= 1)
  BY <1>1
<1> HIDE DEF h
<1>4. \E a, b \in 1..n : /\ m \in Int /\ p[a] <= m /\ m <= p[b]
                         /\ 2 * (b - 1) <= n /\ 2 * (n - a) <= n
  <2>1. CASE n % 2 = 1
    <3>1. m = p[h + 1]
      BY <1>2, <2>1 DEF MedianOf, h
    <3>2. h + 1 \in 1..n /\ 2 * ((h + 1) - 1) <= n /\ 2 * (n - (h + 1)) <= n
      BY <1>1, <1>3, <2>1
    <3>3. p[h + 1] \in Nat
      BY <1>1, <3>2
    <3>4. m \in Int /\ p[h + 1] <= m /\ m <= p[h + 1]
      BY <3>1, <3>3
    <3> QED BY <3>2, <3>4
  <2>2. CASE n % 2 # 1
    <3>1. m = RoundedQuotient(p[h] + p[h + 1], 2) /\ h \in 1..n /\ h + 1 \in 1..n
      BY <1>1, <1>2, <1>3, <2>2 DEF MedianOf, h
    <3>2. p[h] \in Nat /\ p[h + 1] \in Nat /\ p[h] <= p[h + 1]
      BY <1>1, <3>1
    <3>3. m \in p[h]..p[h + 1]
      <4> PICK x \in Nat, y \in Nat : x = p[h] /\ y = p[h + 1]
        BY <3>2
      <4>1. x + y \in Nat /\ 2 * x <= x + y /\ x + y <= 2 * y
        BY <3>2
      <4>2. RoundedQuotient(x + y, 2) \in x..y
        BY <4>1, QuotientBetween
      <4> QED BY <3>1, <4>2
    <3>4. m \in Int /\ p[h] <= m /\ m <= p[h + 1]
      BY <3>2, <3>3
    <3>5. 2 * ((h + 1) - 1) <= n /\ 2 * (n - h) <= n
      BY <1>3, <2>2
    <3> QED BY <3>1, <3>4, <3>5
  <2> QED BY <2>1, <2>2
<1> HIDE DEF m
<1>5. PICK a \in 1..n, b \in 1..n : /\ m \in Int /\ p[a] <= m /\ m <= p[b]
                                   /\ 2 * (b - 1) <= n /\ 2 * (n - a) <= n
  BY <1>4
<1>6. 2 * Cardinality(below) <= n
  <2>1. ASSUME NEW s \in below PROVE \E i \in 1..(b - 1) : q[i] = s
    <3>1. PICK i \in 1..n : q[i] = s
      BY <1>1
    <3>2. p[i] < p[b] /\ p[i] \in Nat /\ p[b] \in Nat
      BY <1>1, <1>5, <3>1
    <3>3. ~(b < i) /\ i # b
      BY <1>1, <3>2
    <3> QED BY <1>1, <3>1, <3>3
  <2>2. IsFiniteSet(1..(b - 1)) /\ Cardinality(1..(b - 1)) = b - 1
    <3>1. b \in Int /\ b >= 1 /\ b - 1 \in Int
      BY <1>1
    <3> QED BY <3>1, FS_Interval
  <2> HIDE DEF below, q
  <2>3. IsFiniteSet(below) /\ Cardinality(below) <= b - 1
    BY <2>1, <2>2, AtThePlaces
  <2>4. Cardinality(below) \in Nat
    BY <2>3, FS_CardinalityType
  <2> QED BY <1>1, <1>5, <2>3, <2>4
<1>7. 2 * Cardinality(above) <= n
  <2>1. ASSUME NEW s \in above PROVE \E i \in (a + 1)..n : q[i] = s
    <3>1. PICK i \in 1..n : q[i] = s
      BY <1>1
    <3>2. p[a] < p[i] /\ p[i] \in Nat /\ p[a] \in Nat
      BY <1>1, <1>5, <3>1
    <3>3. ~(i < a) /\ i # a
      BY <1>1, <3>2
    <3> QED BY <1>1, <3>1, <3>3
  <2>2. IsFiniteSet((a + 1)..n) /\ Cardinality((a + 1)..n) = n - a
    <3>1. a \in Int /\ a <= n /\ n \in Int
      BY <1>1
    <3>2. a + 1 \in Int
      BY <3>1
    <3>3. /\ IsFiniteSet((a + 1)..n)
          /\ Cardinality((a + 1)..n) = IF a + 1 > n THEN 0 ELSE n - (a + 1) + 1
      BY <3>1, <3>2, FS_Interval
    <3>4. (IF a + 1 > n THEN 0 ELSE n - (a + 1) + 1) = n - a
      BY <3>1
    <3> QED BY <3>3, <3>4
  <2>5. \A s \in above : \E i \in (a + 1)..n : q[i] = s
    BY <2>1
  <2> HIDE DEF above, q
  <2> DEFINE I == (a + 1)..n
  <2>6. IsFiniteSet(I) /\ Cardinality(I) = n - a /\ \A s \in above : \E i \in I : q[i] = s
    BY <2>2, <2>5
  <2> HIDE DEF I
  <2>3. IsFiniteSet(above) /\ Cardinality(above) <= n - a
    BY <2>6, AtThePlaces
  <2>4. Cardinality(above) \in Nat
    BY <2>3, FS_CardinalityType
  <2> QED BY <1>1, <1>5, <2>3, <2>4
<1> QED BY <1>5, <1>6, <1>7 DEF m

-----------------------------------------------------------------------------
(* What computeMarketPosition returns is what the offers say.              *)
LEMMA ComputedAddsUp ==
    ASSUME MarketRows, Valid # {}, position = Computed
    PROVE  PositionAddsUp
<1> DEFINE q == ByPrice
           n == Cardinality(Valid)
           p == [i \in DOMAIN q |-> Price(q[i])]
           med == MedianOf(p)
           At(s) == CHOOSE i \in DOMAIN q : q[i] = s
<1>1. /\ n \in Nat \ {0} /\ IsFiniteSet(Valid)
      /\ \A s \in Valid : Price(s) \in Nat
  BY ValidTyped, FS_EmptySet
<1>2. /\ q \in [1..n -> Valid] /\ \A s \in Valid : \E j \in 1..n : q[j] = s
      /\ \A j, k \in 1..n : j < k => Cheaper(q[j], q[k])
  BY SortedOffers
<1>3. Len(q) = n /\ DOMAIN q = 1..n /\ ToSet(q) = Valid /\ 1 \in 1..n /\ n \in 1..n
  <2>1. DOMAIN q = 1..n
    BY <1>2
  <2>2. Len(q) = n
    BY <1>1, <1>2
  <2>3. ToSet(q) = Valid
    BY <1>2, <2>1 DEF ToSet
  <2> QED BY <1>1, <2>1, <2>2, <2>3
<1>4. \A j, k \in 1..n : j < k => Price(q[j]) <= Price(q[k])
  BY <1>2, CheaperOrders
<1>5. ASSUME NEW s \in Valid
      PROVE  /\ At(s) \in 1..n /\ q[At(s)] = s
             /\ RankAt(q)[At(s)] = 1 + Cardinality(CheaperThan(s))
  <2>1. At(s) \in 1..n /\ q[At(s)] = s
    BY <1>2, <1>3
  <2>2. RankAt(q)[At(s)] = 1 + Cardinality(CheaperThan(q[At(s)]))
    <3> HIDE DEF At
    <3> QED BY <2>1, RankCounts
  <2> QED BY <2>1, <2>2
<1>6. /\ med \in Int
      /\ 2 * Cardinality({s \in Valid : Price(s) < med}) <= n
      /\ 2 * Cardinality({s \in Valid : Price(s) > med}) <= n
  BY MedianHalves
<1> DEFINE Entry(s) == RankEntry(Price(s), RankAt(q)[At(s)], n,
                                 \E t \in Valid \ {s} : Price(t) = Price(s), p[1], med)
<1>7. /\ position.ranks = [s \in Valid |-> Entry(s)]
      /\ position.min = p[1] /\ position.max = p[n] /\ position.median = med
      /\ position.avg = RoundedQuotient(SumOfPrices, n)
      /\ position.minShop = q[1] /\ position.maxShop = q[n]
      /\ position.quality = DataQuality
  <2>1. Ranks(q, p[1], med) = [s \in Valid |-> Entry(s)]
    BY <1>3 DEF Ranks
  <2> HIDE DEF Entry, med
  <2> QED BY <1>3, <2>1 DEF Computed, med
<1>8. p[1] = Price(q[1]) /\ p[n] = Price(q[n]) /\ q[1] \in Valid /\ q[n] \in Valid
  BY <1>2, <1>3
<1>9. \A s \in Valid : Price(s) \in p[1]..p[n]
  <2> SUFFICES ASSUME NEW s \in Valid PROVE Price(s) \in p[1]..p[n]
    OBVIOUS
  <2>1. PICK j \in 1..n : q[j] = s
    BY <1>2
  <2>2. Price(q[1]) <= Price(s) \/ j = 1
    BY <1>1, <1>3, <1>4, <2>1
  <2>3. Price(s) <= Price(q[n]) \/ j = n
    BY <1>1, <1>3, <1>4, <2>1
  <2>4. Price(s) \in Nat /\ Price(q[1]) \in Nat /\ Price(q[n]) \in Nat
    BY <1>1, <1>8
  <2>5. Price(q[1]) <= Price(s) /\ Price(s) <= Price(q[n])
    BY <2>1, <2>2, <2>3, <2>4
  <2> HIDE DEF p
  <2> QED BY <1>8, <2>4, <2>5
<1>10. \A s \in Valid : /\ IsFiniteSet(CheaperThan(s))
                         /\ Cardinality(CheaperThan(s)) \in Nat
  <2>1. \A s \in Valid : CheaperThan(s) \subseteq Valid
    BY DEF CheaperThan
  <2> QED BY <1>1, <2>1, FS_Subset, FS_CardinalityType
<1>11. ASSUME NEW s \in Valid, NEW t \in Valid
       PROVE  Cardinality(CheaperThan(t)) = Cardinality(CheaperThan(s)) <=> Price(t) = Price(s)
  <2>1. \A x, y \in Valid : Price(x) < Price(y)
             => Cardinality(CheaperThan(x)) # Cardinality(CheaperThan(y))
    <3> SUFFICES ASSUME NEW x \in Valid, NEW y \in Valid, Price(x) < Price(y)
                 PROVE  Cardinality(CheaperThan(x)) < Cardinality(CheaperThan(y))
      BY <1>10
    <3>1. CheaperThan(x) \subseteq CheaperThan(y)
      BY <1>1 DEF CheaperThan
    <3>2. x \in CheaperThan(y) /\ x \notin CheaperThan(x)
      BY <1>1 DEF CheaperThan
    <3> QED BY <1>10, <3>1, <3>2, FS_Subset, FS_CardinalityType
  <2>2. Price(t) = Price(s) => CheaperThan(t) = CheaperThan(s)
    BY DEF CheaperThan
  <2>3. Price(t) = Price(s) \/ Price(t) < Price(s) \/ Price(s) < Price(t)
    BY <1>1
  <2> QED BY <2>1, <2>2, <2>3
<1> HIDE DEF q, At, med, p, n
<1>12. \A s \in Valid : /\ position.ranks[s] = Entry(s)
                         /\ Entry(s).rank = 1 + Cardinality(CheaperThan(s))
                         /\ Entry(s).denominator = n
                         /\ Entry(s).tied = (\E t \in Valid \ {s} : Price(t) = Price(s))
                         /\ Entry(s).toMin = Price(s) - p[1]
                         /\ Entry(s).toMedian = Price(s) - med
  BY <1>5, <1>7 DEF RankEntry
<1> HIDE DEF Entry
<1>13. ASSUME NEW s \in Valid PROVE RankedAsCounted(s, position.ranks[s])
  <2> DEFINE r == position.ranks[s]
  <2>1. r.rank = 1 + Cardinality(CheaperThan(s)) /\ r.denominator = n
    BY <1>12
  <2>2. r.tied = (\E t \in Valid \ {s} : position.ranks[t].rank = r.rank)
    <3>1. \A t \in Valid : position.ranks[t].rank = r.rank <=> Price(t) = Price(s)
      <4> SUFFICES ASSUME NEW t \in Valid
                   PROVE  position.ranks[t].rank = r.rank <=> Price(t) = Price(s)
        OBVIOUS
      <4> PICK x \in Nat, y \in Nat : /\ x = Cardinality(CheaperThan(t))
                                       /\ y = Cardinality(CheaperThan(s))
        BY <1>10
      <4>1. position.ranks[t].rank = 1 + x /\ r.rank = 1 + y
        BY <1>12
      <4>2. 1 + x = 1 + y <=> x = y
        OBVIOUS
      <4> QED BY <1>11, <4>1, <4>2
    <3>2. r.tied = (\E t \in Valid \ {s} : Price(t) = Price(s))
      BY <1>12
    <3> QED BY <3>1, <3>2
  <2>3. Price(s) - r.toMin = position.min /\ Price(s) - r.toMedian = position.median
    <3>1. Price(s) \in Int /\ p[1] \in Int /\ med \in Int
      BY <1>1, <1>6, <1>8
    <3>2. r.toMin = Price(s) - p[1] /\ r.toMedian = Price(s) - med
      BY <1>12
    <3>3. position.min = p[1] /\ position.median = med
      BY <1>7
    <3> HIDE DEF r
    <3> QED BY <3>1, <3>2, <3>3
  <2>4. n = Cardinality(Valid)
    BY DEF n
  <2> HIDE DEF r
  <2>5. CheaperThan(s) = {t \in Valid : Price(t) < Price(s)}
    BY DEF CheaperThan
  <2> QED BY <2>1, <2>2, <2>3, <2>4, <2>5 DEF RankedAsCounted, r
<1>14. position.ranks[q[1]].rank = 1
  <2>1. CheaperThan(q[1]) = {}
    <3>1. \A t \in Valid : p[1] <= Price(t) /\ Price(t) \in Nat /\ p[1] \in Nat
      BY <1>1, <1>8, <1>9
    <3> QED BY <1>8, <3>1 DEF CheaperThan
  <2>2. Cardinality(CheaperThan(q[1])) = 0
    BY <2>1, FS_EmptySet
  <2>3. position.ranks[q[1]].rank = 1 + Cardinality(CheaperThan(q[1]))
    BY <1>8, <1>12
  <2> QED BY <2>2, <2>3
<1>15. position.avg \in p[1]..p[n]
  <2>1. p[1] \in Nat /\ p[n] \in Nat /\ \A s \in Valid : p[1] <= Price(s) /\ Price(s) <= p[n]
    BY <1>1, <1>8, <1>9
  <2> PICK lo \in Nat, hi \in Nat : lo = p[1] /\ hi = p[n]
    BY <2>1
  <2>2. RoundedQuotient(SumOfPrices, Cardinality(Valid)) \in lo..hi
    BY <2>1, AverageBetween
  <2> QED BY <1>7, <2>2 DEF n
<1>16. position.quality = "ok" => Cardinality(Valid) >= 2
  <2>1. n = 1 => DataQuality # "ok"
    BY DEF DataQuality, n
  <2> QED BY <1>1, <1>7, <2>1 DEF n
<1>17. DOMAIN position.ranks = Valid
  BY <1>7
<1>18. /\ position.minShop \in Valid /\ position.ranks[position.minShop].rank = 1
       /\ position.min = Price(position.minShop) /\ position.max = Price(position.maxShop)
       /\ \A s \in Valid : Price(s) \in position.min..position.max
       /\ position.avg \in position.min..position.max
  BY <1>7, <1>8, <1>9, <1>14, <1>15
<1>19. /\ 2 * Cardinality({s \in Valid : Price(s) < position.median}) <= Cardinality(Valid)
       /\ 2 * Cardinality({s \in Valid : Price(s) > position.median}) <= Cardinality(Valid)
  BY <1>6, <1>7 DEF n
<1> QED BY <1>13, <1>16, <1>17, <1>18, <1>19 DEF PositionAddsUp

(* MarketPosition: in every state the published place of every shop is the *)
(* one its fresh offer has among the others, and the summary bounds them.  *)
THEOREM PositionAlwaysAddsUp == MarketSpec => []PositionAddsUp
<1>1. MarketInit => MarketInv
  BY DEF MarketInit, MarketInv, MarketRows
<1>2. MarketInv /\ [MarketNext]_marketVars => MarketInv'
  <2> SUFFICES ASSUME MarketInv, [MarketNext]_marketVars PROVE MarketInv'
    OBVIOUS
  <2>1. CASE Collect
    <3>1. position = NotRanked /\ position' = position
      BY <2>1 DEF MarketInv, Collect
    <3> QED BY <2>1, <3>1 DEF MarketInv, MarketRows, Collect, NotRanked
  <2>2. CASE Position
    <3>1. offers' = offers /\ Collected # {}
      BY <2>2 DEF Position
    <3>2. position' = IF Valid = {} THEN Unranked ELSE Computed
      BY <2>2 DEF Position
    <3>3. Valid' = Valid /\ Unranked' = Unranked /\ Computed' = Computed /\ Collected' = Collected
      BY <3>1 DEF Valid, Unranked, Computed, Collected, ByPrice, Cheaper, Price, SumOfPrices,
                  DataQuality, AnyStale, Ranks, RankAt
    <3> QED BY <3>1, <3>2, <3>3 DEF MarketInv, MarketRows
  <2>3. CASE UNCHANGED marketVars
    <3>1. offers' = offers /\ position' = position
      BY <2>3 DEF marketVars
    <3>2. Valid' = Valid /\ Unranked' = Unranked /\ Computed' = Computed /\ Collected' = Collected
      BY <3>1 DEF Valid, Unranked, Computed, Collected, ByPrice, Cheaper, Price, SumOfPrices,
                  DataQuality, AnyStale, Ranks, RankAt
    <3> QED BY <3>1, <3>2 DEF MarketInv, MarketRows, NotRanked
  <2> QED BY <2>1, <2>2, <2>3 DEF MarketNext
<1>3. MarketInv => PositionAddsUp
  <2> SUFFICES ASSUME MarketInv PROVE PositionAddsUp
    OBVIOUS
  <2>1. CASE position = NotRanked
    BY <2>1 DEF PositionAddsUp, Positioned
  <2>2. CASE position = Unranked /\ Valid = {}
    <3>1. Cardinality(Valid) = 0
      BY <2>2, FS_EmptySet
    <3>2. DataQuality = "degraded"
      BY <2>2, <3>1 DEF DataQuality
    <3>3. position.quality = "degraded"
      BY <2>2, <3>2 DEF Unranked
    <3> QED BY <3>3 DEF PositionAddsUp, Positioned
  <2>3. CASE position = Computed /\ Valid # {}
    BY <2>3, ComputedAddsUp DEF MarketInv
  <2> QED BY <2>1, <2>2, <2>3 DEF MarketInv
<1> QED BY <1>1, <1>2, <1>3, PTL DEF MarketSpec
=============================================================================
