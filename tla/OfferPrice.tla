---------------------------- MODULE OfferPrice ----------------------------
(***************************************************************************)
(* The price of one listing, from what its page shows to what the market   *)
(* may take: selectComparablePrice chooses the price, detectPriceAnomaly   *)
(* holds it against the price of the observation before, persistListing    *)
(* keeps both verdicts in the row that becomes the latest offer.           *)
(*                                                                         *)
(* Every caller passes requireInStock: false and no market median, so that *)
(* those two tests are left out.                                           *)
(***************************************************************************)
EXTENDS Integers

CONSTANTS
    Snapshots,       \* what a page may show: records of prices and switches
    AllowedTypes,    \* pricing.comparison.allowedPriceTypes
    MinPlausible, MaxPlausible, ExtremePct, MagnitudeFactor,
    NoPrice,         \* null
    Unobserved       \* the listing has not been observed

ASSUME OfferAssumption ==
    /\ NoPrice \notin Int
    /\ MinPlausible \in Nat \ {0} /\ MaxPlausible \in Nat
    /\ ExtremePct \in Nat /\ MagnitudeFactor \in Nat \ {0}
    /\ \A s \in Snapshots :
         /\ {s.current, s.sale, s.regular, s.restricted} \subseteq Int \cup {NoPrice}
         /\ s.perUnit \in BOOLEAN

VARIABLE latest      \* the row latest_offer_id points to

offerVars == <<latest>>

Shown(p) == p # NoPrice /\ p > 0

-----------------------------------------------------------------------------
(* selectComparablePrice.  A snapshot is [current, sale, regular,          *)
(* restricted, perUnit]: "restricted" is the first price of a member, a    *)
(* coupon or a quantity; "perUnit" says that the price is the price of a   *)
(* litre though the bottle holds another volume.                           *)

(* Mutant: a page without a public price is taken at the member price.     *)
PublicOrMemberPrice(s) ==
    IF Shown(s.current) THEN s.current
    ELSE IF Shown(s.sale) THEN s.sale
    ELSE IF Shown(s.regular) THEN s.regular ELSE s.restricted

PublicPrice(s) ==
    IF Shown(s.current) THEN s.current
    ELSE IF Shown(s.sale) THEN s.sale
    ELSE IF Shown(s.regular) THEN s.regular ELSE NoPrice

(* The code's test for current = sale < regular is a case of the second.   *)
OnSale(s) ==
    IF Shown(s.current) THEN Shown(s.regular) /\ s.current < s.regular
    ELSE Shown(s.sale)

(* The list price and the sale price have changed places: a parser error.  *)
Swapped(s) == Shown(s.regular) /\ Shown(s.sale) /\ s.sale > s.regular

PriceType(s) == IF OnSale(s) THEN "sale" ELSE "regular"

Selection(s) ==
    CASE ~Shown(PublicPrice(s)) /\ Shown(s.restricted) ->
           [selected |-> s.restricted, type |-> "restricted", comparable |-> FALSE]
      [] ~Shown(PublicPrice(s)) /\ ~Shown(s.restricted) ->
           [selected |-> NoPrice, type |-> "unknown", comparable |-> FALSE]
      [] Shown(PublicPrice(s)) /\ Swapped(s) ->
           [selected |-> NoPrice, type |-> "not_comparable", comparable |-> FALSE]
      [] OTHER ->
           [selected |-> PublicPrice(s), type |-> PriceType(s),
            comparable |-> PriceType(s) \in AllowedTypes]

-----------------------------------------------------------------------------
(* detectPriceAnomaly                                                      *)

Absolute(n) == IF n < 0 THEN -n ELSE n

(* The change in hundredths of a per cent, rounded as Math.round does.     *)
DeltaPct(new, old) == (20000 * (new - old) + old) \div (2 * old)

(* Mutant: a change of just ExtremePct passes.                             *)
LeapBeyond(new, old) ==
    \/ new >= MagnitudeFactor * old
    \/ MagnitudeFactor * new <= old
    \/ Absolute(DeltaPct(new, old)) > 100 * ExtremePct

Leap(new, old) ==
    \/ new >= MagnitudeFactor * old
    \/ MagnitudeFactor * new <= old
    \/ Absolute(DeltaPct(new, old)) >= 100 * ExtremePct

Anomalous(new, old, s) ==
    /\ new # NoPrice
    /\ \/ new < MinPlausible \/ new > MaxPlausible
       \/ s.perUnit
       \/ Shown(old) /\ Leap(new, old)

-----------------------------------------------------------------------------
(* persistListing                                                          *)

PreviousPrice == IF latest = Unobserved THEN NoPrice ELSE latest.selected

(* A drifted listing is someone else's price: none is kept.                *)
PriceKept(s, drifted) == IF drifted THEN NoPrice ELSE Selection(s).selected

Withheld(s, drifted) == drifted \/ Anomalous(Selection(s).selected, PreviousPrice, s)

(* A new run writes a new row.                                             *)
Observe(s, drifted) ==
    latest' = [page |-> s, selected |-> PriceKept(s, drifted),
               comparable |-> Selection(s).comparable /\ ~drifted,
               quarantined |-> Withheld(s, drifted), rewritten |-> FALSE]

(* The same run meets the listing again: ON CONFLICT DO UPDATE writes the  *)
(* price and the quarantine and leaves the rest of the row.                *)
ObserveAgain(s, drifted) ==
    /\ latest # Unobserved
    /\ latest' = [latest EXCEPT !.selected = PriceKept(s, drifted),
                                !.quarantined = Withheld(s, drifted),
                                !.rewritten = TRUE]

OfferInit == latest = Unobserved

OfferNext == \E s \in Snapshots, drifted \in BOOLEAN :
    Observe(s, drifted) \/ ObserveAgain(s, drifted)

OfferSpec == OfferInit /\ [][OfferNext]_offerVars

-----------------------------------------------------------------------------
OfferTypeOK ==
    latest \in [page : Snapshots, selected : Int \cup {NoPrice}, comparable : BOOLEAN,
                quarantined : BOOLEAN, rewritten : BOOLEAN] \cup {Unobserved}

(* What the selection of rebuildAndPublish asks of the offer itself.       *)
Publishable(o) ==
    o # Unobserved /\ o.comparable /\ ~o.quarantined /\ o.selected # NoPrice /\ o.selected > 0

(* A price the market may show is one that the page showed to every        *)
(* visitor, and not above the list price it is reduced from.  For a row    *)
(* that was written once: a row rewritten in its run keeps the "comparable"*)
(* of the page before.                                                     *)
PublicPricesOnly ==
    Publishable(latest) /\ ~latest.rewritten =>
        LET s == latest.page
        IN /\ latest.selected \in {s.current, s.sale, s.regular}
           /\ Shown(s.sale) /\ Shown(s.regular) => s.sale <= s.regular

(* A price the market may show is no leap, neither of ExtremePct nor of an *)
(* order of magnitude, from the price the observation before it kept,      *)
(* whether that one was shown or withheld.  So a leap waits in quarantine  *)
(* until another observation comes near it, and no longer: 10 shown, 90    *)
(* withheld and 90 again is shown, and after an observation that kept no   *)
(* price, a drifted one, whatever comes is shown at once.                  *)
NoLeapShown ==
    [][ latest # Unobserved /\ Shown(latest.selected) /\ Publishable(latest') =>
          /\ 100 * Absolute(latest'.selected - latest.selected)
               < ExtremePct * latest.selected
          /\ latest'.selected < MagnitudeFactor * latest.selected
          /\ latest.selected < MagnitudeFactor * latest'.selected ]_offerVars

(* Whatever the market may show of an offer was shown to every visitor and *)
(* is no leap from what the observation before kept.                       *)
FitToPublish == []PublicPricesOnly /\ NoLeapShown
=============================================================================
