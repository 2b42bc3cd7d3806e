---------------------------- MODULE PageReading ----------------------------
(***************************************************************************)
(* What a page of a product says its price is.  The answer of the platform *)
(* goes before JSON-LD, that before the meta tags, and these before what   *)
(* the page shows.  A page also shows numbers of its frame, the amount     *)
(* from which delivery is free above all, which must never be taken for    *)
(* the price.                                                              *)
(*                                                                         *)
(* A block (div, p, li, td ...) is a sequence of tokens: words, of which   *)
(* only the telling ones are told apart, and prices.  A price stands in a  *)
(* span of its own, which an <ins> or a <del> may surround, or bare in the *)
(* text; the span names it by its classes; and a reader knows what it is.  *)
(*                                                                         *)
(* Pages left out: one that names the frame in another block than its      *)
(* price (a table of delivery costs) or a threshold's word later than the  *)
(* forty characters the code looks at, one with the <ins> and <del> of a   *)
(* related product, and one whose only offer is in euros, which is read as *)
(* forints (price.ts:147).  On those the reading does go wrong.            *)
(***************************************************************************)
EXTENDS Integers, Sequences, FiniteSets, SequencesExt, FiniteSetsExt

CONSTANTS
    PageBlocks,  \* the blocks pages are made of
    Nodes,       \* JSON-LD nodes
    PlatformAnswers,  \* answers of platforms, and NoAnswer
    MetaPrices,  \* product:price:amount, or NoNumber
    MaxBlocks, MaxNodes, MaxParts,   \* bounds: of a page, and of both together
    NoAnswer, NoNumber

ASSUME PageAssumption == {MaxBlocks, MaxNodes, MaxParts} \subseteq Nat

VARIABLES
    shown,     \* the page: its blocks, JSON-LD nodes, platform's answer, meta price
    reading    \* what it has been read as

pageVars == <<shown, reading>>

Pages == [blocks : BoundedSeq(PageBlocks, MaxBlocks), nodes : BoundedSeq(Nodes, MaxNodes),
          answer : PlatformAnswers, meta : MetaPrices]

Unread == [current |-> NoNumber, by |-> "none", regular |-> NoNumber,
           stock |-> "unknown", flags |-> {}, consistent |-> TRUE]

NoPage == [blocks |-> <<>>, nodes |-> <<>>, answer |-> NoAnswer, meta |-> NoNumber]

PageInit == shown = NoPage /\ reading = Unread

Else(v, w) == IF v = NoNumber THEN w ELSE v
Near(seq, n) == SubSeq(seq, 1, IF Len(seq) < n THEN Len(seq) ELSE n)
WordsOf(tokens) == {tokens[i].w : i \in DOMAIN tokens}

-----------------------------------------------------------------------------
(* extractDomPrices                                                        *)

FrameWords == {"frame", "min"}          \* delivery, basket, coupon; "minimum"
ThresholdWords == {"above"}             \* "felett", "-tol"

PricesOf(tokens) == {i \in DOMAIN tokens : tokens[i].w = "price"}

(* blockTextBefore: what stands before the i-th token in its block, and    *)
(* after the price before it, whose words are not its own.                 *)
TextBefore(tokens, i) ==
    LET p == SelectLastInSubSeq(tokens, 1, i - 1, LAMBDA t : t.w = "price")
    IN SubSeq(tokens, p + 1, i - 1)

(* blockTextAfter: some forty characters of the same block.                *)
TextAfter(tokens, i) == Near(SubSeq(tokens, i + 1, Len(tokens)), 2)

(* An element that may hold a price, its classes speaking of prices.       *)
Element(price, own, before, after) ==
    [price |-> price, own |-> own, before |-> before, after |-> after]

(* Every price that has a span; a block may be an element too, of which    *)
(* the first price counts.                                                 *)
SpanAt(tokens, i) ==
    Element(tokens[i], tokens[i].cls, TextBefore(tokens, i), TextAfter(tokens, i))

SpansOf(block) ==
    LET tokens == block.tokens
    IN FlattenSeq([i \in DOMAIN tokens |->
                     IF i \in PricesOf(tokens) /\ tokens[i].el # "bare" THEN <<SpanAt(tokens, i)>>
                     ELSE <<>>])

BlocksOf(block) ==
    LET prices == PricesOf(block.tokens)
    IN IF "price" \in block.cls /\ prices # {}
       THEN <<Element(block.tokens[Min(prices)], block.cls \cup WordsOf(block.tokens), <<>>, <<>>)>>
       ELSE <<>>

Elements(blocks) ==
    FlattenSeq([b \in DOMAIN blocks |-> SpansOf(blocks[b])])
      \o FlattenSeq([b \in DOMAIN blocks |-> BlocksOf(blocks[b])])

(* Mutant: only its own words are looked at.                               *)
OfFrameItself(e) == e.own \cap (FrameWords \cup ThresholdWords) # {}

(* The element is of the page's frame: by its own words, by those that     *)
(* lead to it, or by a threshold's word right after it.                    *)
OfFrame(e) ==
    \/ e.own \cap (FrameWords \cup ThresholdWords) # {}
    \/ WordsOf(e.before) \cap FrameWords # {}
    \/ WordsOf(e.after) \cap ThresholdWords # {}

(* The first of these that the classes and words of an element name.       *)
Kinds == <<"deposit", "unit", "member", "coupon", "quantity", "old">>
KindOf(e) ==
    LET k == SelectInSeq(Kinds, LAMBDA n : n \in e.own)
    IN IF k = 0 THEN "current" ELSE Kinds[k]

(* The last resort, when no element is left: the first price of 200 and    *)
(* more in the text of the page whose sentence before it, sixty characters *)
(* at most, and whose next words do not speak of the frame.                *)
TextOf(blocks) == FlattenSeq([b \in DOMAIN blocks |-> blocks[b].tokens])

SpeaksOfFrame(text, i) ==
    \E k \in DOMAIN text :
        /\ text[k].w \in FrameWords \cup ThresholdWords
        /\ \/ k = i + 1
           \/ k \in (i - 5)..(i - 1) /\ \A x \in k..(i - 1) : text[x].w # "stop"

LastResort(blocks) ==
    LET text == TextOf(blocks)
        fit == {i \in PricesOf(text) : text[i].v >= 2 /\ ~SpeaksOfFrame(text, i)}
    IN IF fit = {} THEN NoNumber ELSE text[Min(fit)].v

(* A page with an <ins> and a <del> names its prices by them, wherever they *)
(* stand.                                                                  *)
FirstIn(blocks, el) ==
    LET text == TextOf(blocks)
        in == {i \in PricesOf(text) : text[i].el = el}
    IN IF in = {} THEN NoNumber ELSE text[Min(in)].v

Visible(blocks) ==
    LET elements == Elements(blocks)
        candidates == {n \in DOMAIN elements : ~OfFrame(elements[n])}
        Of(kind) == {n \in candidates : KindOf(elements[n]) = kind}
        paired == FirstIn(blocks, "ins") # NoNumber /\ FirstIn(blocks, "del") # NoNumber
    IN IF candidates = {}
       THEN [current |-> LastResort(blocks), regular |-> NoNumber]
       ELSE IF paired
       THEN [current |-> FirstIn(blocks, "ins"), regular |-> FirstIn(blocks, "del")]
       ELSE [current |-> IF Of("current") = {} THEN NoNumber
                         ELSE elements[Min(Of("current"))].price.v,
             regular |-> IF Of("old") = {} THEN NoNumber
                         ELSE Max({elements[n].price.v : n \in Of("old")})]

-----------------------------------------------------------------------------
(* extractJsonLdProduct                                                    *)

OfferTypes == {"Offer", "AggregateOffer", "none"}  \* a node may have no type

(* parseOffer: no shipping details.                                        *)
Real(offers) == {i \in DOMAIN offers : offers[i].type \in OfferTypes}

(* A node without an offer that has a lowest price offers that.            *)
OffersOf(node) ==
    IF Real(node.offers) # {} THEN node.offers
    ELSE IF node.lowPrice # NoNumber
    THEN <<[type |-> "AggregateOffer", price |-> node.lowPrice, currency |-> "HUF",
            list |-> NoNumber, stock |-> "unknown"]>>
    ELSE <<>>

ProductTypes == {"Product", "ProductGroup"}

ScoreOf(node) ==
    (IF node.named THEN 3 ELSE 0) + (IF OffersOf(node) # <<>> THEN 3 ELSE 0)

(* The product that says most, the first of those that say as much.        *)
JsonLdOffers(nodes) ==
    LET products == {n \in DOMAIN nodes : nodes[n].type \in ProductTypes}
        best == {n \in products : \A m \in products : ScoreOf(nodes[m]) <= ScoreOf(nodes[n])}
    IN IF best = {} THEN <<>> ELSE OffersOf(nodes[Min(best)])

-----------------------------------------------------------------------------
(* extractPrices, extractListing                                           *)

(* toHuf: by the minor unit that the source states, never by a fixed 100.  *)
ToHuf(raw, minor) == IF raw = NoNumber THEN NoNumber ELSE raw \div 10^minor

Differ(v, w) == v # NoNumber /\ w # NoNumber /\ v # w   \* by more than two per cent

Read(page) ==
    LET a == page.answer
        answered == a # NoAnswer
        offers == JsonLdOffers(page.nodes)
        inHuf == {i \in Real(offers) : offers[i].currency \in {"HUF", "none"}}
        usable == IF inHuf = {} THEN Real(offers) ELSE inHuf
        priced == {i \in usable : offers[i].price # NoNumber /\ offers[i].price > 0}
        listed == {i \in usable : offers[i].list # NoNumber}
        visible == Visible(page.blocks)
        platform == IF answered THEN ToHuf(a.price, a.minor) ELSE NoNumber
        offered == IF priced = {} THEN NoNumber ELSE offers[Min(priced)].price
        by == CASE platform # NoNumber -> "platform_api"
                [] platform = NoNumber /\ offered # NoNumber -> "jsonld"
                [] platform = NoNumber /\ offered = NoNumber /\ page.meta # NoNumber -> "meta"
                [] OTHER -> IF visible.current = NoNumber THEN "none" ELSE "dom"
        current == Else(platform, Else(offered, Else(page.meta, visible.current)))
        prices == {offers[i].price : i \in Real(offers)} \ {NoNumber}
        stocks == <<IF answered THEN a.stock ELSE "unknown",
                    IF usable = {} THEN "unknown" ELSE offers[Min(usable)].stock>>
    IN [current |-> current, by |-> by,
        regular |-> Else(IF answered THEN ToHuf(a.regular, a.minor) ELSE NoNumber,
                     Else(IF listed = {} THEN NoNumber ELSE offers[Min(listed)].list,
                          visible.regular)),
        stock |-> IF stocks[1] # "unknown" THEN stocks[1] ELSE stocks[2],
        flags |-> (IF by \notin {"dom", "none"} /\ Differ(current, visible.current)
                   THEN {"mismatch"} ELSE {})
                  \cup (IF platform = NoNumber
                           /\ Cardinality({offers[i].price : i \in priced}) > 1
                        THEN {"several"} ELSE {}),
        consistent |-> answered \/ Cardinality(prices) <= 1]

ReadPage(page) ==
    /\ shown = NoPage /\ Len(page.blocks) + Len(page.nodes) <= MaxParts
    /\ shown' = page
    /\ reading' = Read(page)

PageNext == \E page \in Pages : ReadPage(page)

PageSpec == PageInit /\ [][PageNext]_pageVars

-----------------------------------------------------------------------------
PageTypeOK ==
    /\ Len(shown.blocks) <= MaxBlocks /\ Len(shown.nodes) <= MaxNodes
    /\ reading.by \in {"none", "platform_api", "jsonld", "meta", "dom"}
    /\ reading.by = "none" <=> reading.current = NoNumber

Tokens(page) == UNION {Range(page.blocks[b].tokens) : b \in DOMAIN page.blocks}

(* What a reader takes for the price of the product: prices of the text,   *)
(* and what the structured sources give as such.                           *)
ShownPrices(page) == {t.v : t \in {u \in Tokens(page) : u.w = "price" /\ u.is = "product"}}
StatedPrices(page) ==
    {page.meta} \cup {page.nodes[n].lowPrice : n \in DOMAIN page.nodes}
      \cup (IF page.answer = NoAnswer THEN {} ELSE {page.answer.is})
      \cup UNION {{page.nodes[n].offers[i].price : i \in
                    {j \in DOMAIN page.nodes[n].offers : page.nodes[n].offers[j].is = "product"}}
                  : n \in DOMAIN page.nodes}

(* The amount from which delivery is free, a deposit, a price per litre or *)
(* the price before a sale never becomes the price, and a price that stands *)
(* in an element of its own is not lost to the frame around it, however    *)
(* blocks and nodes come together on a page (price.ts, price-frame.test.ts). *)
PriceIsOfTheProduct ==
    /\ reading.current \in ShownPrices(shown) \cup StatedPrices(shown) \cup {NoNumber}
    /\ (\E t \in Tokens(shown) : t.w = "price" /\ t.is = "product" /\ t.el # "bare")
         => reading.current # NoNumber
=============================================================================
