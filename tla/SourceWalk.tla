---------------------------- MODULE SourceWalk ----------------------------
(***************************************************************************)
(* How an adapter finds out what a shop lists: page by page from the API   *)
(* of the platform (Shopify, WooCommerce), or sitemap by sitemap, while    *)
(* the shop goes on adding and removing products and any answer may be     *)
(* missing, refused or nonsense.  The walk ends with targets and a word on *)
(* how complete they are: DiscoveryCycle takes products off the market on  *)
(* the word "complete".  A known listing is refreshed by its platform id   *)
(* or, failing that, from its page.                                        *)
(*                                                                         *)
(* A product is its platform id; it has one variant.                       *)
(***************************************************************************)
EXTENDS Naturals, Sequences, FiniteSets, SequencesExt

CONSTANTS
    Adapters,        \* of "shopify", "woocommerce", "generic"
    ProductCount,    \* the ids are 1..ProductCount, in the order they are given
    FirstListed,     \* what the shop lists at first
    PageSize,        \* 250 or 100 products to a page of the API
    MaxPages,        \* 200
    MaxUrls,         \* ctx.limits.maxUrls
    Roots,           \* the sitemaps robots.txt names, in its order
    ChildrenOf,      \* sitemap index -> its sitemaps, others -> <<>>
    SitemapOf,       \* product -> the sitemap that lists it
    MaxSitemaps,     \* cfg.maxSitemaps
    ExpectedMin,     \* expectedCatalogMin, 0 when it is not set
    MaxShopChanges, MaxWalkFaults   \* bounds: products that come or go, bad answers

Products == 1..ProductCount

Sitemaps == DOMAIN ChildrenOf

(* What the sitemaps of the shop list, robots.txt leads to.                *)
ASSUME WalkAssumption ==
    /\ ProductCount \in Nat
    /\ FirstListed \subseteq Products
    /\ {PageSize, MaxPages, MaxUrls, MaxSitemaps} \subseteq Nat \ {0}
    /\ {ExpectedMin, MaxShopChanges, MaxWalkFaults} \subseteq Nat
    /\ Roots \in Seq(Sitemaps) /\ \A sm \in Sitemaps : ChildrenOf[sm] \in Seq(Sitemaps)
    /\ \A p \in Products, named \in SUBSET Sitemaps :
          ToSet(Roots) \subseteq named
            /\ (\A sm \in named : ToSet(ChildrenOf[sm]) \subseteq named)
          => SitemapOf[p] \in named

VARIABLES
    adapter,
    listed,      \* what the shop lists now
    walk,        \* the locals of discover()
    kept,        \* history: what was listed all through the walk
    gaps,        \* history: what went wrong on the way
    refreshed,   \* the last refreshKnownListing: product, answers, status
    shopChanges, walkFaults

walkVars == <<adapter, listed, walk, kept, gaps, refreshed, shopChanges, walkFaults>>

NoRefresh == [of |-> 0, byId |-> "none", page |-> "none", status |-> "none"]

(* The locals of a walk over the API, or of one over the sitemaps.         *)
Fresh(at) ==
    [at |-> at, endpoint |-> 1, page |-> 1, works |-> FALSE, total |-> 0,
     queue |-> <<>>, processed |-> {}, targets |-> {}, status |-> "ok",
     completeness |-> "unknown"]

WalkInit ==
    /\ adapter \in Adapters
    /\ listed = FirstListed /\ kept = {} /\ gaps = {}
    /\ walk = Fresh("idle") /\ refreshed = NoRefresh
    /\ shopChanges = 0 /\ walkFaults = 0

-----------------------------------------------------------------------------
(* The shop                                                                *)

Walking == walk.at \notin {"idle", "done", "refreshed"}

AddProduct(p) ==
    /\ Walking /\ shopChanges < MaxShopChanges
    /\ p \notin listed
    /\ listed' = listed \cup {p} /\ gaps' = gaps \cup {"added"}
    /\ shopChanges' = shopChanges + 1
    /\ UNCHANGED <<adapter, walk, kept, refreshed, walkFaults>>

RemoveProduct(p) ==
    /\ Walking /\ shopChanges < MaxShopChanges
    /\ p \in listed
    /\ listed' = listed \ {p} /\ kept' = kept \ {p} /\ gaps' = gaps \cup {"removed"}
    /\ shopChanges' = shopChanges + 1
    /\ UNCHANGED <<adapter, walk, refreshed, walkFaults>>

-----------------------------------------------------------------------------
(* discover()                                                              *)

BeginWalk ==
    /\ walk.at = "idle"
    /\ walk' = Fresh(IF adapter = "generic" THEN "resolve" ELSE "api")
    /\ kept' = listed
    /\ UNCHANGED <<adapter, listed, gaps, refreshed, shopChanges, walkFaults>>

Blocks == {"blocked", "rate_limited"}

(* How the request for a page or a sitemap ends: "lost" is an exception,   *)
(* "error" a status that is not 2xx, "noise" a 200 that is not what was    *)
(* asked for, "late" the time limit, which is looked at before.            *)
BadAnswers == Blocks \cup {"lost", "error", "noise", "late"}

Answers(a) ==
    IF a = "ok" THEN UNCHANGED <<walkFaults, gaps>>
    ELSE /\ walkFaults < MaxWalkFaults
         /\ walkFaults' = walkFaults + 1
         /\ gaps' = gaps \cup {a}

StatusAfter(a, status) ==
    IF a \in Blocks THEN a ELSE IF a = "late" THEN "partial" ELSE status

(* Pages are cut from what is listed when they are asked for: WooCommerce  *)
(* is asked for ascending ids, Shopify puts the newest first.              *)
Earlier(q, p) == IF adapter = "woocommerce" THEN q <= p ELSE q >= p

Place(p) == Cardinality({q \in listed : Earlier(q, p)})

ApiPage(page) ==
    {p \in listed : (page - 1) * PageSize < Place(p) /\ Place(p) <= page * PageSize}

LoopGoesOn(w) == w.page <= MaxPages /\ Cardinality(w.targets) < MaxUrls

ShopifyComplete(w) == IF w.status = "ok" THEN "complete" ELSE "partial"

(* Mutant: the count the shop gives is not waited for.                     *)
WooTrusting(w) == IF w.status = "ok" THEN "complete" ELSE "partial"

WooComplete(w) ==
    IF w.status # "ok" THEN "partial"
    ELSE IF w.total = 0 THEN "unknown"
    ELSE IF Cardinality(w.targets) >= w.total THEN "complete" ELSE "partial"

(* After the loop over an endpoint: the report, the other endpoint of      *)
(* Shopify, or the sitemaps, which start afresh.                           *)
AfterShopify(w) ==
    IF w.works THEN [w EXCEPT !.at = "done", !.completeness = ShopifyComplete(w)]
    ELSE IF w.endpoint = 1 THEN [w EXCEPT !.endpoint = 2, !.page = 1]
    ELSE Fresh("resolve")

AfterWoo(w) ==
    IF w.works THEN [w EXCEPT !.at = "done", !.completeness = WooComplete(w)]
    ELSE Fresh("resolve")

AfterApi(w) == IF adapter = "shopify" THEN AfterShopify(w) ELSE AfterWoo(w)

(* X-WP-Total is read on the first page, if it is there.                   *)
Total(page, reported) == IF page = 1 /\ reported THEN Cardinality(listed) ELSE walk.total

AskApi(a, reported) ==
    /\ walk.at = "api" /\ LoopGoesOn(walk)
    /\ Answers(a)
    /\ LET found == ApiPage(walk.page)
           more == [walk EXCEPT
                       !.page = @ + 1, !.works = TRUE,
                       !.targets = @ \cup found,
                       !.total = IF adapter = "woocommerce"
                                 THEN Total(walk.page, reported) ELSE 0]
       IN walk' = IF a = "ok" /\ found # {}
                  THEN IF LoopGoesOn(more) THEN more ELSE AfterApi(more)
                  ELSE AfterApi([walk EXCEPT !.status = StatusAfter(a, @)])
    /\ UNCHANGED <<adapter, listed, kept, refreshed, shopChanges>>

-----------------------------------------------------------------------------
(* The sitemaps                                                            *)

(* The configured ones or those of robots.txt; without an answer to        *)
(* robots.txt, the first of the usual places that holds one, if any.  The  *)
(* walk over the API that came before, if one did, no longer matters.      *)
Resolve(a) ==
    /\ walk.at = "resolve" /\ a \in {"ok", "lost"}
    /\ IF a = "ok" THEN walkFaults' = walkFaults
       ELSE walkFaults < MaxWalkFaults /\ walkFaults' = walkFaults + 1
    /\ gaps' = (gaps \ BadAnswers) \cup (IF a = "ok" THEN {} ELSE {"unnamed"})
    /\ \E found \in IF a = "ok" THEN {Roots}
                    ELSE {<<>>} \cup {<<r>> : r \in ToSet(Roots)} :
          walk' = [walk EXCEPT !.at = "sitemaps", !.queue = found,
                               !.works = found # <<>>]
    /\ UNCHANGED <<adapter, listed, kept, refreshed, shopChanges>>

SitemapsGoOn(w) ==
    /\ w.queue # <<>> /\ Cardinality(w.processed) < MaxSitemaps
    /\ Cardinality(w.targets) < MaxUrls

(* Mutant: a sitemap that is not answered is passed over in silence.       *)
SilentlySkipped(a, status) == IF a \in Blocks THEN a ELSE status

SitemapStatus(a, status) ==
    CASE a \in Blocks -> a
      [] a = "lost" -> IF status = "ok" THEN "partial" ELSE status
      [] a \in {"error", "late"} -> "partial"
      [] OTHER -> status

Listing(sm) == {p \in listed : SitemapOf[p] = sm}

(* The new ones of a list, until there are MaxUrls; which those are is     *)
(* left open.                                                              *)
UpToMaxUrls(targets, found) ==
    IF Cardinality(targets \cup found) <= MaxUrls THEN {targets \cup found}
    ELSE {ts \in SUBSET (targets \cup found) :
             targets \subseteq ts /\ Cardinality(ts) = MaxUrls}

(* A sitemap of sitemaps is queued behind the others, a list of URLs gives *)
(* its new ones.  The time limit leaves the loop.  Children that have been *)
(* processed are skipped when their turn comes.                            *)
AskSitemap(a) ==
    /\ walk.at = "sitemaps" /\ SitemapsGoOn(walk)
    /\ Head(walk.queue) \notin walk.processed
    /\ Answers(a)
    /\ LET sm == Head(walk.queue)
           asked == [walk EXCEPT !.queue = Tail(@), !.processed = @ \cup {sm}]
       IN CASE a = "late" -> walk' = [walk EXCEPT !.status = "partial", !.at = "categories"]
            [] a = "ok" ->
                  \E ts \in UpToMaxUrls(walk.targets, Listing(sm)) :
                      walk' = [asked EXCEPT !.queue = @ \o ChildrenOf[sm], !.targets = ts]
            [] OTHER -> walk' = [asked EXCEPT !.status = SitemapStatus(a, @)]
    /\ UNCHANGED <<adapter, listed, kept, refreshed, shopChanges>>

SkipSitemap ==
    /\ walk.at = "sitemaps" /\ SitemapsGoOn(walk)
    /\ Head(walk.queue) \in walk.processed
    /\ walk' = [walk EXCEPT !.queue = Tail(@)]
    /\ UNCHANGED <<adapter, listed, kept, gaps, refreshed, shopChanges, walkFaults>>

BaseComplete(w) ==
    IF w.status = "ok" /\ w.works /\ w.targets # {}
    THEN IF Cardinality(w.targets) >= ExpectedMin THEN "complete" ELSE "partial"
    ELSE IF w.targets # {} THEN "partial" ELSE "unknown"

(* Category pages are walked only when the sitemaps gave nothing; whatever *)
(* they give is part of the catalogue.                                     *)
EndSitemaps ==
    /\ \/ walk.at = "categories"
       \/ walk.at = "sitemaps" /\ ~SitemapsGoOn(walk)
    /\ \E links \in IF walk.targets = {} THEN SUBSET listed ELSE {{}} :
          LET w == [walk EXCEPT
                       !.at = "done",
                       !.targets = @ \cup links,
                       !.status = IF links # {} /\ @ = "ok" THEN "partial" ELSE @]
          IN walk' = [w EXCEPT !.completeness = BaseComplete(w)]
    /\ UNCHANGED <<adapter, listed, kept, gaps, refreshed, shopChanges, walkFaults>>

-----------------------------------------------------------------------------
(* refreshKnownListing and extractListing                                  *)

(* What the page of a product answers.  A page that is gone says 404, says *)
(* so in its text, or sends the visitor to a list.                         *)
PageAnswers(p) ==
    {"lost", "error", "blocked", "rate_limited", "empty_shell"}
    \cup IF p \in listed THEN {"product"} ELSE {"404", "soft_404", "list"}

(* Mutant: where a redirection has led is not looked at.                   *)
AnyPage(answer) ==
    CASE answer \in {"product", "list"} -> "ok"
      [] answer \in {"lost", "404", "soft_404"} -> "unavailable"
      [] answer \in {"error", "empty_shell"} -> "parse_error"
      [] OTHER -> "blocked"

ExtractStatus(answer) ==
    CASE answer = "product" -> "ok"
      [] answer \in {"lost", "404", "soft_404"} -> "unavailable"
      [] answer \in {"error", "empty_shell"} -> "parse_error"
      [] answer = "list" -> "not_product"
      [] OTHER -> "blocked"

(* extractByPlatformId: "none" when the API does not answer, or there is   *)
(* no API.                                                                 *)
ByIdAnswers(p) ==
    {"none"} \cup
    (IF adapter = "generic" THEN {} ELSE IF p \in listed THEN {"ok"} ELSE {"unavailable"})

(* Only a good answer of the API is taken; the page has the last word.     *)
Refresh(p) ==
    /\ walk.at = "idle"
    /\ \E byId \in ByIdAnswers(p), page \in PageAnswers(p) :
          refreshed' = [of |-> p, byId |-> byId, page |-> page,
                        status |-> IF byId = "ok" THEN "ok" ELSE ExtractStatus(page)]
    /\ walk' = [walk EXCEPT !.at = "refreshed"]
    /\ UNCHANGED <<adapter, listed, kept, gaps, shopChanges, walkFaults>>

WalkNext ==
    \/ BeginWalk \/ SkipSitemap \/ EndSitemaps
    \/ \E a \in BadAnswers \cup {"ok"} :
         \/ \E reported \in BOOLEAN : AskApi(a, reported)
         \/ Resolve(a) \/ AskSitemap(a)
    \/ \E p \in Products : AddProduct(p) \/ RemoveProduct(p) \/ Refresh(p)

WalkSpec == WalkInit /\ [][WalkNext]_walkVars

-----------------------------------------------------------------------------
WalkTypeOK ==
    /\ adapter \in Adapters /\ listed \subseteq Products /\ kept \subseteq listed
    /\ walk.at \in {"idle", "api", "resolve", "sitemaps", "categories", "done",
                    "refreshed"}
    /\ walk.targets \subseteq Products
    /\ walk.status \in {"ok", "partial"} \cup Blocks
    /\ walk.completeness \in {"complete", "partial", "unknown"}
    /\ refreshed.of \in Products \cup {0}
    /\ gaps \subseteq BadAnswers \cup {"added", "removed", "unnamed"}

AtALimit ==
    \/ walk.page > MaxPages \/ Cardinality(walk.targets) >= MaxUrls
    \/ Cardinality(walk.processed) >= MaxSitemaps

(* What each way of walking cannot notice.  Shopify has no count to hold   *)
(* its pages against; the count of WooCommerce is that of the first page,  *)
(* so that a product that has come makes up for one that was not reached;  *)
(* an answer that is no sitemap has no URL, and a sitemap that robots.txt  *)
(* could not name is not missed.                                           *)
Unnoticed ==
    IF walk.processed # {}
    THEN AtALimit \/ gaps \cap {"noise", "unnamed"} # {}
    ELSE IF adapter = "shopify"
    THEN AtALimit \/ gaps \cap {"removed", "lost", "error", "noise"} # {}
    ELSE \/ "removed" \in gaps
         \/ "added" \in gaps /\ (AtALimit \/ gaps \cap {"lost", "error", "noise"} # {})

(* A walk that calls its targets complete has every product that was       *)
(* listed from its beginning to its end, whatever was added or failed on   *)
(* the way, except for what that way of walking cannot notice.             *)
CompleteIsWhole ==
    walk.at = "done" /\ walk.completeness = "complete" /\ ~Unnoticed =>
        kept \subseteq walk.targets

(* A refresh finds only what the shop lists, and calls what the shop lists *)
(* unavailable only when no answer came: a block, an error or an empty     *)
(* page of a living product does not take it off the market, and a         *)
(* redirection to a list does not keep a dead one on it.                   *)
RefreshTellsGoneFromBlocked ==
    walk.at = "refreshed" =>
        /\ refreshed.status = "ok" => refreshed.of \in listed
        /\ refreshed.status = "unavailable" /\ refreshed.of \in listed =>
              refreshed.page = "lost"

(* Nothing is taken for gone without evidence, by a walk or by a refresh.  *)
NothingTakenForGone == CompleteIsWhole /\ RefreshTellsGoneFromBlocked
=============================================================================
