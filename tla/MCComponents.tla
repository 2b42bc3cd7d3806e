---------------------------- MODULE MCComponents ----------------------------
(***************************************************************************)
(* The components that have a small model of their own, in one run: the    *)
(* initial state chooses the component whose steps are taken.  No two of   *)
(* them share a variable, so nothing is lost by taking them in turn.       *)
(***************************************************************************)
EXTENDS ProducerRegister, ClusterSweep, PoliteFetcher, ConnectionPool, Migrations,
        ImportBatch, MatchEngine, OfferPrice, MarketPosition, SourceWalk, JobLedger,
        Settings, PageReading, ListingIdentity, ProducerNames,
        CandidateSearch, SearchRounds, DecisionLog, Alerts

CONSTANTS p1, p2, l1, i1, i2, v1, v2, v3, c1, c2, c3, x1, x2, none

VARIABLE part   \* the component this behaviour is of

-----------------------------------------------------------------------------
(* ProducerRegister, ClusterSweep                                          *)
MCNamesIn == l1 :> <<p1>>
MCTitlesOf == i1 :> {"title"}
MCFirstIdentity == [l \in 1..Rows |-> [bottle |-> i1, brand |-> i1]]

(* ConnectionPool, Migrations: x1 is of a release with one file more        *)
MCLockOf == (c1 :> 1) @@ (c2 :> 1) @@ (c3 :> 2)
MCFiles == (x1 :> 3) @@ (x2 :> 2)

(* ImportBatch: row 2 is another edition of 1, which the file takes for a  *)
(* duplicate; 3 is another winery's wine that looks like 1; 4, in another  *)
(* file, has no volume                                                     *)
MCRowsOf == (x1 :> {1, 2, 3}) @@ (x2 :> {4})
MCFamilyName == <<"x", "x", "y", "x">>
MCRowKey == <<1, 2, 1, 4>>
MCFileKey == <<1, 1, 3, 4>>
MCLikeness == <<1, 1, 1, 4>>

(* MatchEngine: the wine profile, weights in per cent                      *)
MCFields == {"producer", "vintage", "volumeMl", "gtin", "categoryKey", "region"}
MCRole == [f \in MCFields |->
    CASE f \in {"producer", "vintage"} -> "required"
      [] f \in {"volumeMl", "gtin"} -> "contradiction_only"
      [] OTHER -> "supporting"]
MCWeight == [f \in MCFields |->
    CASE f = "producer" -> 18
      [] f \in {"vintage", "volumeMl"} -> 16
      [] f = "gtin" -> 4
      [] OTHER -> 6]
MCStrength == ("gtin" :> 90) @@ ("fts" :> 50) @@ ("trigram" :> 45)
MCThresholds == [evidenceCoverage |-> 9000, extractionQuality |-> 9000,
                 agreementScore |-> 9600, topMargin |-> 1000, review |-> 7000,
                 ambiguous |-> 300, priceRatioMax |-> 20000]

Candidate(id, rel, channels, quality, rejections, priceRatio) ==
    [id |-> id, rel |-> rel, channels |-> channels, quality |-> quality,
     rejections |-> rejections, priceRatio |-> priceRatio]

Wine(p, y, ml, ean, cat, reg) ==
    [producer |-> p, vintage |-> y, volumeMl |-> ml, gtin |-> ean,
     categoryKey |-> cat, region |-> reg]

MCPool == {
    Candidate("exact", Wine("same", "same", "same", "same", "same", "same"),
              {"gtin", "fts"}, 9500, 0, 0),
    Candidate("twin", Wine("same", "same", "same", "silent", "same", "same"),
              {"fts"}, 9500, 0, 0),
    Candidate("fuzzy", Wine("near", "same", "same", "silent", "same", "part"),
              {"trigram"}, 9500, 0, 0),
    Candidate("young", Wine("same", "unknown", "same", "same", "same", "silent"),
              {"gtin"}, 9000, 0, 30000),
    Candidate("magnum", Wine("same", "same", "far", "silent", "same", "same"),
              {"fts"}, 9500, 0, 0),
    Candidate("refused", Wine("same", "same", "unknown", "silent", "same", "same"),
              {"fts"}, 9500, 1, 0),
    Candidate("alias", Wine("shopAlias", "same", "same", "silent", "same", "silent"),
              {"fts", "trigram"}, 8000, 0, 15000),
    Candidate("cheap", Wine("same", "same", "same", "silent", "part", "far"),
              {}, 7000, 0, 30000)}

(* OfferPrice: prices either side of every test                            *)
MCSnapshots ==
    [current : {none, 10, 16}, sale : {none, 10}, regular : {none, 8, 16},
     restricted : {none, 90}, perUnit : {FALSE}]
    \cup [current : {15}, sale : {none}, regular : {none}, restricted : {none},
          perUnit : {TRUE}]

(* SourceWalk: a sitemap of sitemaps that names one of robots.txt again    *)
MCRoots == <<"index", "more">>
MCChildren == [s \in {"index", "wines", "more"} |->
    IF s = "index" THEN <<"wines", "more">> ELSE <<>>]
MCSitemapOf == <<"wines", "more", "wines", "more", "wines", "more">>

(* Settings: the two copies of the API                                     *)
MCTtl == [c \in {"apiSettings", "apiTaxonomy"} |-> 1]

(* PageReading: prices in hundreds of forints                              *)
Word(w) == [w |-> w]
Amount(v, el, cls, is) == [w |-> "price", v |-> v, el |-> el, cls |-> cls, is |-> is]
OnPage(cls, text) == [cls |-> cls, tokens |-> text]

MCBlocks == {
    OnPage({}, <<Word("frame"), Amount(150, "bare", {}, "threshold"), Word("above"), Word("stop")>>),
    OnPage({}, <<Word("frame"), Amount(150, "span", {}, "threshold"), Word("above")>>),
    OnPage({}, <<Amount(150, "span", {}, "threshold"), Word("above"), Word("frame")>>),
    OnPage({}, <<Word("frame"), Amount(15, "span", {}, "delivery")>>),
    OnPage({"price", "frame"}, <<Word("frame"), Amount(150, "bare", {}, "threshold"), Word("above")>>),
    OnPage({}, <<Word("above"), Word("stop")>>),
    OnPage({}, <<Word("other"), Amount(50, "bare", {}, "product")>>),
    OnPage({}, <<Amount(50, "span", {}, "product")>>),
    OnPage({"price"}, <<Amount(80, "del", {}, "old"), Amount(50, "ins", {}, "product")>>),
    OnPage({"price"}, <<Amount(50, "bare", {}, "product")>>),
    OnPage({}, <<Amount(80, "span", {"old"}, "old"), Amount(50, "span", {}, "product"),
                 Amount(67, "span", {"unit"}, "unit")>>),
    OnPage({}, <<Word("frame"), Amount(150, "bare", {}, "threshold"), Word("above"),
                 Amount(50, "span", {}, "product")>>),
    OnPage({}, <<Amount(1, "span", {"deposit"}, "deposit")>>)}

OnOffer(type, price, currency, list, stock, is) ==
    [type |-> type, price |-> price, currency |-> currency, list |-> list,
     stock |-> stock, is |-> is]

Node(type, named, onNode, lowPrice) ==
    [type |-> type, named |-> named, offers |-> onNode, lowPrice |-> lowPrice]

MCNodes == {
    Node("Product", TRUE, <<OnOffer("Offer", 50, "HUF", 80, "in_stock", "product")>>, none),
    Node("Product", TRUE,
         <<OnOffer("OfferShippingDetails", 150, "HUF", none, "unknown", "threshold")>>, none),
    Node("ProductGroup", FALSE,
         <<OnOffer("none", 50, "none", none, "unknown", "product"),
           OnOffer("Offer", 55, "HUF", none, "out_of_stock", "product")>>, none),
    Node("Product", FALSE, <<>>, 50)}

MCAnswers ==
    {none, [price |-> 5000, regular |-> 8000, minor |-> 2, stock |-> "in_stock", is |-> 50]}

(* ListingIdentity: a winery and the alias of a style come and go          *)
Phrase(slot, id, words, of, canonical) ==
    [slot |-> slot, id |-> id, words |-> words, of |-> of, canonical |-> canonical]

WinePhrases == {
    Phrase("producer", "Sauska", <<"sauska">>, none, TRUE),
    Phrase("grape", "Rizling", <<"rizling">>, none, TRUE),
    Phrase("grape", "Olaszrizling", <<"olasz", "rizling">>, none, FALSE),
    Phrase("grape", "Kekfrankos", <<"kekfrankos">>, none, TRUE),
    Phrase("region", "Villany", <<"villanyi">>, none, FALSE),
    Phrase("vineyard", "Kopar", <<"villanyi", "kopar">>, "Bock", TRUE),
    Phrase("style", "Rose", <<"rose">>, none, TRUE),
    Phrase("style", "Pezsgo", <<"pezsgo">>, none, TRUE)}
Brut == Phrase("style", "Pezsgo", <<"brut">>, none, FALSE)
Bock == Phrase("producer", "Bock", <<"bock">>, none, TRUE)
MCPhrasesOf ==
    ("noBock" :> WinePhrases \cup {Brut}) @@ ("noBrut" :> WinePhrases \cup {Bock})
    @@ ("all" :> WinePhrases \cup {Brut, Bock})

WinePage(name, vendor, spec, volume, ean, path) ==
    [name |-> name, vendor |-> vendor, spec |-> spec, volume |-> volume, gtin |-> ean,
     path |-> path]

MCPageOf ==
    ("sparkling" :> WinePage(<<"sauska", "pezsgo", "brut", "2015">>, <<>>, <<"nv">>, "75cl",
                             "599", <<>>))
    @@ ("rose" :> WinePage(<<"sauska", "rose", "brut", "pezsgo", "2015">>, <<"sauska">>,
                           <<"75cl">>, none, none, <<<<"bor">>>>))
    @@ ("vineyard" :> WinePage(<<"bock", "villanyi", "kopar", "kekfrankos", "2015">>, <<>>,
                               <<>>, "75cl", none, <<<<"bor">>, <<"voros">>>>))
    @@ ("red" :> WinePage(<<"sauska", "kekfrankos", "2015", "75cl">>, <<"sauska">>, <<>>,
                          none, none, <<>>))
    @@ ("other" :> WinePage(<<"bock", "kekfrankos", "2015", "75cl">>, <<"bock">>, <<"2015">>,
                            none, none, <<>>))
    @@ ("carton" :> WinePage(<<"olasz", "rizling", "nv", "6db", "limited", "box">>, <<>>, <<>>,
                             none, none, <<>>))
    @@ ("spirit" :> WinePage(<<"bock", "est", "1998", "sauska", "palinka", "rizling">>, <<>>,
                             <<"2015">>, none, "599", <<<<"palinka">>>>))

MCCategories == {
    [key |-> "wine", words |-> <<"bor">>], [key |-> "wine", words |-> <<"rose">>],
    [key |-> "sparkling_wine", words |-> <<"pezsgo">>],
    [key |-> "palinka", words |-> <<"palinka">>]}
MCVolumes == <<"75cl", "150cl">>
MCPacks == {[w |-> "6db", n |-> 6]}
MCEditions == <<"limited">>
MCBoxes == <<"box">>
MCColours == <<"rose", "voros">>
MCStyleKind == ("Rose" :> "still") @@ ("Pezsgo" :> "sparkling")
MCColourOf == ("Rose" :> "rose") @@ ("Pezsgo" :> none) @@ ("Kekfrankos" :> "red")
              @@ ("Rizling" :> "white") @@ ("Olaszrizling" :> "white")

(* ProducerNames: two persons of one family and their cellar; names with a *)
(* word of the wine; names with a marker before and a grape within         *)
GereAttila == <<"gere", "attila">>
GereZsolt == <<"gere", "zsolt">>
GerePince == <<"gere", "pince">>
GereExtra == <<"gere", "extra">>
NoListings == <<>>
Persons == (<<"s1", GereAttila>> :> 1) @@ (<<"s2", GereAttila>> :> 1)
           @@ (<<"s1", GereZsolt>> :> 1) @@ (<<"s2", GereZsolt>> :> 1)
           @@ (<<"s1", GerePince>> :> 1)
MCStocks == {
    NoListings, Persons,
    (<<"s1", GerePince>> :> 2) @@ (<<"s1", GereExtra>> :> 1) @@ (<<"s2", GereExtra>> :> 1)
        @@ (<<"s2", <<"gere", "brut">>>> :> 2),
    (<<"s1", <<"chateau", "de", "gere", "merlot">>>> :> 2) @@ (<<"s2", <<"gere">>>> :> 2),
    (<<"s1", <<"chateau", "zsolt", "merlot", "cuvee">>>> :> 2) @@ (<<"s2", <<"gere">>>> :> 1)}
MCAlphabet == <<"attila", "brut", "chateau", "cuvee", "de", "extra", "gere", "merlot",
                "pince", "zsolt">>
MCLogOf == <<45, 72, 90, 105, 117, 127>>
MCWineWords == {Phrase("grape", <<"merlot">>, <<"merlot">>, none, TRUE)}

(* CandidateSearch: a wine of which all is known, one of which only the    *)
(* brand is, and one out of force; shelves with one listing that lacks a   *)
(* field and whose name says nothing, one where three compete, and one     *)
(* where two have the relation                                             *)
WineOf(id, producer, brand, brandWords, expression, vintage, volume, gtin, display, grapes,
       refused, live) ==
    [id |-> id, producer |-> producer, brand |-> brand, brandWords |-> brandWords,
     expression |-> expression, edition |-> none, age |-> none, vintage |-> vintage,
     volume |-> volume, category |-> "wine", gtin |-> gtin, display |-> display,
     grapes |-> grapes, refused |-> refused, live |-> live]

MCWines == {
    WineOf("kopar", "Gere", none, {"gere"}, {"kopar"}, "2019", "75cl", "599",
           {"gere", "kopar", "cuvee"}, "M", {}, TRUE),
    WineOf("bare", none, "Sauska", {"sauska"}, none, none, none, none, {"sauska"}, none,
           {2}, TRUE),
    WineOf("old", "Gere", none, {"gere"}, none, "2015", "75cl", none, {"gere"}, "M", {}, FALSE)}

ShelfRow(producer, brand, expression, vintage, volume, category, gtin, words, grapes, related) ==
    [producer |-> producer, brand |-> brand, expression |-> expression, vintage |-> vintage,
     volume |-> volume, category |-> category, gtin |-> gtin, words |-> words,
     raw |-> words \cup ({vintage, volume} \ {none}), grapes |-> grapes, related |-> related,
     active |-> TRUE]

WholeRow ==
    ShelfRow("Gere", none, {"kopar"}, "2019", "75cl", "wine", none, {"gere", "kopar"}, "M", {})
HeldRow ==
    ShelfRow(none, none, none, none, none, none, none, {"bor"}, none, {"kopar", "bare"})
EanRow ==
    ShelfRow(none, "Sauska", none, "2018", none, "wine", "599", {"sauska", "bor"}, none, {})
Crowd == <<HeldRow, EanRow, [WholeRow EXCEPT !.vintage = none]>>
NoRows == <<>>
MCShelves ==
    {1 :> [WholeRow EXCEPT ![gap] = none, !.words = {"bor"}, !.raw = {"bor"}] :
        gap \in WineFields}
    \cup {NoRows, Crowd, <<HeldRow, HeldRow>>}
MCMakerAliases == {[maker |-> "Sauska", words |-> {"bor"}]}

(* SearchRounds: a tracked pair and one that always fails, two others;     *)
(* Alerts: one that is raised with two levels                              *)
MCPairs == {v1, v2} \X {1, 2}
MCTracked == {<<v1, 2>>}
MCFirstOrder == LET s == SetToSeq(MCPairs)
                IN {<<s[i], s[j]>> : <<i, j>> \in {d \in (1..4) \X (1..4) : d[1] < d[2]}}
MCBroken == {<<v2, 2>>}
MCInDays == (1 :> 1) @@ (3 :> 1) @@ (7 :> 2) @@ (14 :> 2) @@ (30 :> 2)
MCLevelsOf == ("health" :> {"warn", "error"}) @@ ("gate" :> {"error"})

-----------------------------------------------------------------------------
readingVars == <<registerVars, nameVars, identityVars, pageVars, searchVars>>
decidingVars == <<sweepVars, engineVars, pairVars, logVars, alertVars>>
sellingVars == <<fetchVars, walkVars, offerVars, marketVars>>
runningVars == <<poolVars, migrationVars, importVars, ledgerVars, settingsVars>>

allVars == <<part, readingVars, decidingVars, sellingVars, runningVars>>

Init ==
    /\ part \in {"register", "sweep", "fetcher", "pool", "migrations", "import",
                 "engine", "offer", "market", "walk", "ledger",
                 "settings", "page", "identity", "names", "search", "rounds",
                 "log", "alerts"}
    /\ RegisterInit /\ SweepInit /\ FetchInit /\ PoolInit /\ MigrationInit
    /\ ImportInit /\ EngineInit /\ OfferInit /\ MarketInit /\ WalkInit
    /\ LedgerInit /\ SettingsInit /\ PageInit /\ IdentityInit
    /\ NamesInit /\ SearchInit /\ RoundsInit /\ LogInit /\ AlertsInit
    /\ shopPage = "sparkling"
    /\ part # "identity" => seller = [wine |-> TRUE, resolves |-> TRUE]
    /\ part # "names" => shelves = NoListings
    /\ part # "search" => shelf = NoRows
    /\ part # "alerts" => webhook
    /\ part # "walk" => adapter = "generic"

(* A step of the chosen component; the others stay as they are.            *)
ReadingStep ==
    /\ \/ part = "register" /\ RegisterNext
          /\ UNCHANGED <<nameVars, identityVars, pageVars, searchVars>>
       \/ part = "names" /\ NamesNext
          /\ UNCHANGED <<registerVars, identityVars, pageVars, searchVars>>
       \/ part = "identity" /\ IdentityNext
          /\ UNCHANGED <<registerVars, nameVars, pageVars, searchVars>>
       \/ part = "page" /\ PageNext
          /\ UNCHANGED <<registerVars, nameVars, identityVars, searchVars>>
       \/ part = "search" /\ SearchNext
          /\ UNCHANGED <<registerVars, nameVars, identityVars, pageVars>>
    /\ UNCHANGED <<part, decidingVars, sellingVars, runningVars>>

DecidingStep ==
    /\ \/ part = "sweep" /\ SweepNext
          /\ UNCHANGED <<engineVars, pairVars, logVars, alertVars>>
       \/ part = "engine" /\ AnswerQuestion
          /\ UNCHANGED <<sweepVars, pairVars, logVars, alertVars>>
       \/ part = "rounds" /\ RoundsNext
          /\ UNCHANGED <<sweepVars, engineVars, logVars, alertVars>>
       \/ part = "log" /\ LogNext
          /\ UNCHANGED <<sweepVars, engineVars, pairVars, alertVars>>
       \/ part = "alerts" /\ AlertsNext
          /\ UNCHANGED <<sweepVars, engineVars, pairVars, logVars>>
    /\ UNCHANGED <<part, readingVars, sellingVars, runningVars>>

SellingStep ==
    /\ \/ part = "fetcher" /\ FetchNext
          /\ UNCHANGED <<walkVars, offerVars, marketVars>>
       \/ part = "walk" /\ WalkNext
          /\ UNCHANGED <<fetchVars, offerVars, marketVars>>
       \/ part = "offer" /\ OfferNext
          /\ UNCHANGED <<fetchVars, walkVars, marketVars>>
       \/ part = "market" /\ MarketNext
          /\ UNCHANGED <<fetchVars, walkVars, offerVars>>
    /\ UNCHANGED <<part, readingVars, decidingVars, runningVars>>

RunningStep ==
    /\ \/ part = "pool" /\ PoolNext
          /\ UNCHANGED <<migrationVars, importVars, ledgerVars, settingsVars>>
       \/ part = "migrations" /\ MigrationNext
          /\ UNCHANGED <<poolVars, importVars, ledgerVars, settingsVars>>
       \/ part = "import" /\ ImportNext
          /\ UNCHANGED <<poolVars, migrationVars, ledgerVars, settingsVars>>
       \/ part = "ledger" /\ LedgerNext
          /\ UNCHANGED <<poolVars, migrationVars, importVars, settingsVars>>
       \/ part = "settings" /\ SettingsNext
          /\ UNCHANGED <<poolVars, migrationVars, importVars, ledgerVars>>
    /\ UNCHANGED <<part, readingVars, decidingVars, sellingVars>>

Next == ReadingStep \/ DecidingStep \/ SellingStep \/ RunningStep

(* The fairness of each component, as its own specification states it.     *)
Spec ==
    /\ Init /\ [][Next]_allVars
    /\ WF_sweepVars(part = "sweep" /\ Sweep)
    /\ \A l \in Unplaced : WF_sweepVars(part = "sweep" /\ JobStep(l))
    /\ WF_fetchVars(part = "fetcher" /\ Tick)
    /\ \A f \in Fetches : WF_fetchVars(part = "fetcher" /\ FetchStep(f))
    /\ \A c \in Callers : WF_poolVars(part = "pool" /\ CallerStep(c))

-----------------------------------------------------------------------------
(* A component that is not chosen stays in its initial state.              *)
ComponentsTypeOK ==
    CASE part = "register" -> RegisterTypeOK
      [] part = "sweep" -> SweepTypeOK
      [] part = "fetcher" -> FetchTypeOK
      [] part = "pool" -> PoolTypeOK
      [] part = "migrations" -> MigrationTypeOK
      [] part = "import" -> ImportTypeOK
      [] part = "engine" -> EngineTypeOK
      [] part = "offer" -> OfferTypeOK
      [] part = "market" -> MarketTypeOK
      [] part = "walk" -> WalkTypeOK
      [] part = "ledger" -> LedgerTypeOK
      [] part = "settings" -> SettingsTypeOK
      [] part = "page" -> PageTypeOK
      [] part = "identity" -> IdentityTypeOK
      [] part = "names" -> NamesTypeOK
      [] part = "search" -> SearchTypeOK
      [] part = "rounds" -> RoundsTypeOK
      [] part = "log" -> LogTypeOK
      [] part = "alerts" -> AlertsTypeOK

(* No listing of the sweep's backlog stays there for ever (ClusterSweep's  *)
(* NoListingStarves, of the behaviours of that component).                 *)
NoListingOfTheSweepStarves == part = "sweep" => NoListingStarves

(* Every fetch of the polite fetcher ends: a permit is always given back   *)
(* and the waiting are woken.                                              *)
EveryFetchOfTheFetcherEnds == part = "fetcher" => EveryFetchEnds

(* The pool gets its connections back (ConnectionPool's PoolDrains): the   *)
(* callers that starve each other fail by their timeouts.                  *)
ThePoolDrains == part = "pool" => PoolDrains
=============================================================================
