--------------------------- MODULE CandidateSearch ---------------------------
(***************************************************************************)
(* How a variant and the listings of a shop find each other before any     *)
(* decision (generateCandidates, generateVariantCandidates).  A search     *)
(* asks the database one query after the other, its channels; the shop's   *)
(* listings change in between, a channel may fail and then has found       *)
(* nothing, each gives PerChannel rows at most, in no order unless it      *)
(* sorts them, and of all TotalFound are kept, the best first.             *)
(*                                                                         *)
(* No variant has a SKU (variantIdentity), so that its channel is never    *)
(* asked.  Names are sets of words, of brands and of what identifies the   *)
(* wine (signatureTokens); a name's years and sizes are fields.  The       *)
(* similarity of two names (pg_trgm) is the share of the words that they   *)
(* have in common, and full text search scores as high as the code lets    *)
(* it.  Scores and shares are in per cent.                                 *)
(***************************************************************************)
EXTENDS Integers, Sequences, FiniteSets, FiniteSetsExt, SequencesExt

CONSTANTS
    Wines,             \* the canonical variants
    Shelves,           \* what the shop may list: id -> row
    NoField,           \* a field that is not known
    MakerAliases,      \* maker -> the words of its approved aliases
    PerChannel, TotalFound, TopVariants, TopEvaluated, MinSimilarity,
    MaxShelfChanges, MaxChannelFaults   \* bounds

(* What a search knows of a variant, with its maker and its family, and of *)
(* a listing; "live" is that the variant is active or proposed.            *)
VariantFields ==
    {"id", "producer", "brand", "brandWords", "expression", "edition", "age", "vintage",
     "volume", "category", "gtin", "display", "grapes", "refused", "live"}

ListingFields ==
    {"producer", "brand", "expression", "vintage", "volume", "category", "gtin", "grapes",
     "words", "raw", "related", "active"}

ASSUME SearchAssumption ==
    /\ \A w \in Wines : DOMAIN w = VariantFields
    /\ \A s \in Shelves : \A l \in DOMAIN s : DOMAIN s[l] = ListingFields
    /\ NoField \notin Wines /\ IsFiniteSet(Wines)
    /\ \A w \in Wines :
          /\ IsFiniteSet(w.brandWords) /\ IsFiniteSet(w.display)
          /\ w.expression # NoField => IsFiniteSet(w.expression)
    /\ \A s \in Shelves :
          IsFiniteSet(DOMAIN s) /\ \A l \in DOMAIN s : IsFiniteSet(s[l].words)
    /\ {PerChannel, TotalFound, TopVariants, TopEvaluated} \subseteq Nat \ {0}
    /\ {MaxShelfChanges, MaxChannelFaults} \subseteq Nat
    /\ MinSimilarity \in 1..100
    /\ 2 * PerChannel <= TotalFound /\ TopEvaluated <= TopVariants

VARIABLES
    shelf,      \* the listings of the shop
    sought,     \* the variant of the search, or NoField
    todo,       \* the channels that have not been asked
    found,      \* listing -> what the channels said of it
    chosen,     \* the candidates of a search that has just ended
    lookup,     \* the variants that have just been found for a listing
    disturbed,  \* listings that changed during the search
    failed,     \* channels that failed in it
    shelfChanges, channelFaults

searchVars == <<shelf, sought, todo, found, chosen, lookup, disturbed, failed,
                shelfChanges, channelFaults>>

NoSearch == [wine |-> NoField, found |-> {}]
NoLookup == [row |-> NoField, found |-> {}]

SearchInit ==
    /\ shelf \in Shelves
    /\ sought = NoField /\ todo = {} /\ found = <<>>
    /\ chosen = NoSearch /\ lookup = NoLookup
    /\ disturbed = {} /\ failed = {}
    /\ shelfChanges = 0 /\ channelFaults = 0

-----------------------------------------------------------------------------
(* query-plan.ts                                                           *)

AsWord(field) == IF field = NoField THEN {} ELSE {field}
AsWords(field) == IF field = NoField THEN {} ELSE field

(* The levels from the narrow to the wide; one that says what an earlier   *)
(* one has said, or nothing, is left out.  The EAN goes before all.        *)
Levels(w) ==
    LET brand == w.brandWords
        wine == brand \cup AsWords(w.expression)
        dated == IF w.vintage # NoField THEN {w.vintage} ELSE AsWord(w.age)
    IN  <<AsWord(w.gtin),
          wine \cup AsWord(w.edition) \cup dated \cup AsWord(w.volume),
          wine \cup AsWord(w.edition) \cup dated,
          wine \cup AsWord(w.edition),
          wine \cup dated, w.display, wine, brand \cup AsWord(w.volume), brand>>

buildQueryPlan(w) ==
    LET said(n) == Levels(w)[n]
        new == {n \in 1..9 : said(n) # {} /\ \A m \in 1..(n - 1) : said(m) # said(n)}
    IN  {[level |-> n - 1, words |-> said(n)] : n \in new}

(* The level that is searched for: the narrowest.                          *)
primaryQuery(w) ==
    LET first == {step \in buildQueryPlan(w) : step.level = 1}
    IN  IF first = {} THEN w.display ELSE (CHOOSE step \in first : TRUE).words

signatureTokens(w) == w.display \ w.brandWords

Made(w) == w.producer # NoField \/ w.brand # NoField

MadeBy(r, w) == IF w.producer # NoField THEN r.producer = w.producer ELSE r.brand = w.brand

(* Mutant: without the pass that does without the maker.                   *)
BlockingPassesOfMaker ==
    <<[asks |-> {"maker", "expression", "vintage", "volume"}, score |-> 90],
      [asks |-> {"maker", "expression", "volume"}, score |-> 90],
      [asks |-> {"maker", "vintage", "category"}, score |-> 70],
      [asks |-> {"maker", "tokens"}, score |-> 70],
      [asks |-> {"maker", "category", "expression", "volume"}, score |-> 70],
      [asks |-> {"volume", "tokens"}, score |-> 50]>>

(* The passes, of which any one misses the listings that lack a field.     *)
BlockingPasses ==
    <<[asks |-> {"maker", "expression", "vintage", "volume"}, score |-> 90],
      [asks |-> {"maker", "expression", "volume"}, score |-> 90],
      [asks |-> {"maker", "vintage", "category"}, score |-> 70],
      [asks |-> {"maker", "tokens"}, score |-> 70],
      [asks |-> {"category", "expression", "volume"}, score |-> 70],
      [asks |-> {"volume", "tokens"}, score |-> 50]>>

Says(w, field) ==
    CASE field = "maker" -> Made(w)
      [] field = "tokens" -> signatureTokens(w) # {}
      [] OTHER -> w[field] # NoField

buildBlockingKeys(w) ==
    {n \in DOMAIN BlockingPasses :
        /\ \A field \in BlockingPasses[n].asks : Says(w, field)
        /\ n = 6 => Cardinality(signatureTokens(w)) >= 2}

Fits(r, w, field) ==
    CASE field = "maker" -> MadeBy(r, w)
      [] field = "tokens" -> r.words \cap signatureTokens(w) # {}
      [] OTHER -> r[field] = w[field]

-----------------------------------------------------------------------------
(* candidates.ts                                                           *)

Share(part, whole) == (100 * Cardinality(part)) \div Cardinality(whole)

Similarity(a, b) == IF a \cup b = {} THEN 0 ELSE Share(a \cap b, a \cup b)

SameGtin(r, w) == w.gtin # NoField /\ r.gtin = w.gtin

(* The channels, in the order of the code; the passes are channels that    *)
(* are named by their numbers.                                             *)
Channels ==
    << <<"verified_link", 0>>, <<"gtin", 0>>,
       <<"block", 1>>, <<"block", 2>>, <<"block", 3>>,
       <<"block", 4>>, <<"block", 5>>, <<"block", 6>>,
       <<"fts", 0>>, <<"trigram", 0>>, <<"word_similarity", 0>>, <<"trigram", 1>>, <<"alias", 0>> >>

Asked(channel, w) ==
    CASE channel[1] = "gtin" -> w.gtin # NoField
      [] channel[1] = "block" -> channel[2] \in buildBlockingKeys(w)
      [] channel[1] = "word_similarity" -> w.brandWords # {}
      [] channel = <<"trigram", 1>> -> w.brandWords # {} /\ signatureTokens(w) # {}
      [] channel[1] = "alias" -> Made(w)
      [] OTHER -> TRUE

ChannelsOf(w) == {n \in DOMAIN Channels : Asked(Channels[n], w)}

AliasesOf(w) == {a \in MakerAliases : a.maker \in {w.producer, w.brand} \ {NoField}}

IsHit(channel, r, w) ==
    LET query == primaryQuery(w)
    IN  CASE channel[1] = "verified_link" -> w.id \in r.related
          [] channel[1] = "gtin" -> SameGtin(r, w)
          [] channel[1] = "block" ->
                 \A field \in BlockingPasses[channel[2]].asks : Fits(r, w, field)
          [] channel[1] = "fts" -> query \subseteq r.raw
          [] channel = <<"trigram", 0>> -> Similarity(r.words, query) >= MinSimilarity
          [] channel[1] = "word_similarity" ->
                 /\ Share(w.brandWords \cap r.words, w.brandWords) >= 50
                 /\ w.volume # NoField => r.volume \in {w.volume, NoField}
          [] channel = <<"trigram", 1>> ->
                 w.brandWords \subseteq r.words /\ r.words \cap signatureTokens(w) # {}
          [] channel[1] = "alias" -> \E a \in AliasesOf(w) : a.words \subseteq r.words

Sorted(channel) == channel[1] \in {"fts", "trigram", "word_similarity"}

ChannelScore(channel, r, w) ==
    CASE channel[1] \in {"verified_link", "gtin", "fts"} -> 100
      [] channel[1] = "block" -> BlockingPasses[channel[2]].score
      [] channel = <<"trigram", 0>> -> Similarity(r.words, primaryQuery(w))
      [] channel[1] = "word_similarity" ->
             (85 * Share(w.brandWords \cap r.words, w.brandWords)) \div 100
      [] channel = <<"trigram", 1>> -> (80 * Similarity(r.words, w.brandWords)) \div 100
      [] channel[1] = "alias" -> 75

(* What a query with a LIMIT may give: any of the rows, or the best.       *)
Limited(hits, limit, sorted, score) ==
    {s \in kSubset(Min({limit, Cardinality(hits)}), hits) :
        sorted => \A h \in s, other \in hits \ s : score[h] >= score[other]}

Active == {l \in DOMAIN shelf : shelf[l].active}

(* The first channel that finds a listing gives its row and its place.     *)
Added(s, n, w) ==
    LET score(l) == ChannelScore(Channels[n], shelf[l], w)
    IN  [l \in DOMAIN found \cup s |->
            IF l \notin DOMAIN found
            THEN [row |-> shelf[l], at |-> n, best |-> score(l)]
            ELSE IF l \in s THEN [found[l] EXCEPT !.best = Max({@, score(l)})]
            ELSE found[l]]

StartSearch(w) ==
    /\ sought = NoField
    /\ sought' = w
    /\ todo' = ChannelsOf(w)
    /\ found' = <<>> /\ disturbed' = {} /\ failed' = {}
    /\ chosen' = NoSearch /\ lookup' = NoLookup
    /\ UNCHANGED <<shelf, shelfChanges, channelFaults>>

(* Enough listings end the passes, not the search.                         *)
StillToAsk(n, now) ==
    {m \in todo \ {n} :
        Channels[n][1] = "block" /\ Cardinality(DOMAIN now) >= TotalFound
        => Channels[m][1] # "block"}

NextChannel(n) == n \in todo /\ \A m \in todo : n <= m

AskChannel ==
    /\ \E n \in todo :
          /\ NextChannel(n)
          /\ LET hits == {l \in Active : IsHit(Channels[n], shelf[l], sought)}
                 score == [l \in hits |-> ChannelScore(Channels[n], shelf[l], sought)]
             IN \E s \in Limited(hits, PerChannel, Sorted(Channels[n]), score) :
                    found' = Added({l \in s : l \notin sought.refused}, n, sought)
          /\ todo' = StillToAsk(n, found')
    /\ UNCHANGED <<shelf, sought, chosen, lookup, disturbed, failed, shelfChanges, channelFaults>>

(* A query that fails is logged, and the channel has found nothing.        *)
ChannelFails ==
    /\ channelFaults < MaxChannelFaults
    /\ channelFaults' = channelFaults + 1
    /\ \E n \in todo :
          /\ NextChannel(n)
          /\ failed' = failed \cup {Channels[n]}
          /\ todo' = StillToAsk(n, found)
    /\ UNCHANGED <<shelf, sought, found, chosen, lookup, disturbed, shelfChanges>>

(* Mutant: of equal scores the later one goes first.                       *)
PrecedesLater(l, m) ==
    \/ found[l].best > found[m].best
    \/ found[l].best = found[m].best /\ found[l].at > found[m].at

(* The strongest channel gives the rank, and the sort is a stable one.     *)
Precedes(l, m) ==
    \/ found[l].best > found[m].best
    \/ found[l].best = found[m].best /\ found[l].at < found[m].at

EndSearch ==
    /\ sought # NoField /\ todo = {}
    /\ \E s \in kSubset(Min({TotalFound, Cardinality(DOMAIN found)}), DOMAIN found) :
          /\ \A l \in s, m \in (DOMAIN found) \ s : ~Precedes(m, l)
          /\ chosen' = [wine |-> sought, found |-> {[id |-> l, row |-> found[l].row] : l \in s}]
    /\ sought' = NoField /\ found' = <<>>
    /\ UNCHANGED <<shelf, todo, lookup, disturbed, failed, shelfChanges, channelFaults>>

(* A collection, a matcher or a person changes a listing meanwhile.        *)
ShelfChanges ==
    /\ shelfChanges < MaxShelfChanges
    /\ shelfChanges' = shelfChanges + 1
    /\ \E l \in DOMAIN shelf :
          /\ shelf' \in {[shelf EXCEPT ![l].active = ~@],
                         [shelf EXCEPT ![l].vintage = NoField],
                         [shelf EXCEPT ![l].related = {}]}
          /\ disturbed' = disturbed \cup {l}
    /\ UNCHANGED <<sought, todo, found, chosen, lookup, failed, channelFaults>>

-----------------------------------------------------------------------------
(* The other way: the variants that a listing may be.                      *)
WinesInForce == {w \in Wines : w.live}

NotContradicted(w, r) == NoField \in {w.vintage, r.vintage} \/ w.vintage = r.vintage

(* Mutant: the volume is asked for, too.                                   *)
OfTheSameBlendAndSize(w, r) ==
    /\ r.producer # NoField /\ r.grapes # NoField /\ r.volume # NoField
    /\ w.producer = r.producer /\ w.grapes = r.grapes /\ w.volume = r.volume
    /\ NotContradicted(w, r)

OfTheSameBlend(w, r) ==
    /\ r.producer # NoField /\ r.grapes # NoField
    /\ w.producer = r.producer /\ w.grapes = r.grapes
    /\ NotContradicted(w, r)

OfTheSameSize(w, r) ==
    /\ r.volume # NoField /\ w.volume = r.volume
    /\ \/ r.producer # NoField /\ w.producer = r.producer
       \/ r.brand # NoField /\ w.brand = r.brand
    /\ NotContradicted(w, r)

(* The queries of generateVariantCandidates and the scores of their rows:  *)
(* the last one does not select its own score.                             *)
VariantQueries(r) ==
    << <<100, {w \in WinesInForce : r.gtin # NoField /\ w.gtin = r.gtin}>>,
       <<95, {w \in WinesInForce : OfTheSameBlend(w, r)}>>,
       <<90, {w \in WinesInForce : OfTheSameSize(w, r)}>>,
       <<MinSimilarity, {w \in WinesInForce : Similarity(w.display, r.words) >= MinSimilarity}>> >>

(* evaluateListingForClustering holds the listing against the best.        *)
LookForWines(l) ==
    LET r == shelf[l]
        queries == VariantQueries(r)
        similarity == [w \in WinesInForce |-> Similarity(w.display, r.words)]
        given(n) == Limited(queries[n][2], TopVariants, n = 4, similarity)
    IN  /\ sought = NoField
        /\ \E g1 \in given(1), g2 \in given(2), g3 \in given(3), g4 \in given(4) :
              LET all == g1 \cup g2 \cup g3 \cup g4
                  best == [w \in all |->
                      Max({queries[n][1] : n \in {m \in 1..4 : w \in <<g1, g2, g3, g4>>[m]}})]
              IN  \E s \in Limited(all, TopEvaluated, TRUE, best) :
                      lookup' = [row |-> r, found |-> s]
        /\ chosen' = NoSearch /\ disturbed' = {} /\ failed' = {}
        /\ UNCHANGED <<shelf, sought, todo, found, shelfChanges, channelFaults>>

SearchNext ==
    \/ \E w \in WinesInForce : StartSearch(w)
    \/ AskChannel \/ ChannelFails \/ EndSearch \/ ShelfChanges
    \/ \E l \in DOMAIN shelf : LookForWines(l)

SearchSpec == SearchInit /\ [][SearchNext]_searchVars

-----------------------------------------------------------------------------
SearchTypeOK ==
    /\ sought \in Wines \cup {NoField}
    /\ todo \subseteq DOMAIN Channels
    /\ DOMAIN found \subseteq DOMAIN shelf
    /\ Cardinality(chosen.found) <= TotalFound
    /\ lookup.found \subseteq Wines /\ Cardinality(lookup.found) <= TopEvaluated
    /\ shelfChanges \in 0..MaxShelfChanges /\ channelFaults \in 0..MaxChannelFaults

WineFields == {"producer", "expression", "vintage", "volume", "category"}

(* All that identifies the wine is known, and the listing has it all, or   *)
(* all but one field that its page does not say.                           *)
AllButOne(r, w) ==
    /\ \A field \in WineFields : w[field] # NoField
    /\ \E gap \in WineFields :
          /\ r[gap] \in {w[gap], NoField}
          /\ \A field \in WineFields \ {gap} : r[field] = w[field]

Found(search) == {c.id : c \in search.found}

(* A listing that has the relation with the variant, or its EAN, is a      *)
(* candidate of each search in which its channel has not failed, whatever  *)
(* else the shop lists, unless others that have the same, or had it before *)
(* they changed, are more than a channel gives; and one that lacks a       *)
(* single field is, if no channel has failed and the limits leave it room: *)
(* of the overlapping passes one bridges the gap (query-plan.ts,           *)
(* buildBlockingKeys).  What reviewers have refused stays away.            *)
RightListingFound ==
    chosen # NoSearch =>
        LET w == chosen.wine
            related == {l \in DOMAIN shelf : w.id \in shelf[l].related}
            same == {l \in DOMAIN shelf : SameGtin(shelf[l], w)}
        IN  /\ Found(chosen) \cap w.refused = {}
            /\ \A l \in Active \ (disturbed \cup w.refused) :
                  \/ l \in Found(chosen)
                  \/ /\ l \in related =>
                            \/ <<"verified_link", 0>> \in failed
                            \/ Cardinality(related \cup disturbed) > PerChannel
                     /\ l \in same => <<"gtin", 0>> \in failed \/ Cardinality(same) > PerChannel
                     /\ AllButOne(shelf[l], w) =>
                            failed # {} \/ Cardinality(DOMAIN shelf) > PerChannel

(* The other way a listing of the maker is held against its wine when it   *)
(* says everything but one field, the volume included if the grapes are    *)
(* known.                                                                  *)
RightWineFound ==
    lookup # NoLookup =>
        \A w \in WinesInForce :
            /\ AllButOne(lookup.row, w)
            /\ lookup.row.producer # NoField
            /\ lookup.row.volume = NoField => w.grapes # NoField /\ lookup.row.grapes = w.grapes
            /\ Cardinality(WinesInForce) <= TopEvaluated
            => w \in lookup.found

RightOneFound == RightListingFound /\ RightWineFound
=============================================================================
