-------------------------- MODULE ListingIdentity --------------------------
(***************************************************************************)
(* Which wine a listing is of.  Two writers decide it from the same name:  *)
(* the collection of its page (persistListing), which also has the page's  *)
(* own evidence, and the re-extraction (applyWineIdentity), which has the  *)
(* stored row.  A collection compares what it read with the row, and when  *)
(* the wine seems another one ("drift") its price is not shown.  So the    *)
(* two must agree, or each takes the other's work for another wine.        *)
(*                                                                         *)
(* A name is a sequence of tokens; a vocabulary is a set of phrases        *)
(* [slot, id, words, of, canonical], of the owner of a vineyard.  The      *)
(* collection reads two copies of the vocabulary that are refreshed apart: *)
(* the slots of wine-vocab.ts, and the names of the taxonomy (shop.ts).    *)
(*                                                                         *)
(* What the comparison cannot notice: the producer has no name in the row  *)
(* as it is compared (persist.ts:77), so that a page whose wine is now of  *)
(* another winery, and is the same otherwise, is no drift.                 *)
(*                                                                         *)
(* Left out: brands, and the attributes that are read like the edition     *)
(* (age, puttony, dosage, cask).  Two phrases of one slot and the same     *)
(* words are not told apart by their names.                                *)
(***************************************************************************)
EXTENDS Integers, Sequences, FiniteSets, SequencesExt, FiniteSetsExt, Functions

CONSTANTS
    ListedPages, PageOf,        \* the pages the shop shows, one after another
    Vocabularies, PhrasesOf,    \* the vocabularies, and their phrases
    FirstVocabulary,
    Years, Volumes,   \* tokens; the volumes as a sequence, smallest first
    Packs,            \* the tokens w of n bottles
    Editions, Boxes, Colours,   \* tokens, in the order of their tables
    Categories,       \* the names (words) of the categories (key)
    FoundedWords, UndatedWords, NotWineWords,
    StyleKind,        \* the kind of a style: "sparkling", "aszu" or "still"
    ColourOf,         \* the colour of a style or grape, or NoEntry
    MaxIdentityChanges,   \* bound: of the page, the vocabulary and the matches
    NoEntry

Slots == {"producer", "vineyard", "region", "grape", "style"}

ASSUME IdentityAssumption ==
    /\ FirstVocabulary \in Vocabularies
    /\ MaxIdentityChanges \in Nat
    /\ \A g \in ListedPages : PageOf[g].name \in Seq(Range(PageOf[g].name))
    /\ \A v \in Vocabularies : \A p \in PhrasesOf[v] :
          p.slot \in Slots /\ p.words \in Seq(Range(p.words)) \ {<<>>}
    /\ \A pack \in Packs : pack.n \in Nat

VARIABLES
    seller,      \* the shop: is it of wine, does its adapter resolve names
    shopPage,    \* its page
    vocabulary,
    copies,      \* the worker's copies of it
    row,         \* the row of source_listings
    offered,     \* the status of the latest observation
    lastRead,    \* what the last write has read, and by the vineyards of which winery
    turns

identityVars == <<seller, shopPage, vocabulary, copies, row, offered, lastRead, turns>>

NoIdentity ==
    [name |-> <<>>, producer |-> NoEntry, style |-> NoEntry, vineyard |-> NoEntry,
     region |-> NoEntry, grape |-> {}, expression |-> <<>>, vintage |-> NoEntry,
     status |-> "unknown", volume |-> NoEntry, pack |-> 1, packaging |-> "unknown",
     edition |-> NoEntry, gtin |-> NoEntry, colour |-> NoEntry, category |-> NoEntry,
     cluster |-> "none"]

Saved == row # NoIdentity

IdentityInit ==
    /\ seller \in [wine : BOOLEAN, resolves : BOOLEAN]
    /\ shopPage \in ListedPages
    /\ vocabulary = FirstVocabulary
    /\ copies = [c \in {"slots", "names"} |-> NoEntry]
    /\ row = NoIdentity
    /\ offered = "none"
    /\ lastRead = [page |-> NoEntry, slots |-> NoEntry, names |-> NoEntry, scope |-> NoEntry]
    /\ turns = 0

Prefer(v, w) == IF v = NoEntry THEN w ELSE v
TokensOf(text) == {text[i] : i \in DOMAIN text}
FirstOf(table, text) ==
    LET hits == {i \in DOMAIN table : table[i] \in TokensOf(text)}
    IN  IF hits = {} THEN NoEntry ELSE table[Min(hits)]
StandsAt(words, text, i) ==
    i + Len(words) - 1 <= Len(text) /\ SubSeq(text, i, i + Len(words) - 1) = words

-----------------------------------------------------------------------------
(* parseWineName                                                           *)

Measures == Years \cup TokensOf(Volumes) \cup {pack.w : pack \in Packs}

SLOT_PRIORITY ==
    [slot \in Slots |-> CASE slot = "producer" -> 1 [] slot = "vineyard" -> 2
                          [] slot = "region" -> 3 [] slot = "grape" -> 4
                          [] slot = "style" -> 5]

(* Which of two phrases of a bucket is tried first.                        *)
TriedBefore(a, b) ==
    \/ Len(a.words) > Len(b.words)
    \/ Len(a.words) = Len(b.words) /\ SLOT_PRIORITY[a.slot] < SLOT_PRIORITY[b.slot]

Span(phrase, i) == i..(i + Len(phrase.words) - 1)

(* The phrase may be taken: a grape always, of the others one entity only. *)
Takeable(parse, phrase) ==
    phrase.slot = "grape" \/ parse[phrase.slot] \in {NoEntry, phrase.id}

Fill(parse, phrase) ==
    [parse EXCEPT ![phrase.slot] = IF phrase.slot = "grape" THEN @ \cup {phrase.id} ELSE phrase.id]

(* Mutant: an entity that is named again is left where it is.              *)
TakeOnce(parse, phrase, i) ==
    IF Fill(parse, phrase) = parse THEN parse
    ELSE [Fill(parse, phrase) EXCEPT !.used = @ \cup Span(phrase, i)]

(* A phrase is taken out of the name, also one of an entity named before.  *)
TakePhrase(parse, phrase, i) ==
    [Fill(parse, phrase) EXCEPT !.used = @ \cup Span(phrase, i)]

(* At one position: the first phrase that may be taken, and the ones of a  *)
(* slot another entity fills already, which stay where they are.           *)
ReadAt(text, phrases, scope, parse, i) ==
    LET fitting == {p \in phrases :
                      /\ StandsAt(p.words, text, i)
                      /\ Span(p, i) \cap parse.used = {}
                      /\ p.slot = "vineyard" => p.of \in {NoEntry, scope}}
        free == {p \in fitting : Takeable(parse, p)}
        first == CHOOSE p \in free : \A q \in free : ~TriedBefore(q, p)
        passed == IF free = {} THEN fitting ELSE {p \in fitting : TriedBefore(p, first)}
        noted == [parse EXCEPT !.ambiguous = @ \cup passed]
    IN  IF free = {} THEN noted ELSE TakePhrase(noted, first, i)

runMatchPass(text, phrases, scope, parse) ==
    FoldLeft(LAMBDA p, i : IF i \in p.used THEN p ELSE ReadAt(text, phrases, scope, p, i),
             parse, [i \in DOMAIN text |-> i])

parseWineName(text, phrases, scope) ==
    LET blank == [used |-> {i \in DOMAIN text : text[i] \in Measures},
                  ambiguous |-> {}, producer |-> NoEntry, vineyard |-> NoEntry,
                  region |-> NoEntry, style |-> NoEntry, grape |-> {}]
        once == runMatchPass(text, phrases, scope, blank)
    IN  IF once.producer = NoEntry THEN once
        ELSE runMatchPass(text, phrases, once.producer, once)

(* The rest is the name of the wine proper.                                *)
Residue(text, parse) ==
    FoldLeft(LAMBDA rest, i : IF i \in parse.used THEN rest ELSE Append(rest, text[i]),
             <<>>, [i \in DOMAIN text |-> i])

-----------------------------------------------------------------------------
(* extractIdentity: what the page says, before the vocabulary of wines     *)

(* parseVintage: the one year that is not of the foundation.               *)
YearOf(text) ==
    LET dated(i) == \E j \in {i - 1, i + 1} \cap DOMAIN text : text[j] \in FoundedWords
        years == {text[i] : i \in {j \in DOMAIN text : text[j] \in Years /\ ~dated(j)}}
    IN  CASE TokensOf(text) \cap UndatedWords # {} ->
                 [vintage |-> NoEntry, status |-> "non_vintage"]
          [] OTHER -> IF Cardinality(years) = 1
                        THEN [vintage |-> CHOOSE y \in years : TRUE, status |-> "vintage"]
                        ELSE [vintage |-> NoEntry, status |-> "unknown"]

(* parseVolume: the largest volume, the number of bottles.                 *)
VolumeOf(text) ==
    LET volumes == {i \in DOMAIN Volumes : Volumes[i] \in TokensOf(text)}
        packs == {pack \in Packs : pack.w \in TokensOf(text)}
    IN  [volume |-> IF volumes = {} THEN NoEntry ELSE Volumes[Max(volumes)],
         pack |-> IF packs = {} THEN 1 ELSE (CHOOSE pack \in packs : TRUE).n]

(* resolveEntity: the whole text, else the longest canonical name in it.   *)
resolveProducer(text, phrases) ==
    LET producers == {p \in phrases : p.slot = "producer"}
        exact == {p \in producers : p.words = text}
        within == {p \in producers :
                     p.canonical /\ \E i \in DOMAIN text : StandsAt(p.words, text, i)}
        best == IF exact # {} THEN exact ELSE within
    IN  IF best = {} THEN NoEntry
        ELSE (CHOOSE p \in best :
                 /\ p.canonical \/ \A q \in best : ~q.canonical
                 /\ \A q \in best : Len(q.words) <= Len(p.words)).id

(* A sparkling wine or an aszu anywhere in the text goes before the rest,  *)
(* of which the longest name counts.                                       *)
OVERRIDING_CATEGORIES == {"sparkling_wine", "tokaji_aszu"}

resolveCategory(text) ==
    LET exact == {c \in Categories : c.words = text}
        within == {c \in Categories : \E i \in DOMAIN text : StandsAt(c.words, text, i)}
        over == {c \in within : c.key \in OVERRIDING_CATEGORIES}
        best == IF exact # {} THEN exact ELSE IF over # {} THEN over ELSE within
    IN  IF best = {} THEN NoEntry
        ELSE (CHOOSE c \in best : \A d \in best : Len(d.words) <= Len(c.words)).key

(* The last part of the path that names one, else the name.                *)
CategoryOf(page) ==
    LET keys == {i \in DOMAIN page.path : resolveCategory(page.path[i]) # NoEntry}
    IN  IF keys = {} THEN resolveCategory(page.name) ELSE resolveCategory(page.path[Max(keys)])

(* deriveExpression: the name without the producer and the measures.       *)
deriveExpression(page, producer, phrases) ==
    LET names == {p.words : p \in {q \in phrases : q.canonical /\ q.id = producer}}
                 \cup ({page.vendor} \ {<<>>})
        cut == {i \in DOMAIN page.name : page.name[i] \in Measures}
               \cup UNION {UNION {i..(i + Len(n) - 1) :
                                     i \in {j \in DOMAIN page.name : StandsAt(n, page.name, j)}}
                             : n \in names}
    IN  Residue(page.name, [used |-> cut])

extractIdentity(page, names) ==
    LET text == page.name \o page.spec
        maker == IF seller.resolves
                   THEN resolveProducer(IF page.vendor # <<>> THEN page.vendor ELSE page.name,
                                        names)
                   ELSE NoEntry
        size == IF page.volume # NoEntry THEN [volume |-> page.volume, pack |-> 1]
                ELSE VolumeOf(text)
        year == IF YearOf(page.spec).vintage # NoEntry THEN YearOf(page.spec)
                ELSE YearOf(page.name)
        box == FirstOf(Boxes, text)
    IN  [NoIdentity EXCEPT
           !.name = page.name, !.producer = maker,
           !.volume = size.volume, !.pack = size.pack,
           !.vintage = year.vintage, !.status = year.status,
           !.packaging = IF box # NoEntry THEN box
                         ELSE IF size.volume # NoEntry THEN "standard" ELSE "unknown",
           !.edition = FirstOf(Editions, text), !.gtin = page.gtin,
           !.colour = FirstOf(Colours, text),
           !.expression = deriveExpression(page, maker, names),
           !.category = IF seller.resolves THEN CategoryOf(page) ELSE NoEntry]

-----------------------------------------------------------------------------
(* wineSlotPatch, wineCategoryFor                                          *)

deriveColour(parse) ==
    LET grapes == {ColourOf[g] : g \in parse.grape}
        ofStyle == IF parse.style = NoEntry THEN NoEntry ELSE ColourOf[parse.style]
    IN  IF ofStyle # NoEntry THEN ofStyle
        ELSE IF Cardinality(grapes) = 1 THEN CHOOSE c \in grapes : TRUE ELSE NoEntry

(* What is known already (of the page, or of the row) is stronger than the *)
(* name, for the producer, the year, the colour and the size; the name is  *)
(* the authority on the rest, where finding nothing is a finding too.      *)
wineSlotPatch(known, parse) ==
    LET years == {i \in DOMAIN known.name : known.name[i] \in Years}
        year == Prefer(known.vintage, IF years = {} THEN NoEntry ELSE known.name[Min(years)])
        size == IF known.volume = NoEntry \/ known.pack <= 1 THEN VolumeOf(known.name)
                ELSE [volume |-> NoEntry, pack |-> 1]
    IN  [known EXCEPT
           !.producer = Prefer(parse.producer, @),
           !.style = parse.style, !.vineyard = parse.vineyard, !.region = parse.region,
           !.grape = parse.grape, !.expression = Residue(known.name, parse),
           !.vintage = year,
           !.status = IF @ \in {"vintage", "non_vintage"} THEN @
                      ELSE IF year # NoEntry THEN "vintage" ELSE @,
           !.colour = Prefer(@, deriveColour(parse)),
           !.volume = Prefer(@, size.volume),
           !.pack = IF size.pack > 1 THEN size.pack ELSE @]

(* A sparkling style anywhere in the name makes it sparkling.              *)
wineCategoryKey(text, parse) ==
    LET styles == ({parse.style} \ {NoEntry})
                  \cup {p.id : p \in {q \in parse.ambiguous : q.slot = "style"}}
        kinds == {StyleKind[s] : s \in styles}
    IN  IF TokensOf(text) \cap NotWineWords # {} THEN NoEntry
        ELSE IF "sparkling" \in kinds THEN "sparkling_wine"
        ELSE IF "aszu" \in kinds THEN "tokaji_aszu"
        ELSE IF parse.grape # {} \/ styles # {} THEN "wine" ELSE NoEntry

wineCategoryFor(text, parse, current) ==
    LET key == wineCategoryKey(text, parse)
    IN  IF current = NoEntry \/ (current = "wine" /\ key \notin {"wine", NoEntry})
          THEN Prefer(key, current) ELSE current

-----------------------------------------------------------------------------
(* detectDrift                                                             *)

IDENTITY_CORE == {"producer", "expression", "grape"}
DriftFields == IDENTITY_CORE \cup {"vintage", "status", "volume", "pack", "packaging",
                                "edition", "gtin", "style", "vineyard"}

(* The row as it is compared: its producer has no name there.              *)
toIdentityFields(r) == [r EXCEPT !.producer = NoEntry]

(* What was not known and now is, is no change; but "unknown" is a value   *)
(* of the status of the year and of the packaging.                         *)
Silent(r, f) == f \notin {"status", "pack", "packaging"} /\ r[f] = NoIdentity[f]
Changed(before, after) == {f \in DriftFields : ~Silent(before, f) /\ before[f] # after[f]}

Severity(before, after) ==
    LET changed == Changed(before, after)
    IN  CASE Cardinality(changed \cap IDENTITY_CORE) >= 2 -> "product_changed"
          [] changed = {} -> IF before.name # after.name THEN "cosmetic" ELSE "none"
          [] OTHER -> "significant"

BlocksPrice(severity) == severity \in {"significant", "product_changed"}

-----------------------------------------------------------------------------
(* Mutant: a collection that does not read the name by the vocabulary.     *)
ReadPageAlone(page, slots, names, old) ==
    LET found == extractIdentity(PageOf[page], PhrasesOf[names])
    IN  [found EXCEPT !.category = Prefer(found.category, old.category)]

(* Whose vineyards are read: of the winery the page or else the row has.   *)
ScopeOf(page, names, old) ==
    Prefer(extractIdentity(PageOf[page], PhrasesOf[names]).producer, old.producer)

(* What a reading of a page finds, given the row that is stored.           *)
ReadPageOf(page, slots, names, old) ==
    LET found == extractIdentity(PageOf[page], PhrasesOf[names])
        category == Prefer(found.category, old.category)
        parse == parseWineName(found.name, PhrasesOf[slots], ScopeOf(page, names, old))
    IN  IF seller.wine /\ PhrasesOf[slots] # {}
          THEN [wineSlotPatch(found, parse) EXCEPT
                  !.category = wineCategoryFor(found.name, parse, category)]
          ELSE [found EXCEPT !.category = category]

(* persistListing: the vocabulary's copies are loaded when they are not    *)
(* there; the producer and the GTIN are kept when the page has none.       *)
CollectListing ==
    LET slots == IF seller.wine THEN Prefer(copies["slots"], vocabulary) ELSE NoEntry
        names == Prefer(copies["names"], vocabulary)
        after == ReadPageOf(shopPage, slots, names, row)
        severity == IF Saved THEN Severity(toIdentityFields(row), after) ELSE "none"
    IN  /\ row' = [after EXCEPT
                     !.producer = Prefer(@, row.producer), !.gtin = Prefer(@, row.gtin),
                     !.cluster = CASE ~Saved -> "unclustered"
                                   [] severity = "product_changed" -> "drifted"
                                   [] OTHER -> row.cluster]
        /\ offered' = IF BlocksPrice(severity) THEN "identity_drift" ELSE "observed"
        /\ copies' = [copies EXCEPT !["slots"] = slots, !["names"] = names]
        /\ lastRead' = [page |-> shopPage, slots |-> slots, names |-> names,
                        scope |-> ScopeOf(shopPage, names, row)]
        /\ UNCHANGED <<seller, shopPage, vocabulary, turns>>

(* processReextract of one row: all of them, or the ones of the chosen     *)
(* producers.  The vocabulary is loaded for the job.                       *)
Reextracted(r, slots) ==
    LET parse == parseWineName(r.name, PhrasesOf[slots], r.producer)
    IN  [wineSlotPatch(r, parse) EXCEPT !.category = wineCategoryFor(r.name, parse, @)]

WineProven(r, slots, chosen) ==
    LET parse == parseWineName(r.name, PhrasesOf[slots], r.producer)
    IN  IF chosen = {}
          THEN parse.producer # NoEntry \/ parse.grape # {} \/ parse.style # NoEntry
        ELSE parse.producer \in chosen

ApplyWineIdentity(chosen) ==
    LET after == Reextracted(row, vocabulary)
    IN  /\ Saved /\ seller.wine
        /\ \E p \in PhrasesOf[vocabulary] : p.slot = "producer"
        /\ WineProven(row, vocabulary, chosen)
        /\ after # row
        /\ row' = [after EXCEPT !.cluster = IF @ = "clustered" THEN @ ELSE "unclustered"]
        /\ lastRead' = [lastRead EXCEPT !.slots = vocabulary, !.scope = row.producer]
        /\ UNCHANGED <<seller, shopPage, vocabulary, copies, offered, turns>>

(* The environment: the shop, the people who keep the vocabulary, the time *)
(* a copy lives, and the match of an unclustered listing.                  *)
Turn == turns < MaxIdentityChanges /\ turns' = turns + 1

PageChanges ==
    /\ Turn /\ Saved
    /\ shopPage' \in ListedPages \ {shopPage}
    /\ UNCHANGED <<seller, vocabulary, copies, row, offered, lastRead>>

VocabularyChanges ==
    /\ Turn
    /\ vocabulary' \in Vocabularies \ {vocabulary}
    /\ UNCHANGED <<seller, shopPage, copies, row, offered, lastRead>>

CopyExpires(c) ==
    /\ copies[c] \notin {NoEntry, vocabulary}
    /\ copies' = [copies EXCEPT ![c] = NoEntry]
    /\ UNCHANGED <<seller, shopPage, vocabulary, row, offered, lastRead, turns>>

Clustered ==
    /\ Turn /\ row.cluster = "unclustered"
    /\ row' = [row EXCEPT !.cluster = "clustered"]
    /\ UNCHANGED <<seller, shopPage, vocabulary, copies, offered, lastRead>>

ProducerIds == {p.id : p \in {q \in UNION {PhrasesOf[v] : v \in Vocabularies} : q.slot = "producer"}}

IdentityNext ==
    \/ CollectListing
    \/ \E chosen \in {{}} \cup {{p} : p \in ProducerIds} : ApplyWineIdentity(chosen)
    \/ PageChanges \/ VocabularyChanges \/ Clustered
    \/ \E c \in DOMAIN copies : CopyExpires(c)

IdentitySpec == IdentityInit /\ [][IdentityNext]_identityVars

-----------------------------------------------------------------------------
IdentityTypeOK ==
    /\ seller \in [wine : BOOLEAN, resolves : BOOLEAN]
    /\ shopPage \in ListedPages /\ vocabulary \in Vocabularies
    /\ \A c \in DOMAIN copies : copies[c] \in Vocabularies \cup {NoEntry}
    /\ DOMAIN row = DOMAIN NoIdentity
    /\ row.producer \in ProducerIds \cup {NoEntry}
    /\ row.status \in {"unknown", "vintage", "non_vintage"}
    /\ row.category \in {NoEntry, "wine", "sparkling_wine", "tokaji_aszu", "palinka"}
    /\ row.cluster \in {"none", "unclustered", "clustered", "drifted"}
    /\ offered \in {"none", "observed", "identity_drift"}
    /\ lastRead.scope \in ProducerIds \cup {NoEntry} /\ turns \in 0..MaxIdentityChanges

(* A page that is read again with the same vocabulary and by the same      *)
(* winery, by whichever of the two writers, reads as the row that is       *)
(* stored: the next collection sees no drift and the next re-extraction    *)
(* writes nothing.  Not so when the row has a GTIN and the page no longer  *)
(* has one: the UPDATE keeps the old one, and every collection is a drift. *)
NextReadingQuiet ==
    Saved =>
        LET again == ReadPageOf(lastRead.page, lastRead.slots, lastRead.names, row)
        IN  /\ ScopeOf(lastRead.page, lastRead.names, row) = lastRead.scope
                 /\ Prefer(again.gtin, row.gtin) = again.gtin =>
                   Severity(toIdentityFields(row), again) = "none"
            /\ seller.wine /\ row.producer = lastRead.scope
                 /\ WineProven(row, lastRead.slots, {}) =>
                   Reextracted(row, lastRead.slots) = row

(* The winery of the row is the one by which its name was read, or one     *)
(* that the name names: when that is one only, the next reading is by it.  *)
(* A name of two wineries may go from one to the other for ever, if each   *)
(* has a vineyard with a word of the other's name.                         *)
ReadByItsOwn ==
    Saved /\ row.producer # lastRead.scope =>
        \E p \in PhrasesOf[lastRead.slots] : \E i \in DOMAIN row.name :
            p.slot = "producer" /\ p.id = row.producer /\ StandsAt(p.words, row.name, i)

(* What the parser leaves as the name of the wine has no phrase left in it *)
(* that it could have taken: only a second entity for a slot that has one, *)
(* or a vineyard of another producer.  What is left over is proposed as a  *)
(* new producer.                                                           *)
NothingReadableLeft ==
    Saved /\ seller.wine =>
        LET parse == parseWineName(PageOf[shopPage].name, PhrasesOf[vocabulary], row.producer)
        IN  \A p \in PhrasesOf[vocabulary], i \in DOMAIN PageOf[shopPage].name :
                StandsAt(p.words, PageOf[shopPage].name, i) /\ Span(p, i) \cap parse.used = {} =>
                    \/ p.slot # "grape" /\ parse[p.slot] \notin {NoEntry, p.id}
                    \/ p.slot = "vineyard" /\ p.of \notin {NoEntry, row.producer, parse.producer}

(* Reading comes to an end: nothing that could be read is left over, and   *)
(* the next reading with the same vocabulary finds what this one has left. *)
ReadingSettles == NextReadingQuiet /\ ReadByItsOwn /\ NothingReadableLeft
=============================================================================
