---------------------------- MODULE ProducerNames ----------------------------
(***************************************************************************)
(* Where the names of producers come from.  What the parser leaves of the  *)
(* names of listings is mined for names of wineries (mineProducerCandi-    *)
(* dates); a job proposes them; a manager approves or rejects them, and    *)
(* puts together the ones that seem one winery, as the screen of merge     *)
(* groups suggests (groupMergeCandidates).  An approved name joins the     *)
(* vocabulary, so that the next reading of the listings, and what is left  *)
(* of them for the next mining, depend on it.                              *)
(*                                                                         *)
(* A name is a sequence of tokens.  Of the word lists of the source, the   *)
(* ones here hold the words that the instances use.  A row that is merged  *)
(* is out of the register: no screen shows it and no query of these parts  *)
(* finds it.  One manager works at a time; what several do at once, and    *)
(* how a re-extraction runs, is ProducerRegister's.                        *)
(***************************************************************************)
EXTENDS ListingIdentity

CONSTANTS
    Stocks,           \* what the wine shops list: <<shop, name>> -> how often
    WineWords,        \* the phrases of the vocabulary but for the producers
    Alphabet,         \* the tokens in the order of the language
    MinCount, MinShops, Shortlist,   \* MineOptions
    LogOf,            \* n -> 150 * log10(n + 1)
    MaxAnswers        \* bound: answers of the manager

ASSUME NamesAssumption ==
    /\ {MinCount, MinShops, Shortlist, MaxAnswers} \subseteq Nat \ {0}
    /\ NoEntry \notin Seq(Range(Alphabet))
    /\ \A s \in Stocks : IsFiniteSet(DOMAIN s) /\ \A k \in DOMAIN s :
          s[k] \in 1..Len(LogOf) /\ k[2] \in Seq(Range(Alphabet))
    /\ \A p \in WineWords :
          p.slot \in Slots \ {"producer"} /\ p.words \in Seq(Range(p.words)) \ {<<>>}

VARIABLES
    shelves,      \* the active listings
    maker,      \* <<shop, name>> -> the producer of these listings
    register,   \* the rows of producers: name -> row
    synonyms,   \* the approved aliases <<name, target>>
    mined,      \* the candidates the job has not written yet
    lookedUp,   \* the one it has looked up in the register, and what it found
    onScreen,   \* the group the manager sees
    answers

nameVars == <<shelves, maker, register, synonyms, mined, lookedUp, onScreen, answers>>

Listed == DOMAIN shelves

NamesInit ==
    /\ shelves \in Stocks
    /\ maker = [k \in Listed |-> NoEntry]
    /\ register = <<>>
    /\ synonyms = {}
    /\ mined = {}
    /\ lookedUp = NoEntry
    /\ onScreen = NoEntry
    /\ answers = 0

-----------------------------------------------------------------------------
(* producer-mine.ts                                                        *)

PREFIX_MARKERS == {"chateau"}
SUFFIX_MARKERS == {"pince"}
STOPWORDS == {"extra", "the"}
HU_FIRST_NAMES == {"attila", "zsolt"}
CONNECTORS == {"de"}
WINE_TERMS == {"brut", "cuvee"}

isNoise(token) == token \in STOPWORDS \cup WINE_TERMS

looksLikeHungarianPersonName(name) ==
    Len(name) = 2 /\ name[2] \in HU_FIRST_NAMES /\ name[1] \notin HU_FIRST_NAMES

(* A name does not begin with noise, nor begin or end with a connector,    *)
(* and is not all markers and connectors.                                  *)
Nameable(name) ==
    /\ ~isNoise(name[1])
    /\ {name[1], Last(name)} \cap CONNECTORS = {}
    /\ ~(TokensOf(name) \subseteq PREFIX_MARKERS \cup SUFFIX_MARKERS \cup CONNECTORS)

(* The parts of what is left of a name that may be a winery's: the first   *)
(* one to three words, and two to four from, or up to, a marker.           *)
candidatesFrom(rest) ==
    LET spans == {s \in (DOMAIN rest) \X (DOMAIN rest) : s[2] - s[1] \in 0..3}
        leading(s) == s[1] = 1 /\ s[2] <= 3
        marked(s) == s[1] # s[2] /\ (rest[s[1]] \in PREFIX_MARKERS \/ rest[s[2]] \in SUFFIX_MARKERS)
        named(s) == SubSeq(rest, s[1], s[2])
        taken == {s \in spans : (leading(s) \/ marked(s)) /\ Nameable(named(s))}
    IN  {[name |-> n,
          leading |-> \E s \in taken : named(s) = n /\ s[1] = 1,
          marker |-> \E s \in taken : named(s) = n /\ marked(s)] : n \in {named(s) : s \in taken}}

isEdgeSubsequence(short, long) ==
    Len(short) < Len(long) /\ (IsPrefix(short, long) \/ IsSuffix(short, long))

(* Mutant: the longer name goes, too, when it is as frequent.              *)
SupersededBoth(cands) ==
    {c \in cands : \E d \in cands :
        /\ isEdgeSubsequence(c.name, d.name) \/ isEdgeSubsequence(d.name, c.name)
        /\ c.count = d.count}

(* A name that only occurs as part of a longer one, and a longer one that  *)
(* has only words of the wine more.                                        *)
Superseded(cands) ==
    {c \in cands : \E d \in cands :
        \/ isEdgeSubsequence(c.name, d.name) /\ c.count = d.count
        \/ /\ isEdgeSubsequence(d.name, c.name) /\ c.count # d.count
           /\ TokensOf(c.name) \ TokensOf(d.name) # {}
           /\ TokensOf(c.name) \ TokensOf(d.name) \subseteq WINE_TERMS}

dedupeByContainment(cands) == cands \ Superseded(cands)

AlphabetIndex(token) == CHOOSE i \in DOMAIN Alphabet : Alphabet[i] = token

InOrder(a, b) ==
    \/ IsStrictPrefix(a, b)
    \/ \E i \in (DOMAIN a) \cap (DOMAIN b) :
          /\ SubSeq(a, 1, i - 1) = SubSeq(b, 1, i - 1)
          /\ AlphabetIndex(a[i]) < AlphabetIndex(b[i])

RanksBefore(c, d) ==
    \/ c.score > d.score
    \/ c.score = d.score /\ c.count > d.count
    \/ c.score = d.score /\ c.count = d.count /\ InOrder(c.name, d.name)

(* The names that are frequent enough: in several shops, or marked.        *)
Frequent(inputs, found) ==
    LET with(n) == {k \in DOMAIN inputs : \E f \in found[k] : f.name = n}
        counted(ks) == MapThenSumSet(LAMBDA k : inputs[k], ks)
        candidate(n) ==
            LET shops == Cardinality({k[1] : k \in with(n)})
                count == counted(with(n))
                leads == counted({k \in with(n) : \E f \in found[k] : f.name = n /\ f.leading})
                marked == \E k \in with(n) : \E f \in found[k] : f.name = n /\ f.marker
                person == looksLikeHungarianPersonName(n)
            IN  [name |-> n, count |-> count, shops |-> shops, marker |-> marked,
                 person |-> person,
                 score |-> (IF marked THEN 500 ELSE 0) + 150 * Min({shops, 5}) + LogOf[count]
                           + (200 * leads) \div count + (IF person THEN 150 ELSE 0)]
        names == {f.name : f \in UNION {found[k] : k \in DOMAIN inputs}}
    IN  {c \in {candidate(n) : n \in names} :
            c.count >= MinCount /\ (c.marker \/ c.shops >= MinShops)}

FrequentOf(inputs, residues) ==
    Frequent(inputs, [k \in DOMAIN inputs |-> candidatesFrom(residues[k])])

mineProducerCandidates(inputs, residues) ==
    LET kept == dedupeByContainment(FrequentOf(inputs, residues))
    IN  {c \in kept : Cardinality({d \in kept : RanksBefore(d, c)}) < Shortlist}

-----------------------------------------------------------------------------
(* The names that are read: of the active producers and their aliases.     *)
ActiveNames == {n \in DOMAIN register : register[n].status = "active"}

NamePhrases ==
    WineWords
    \cup {[slot |-> "producer", id |-> n, words |-> n, of |-> NoEntry, canonical |-> TRUE] :
             n \in ActiveNames}
    \cup {[slot |-> "producer", id |-> a[2], words |-> a[1], of |-> NoEntry, canonical |-> FALSE] :
             a \in {b \in synonyms : b[2] \in ActiveNames}}

Understood(k) == parseWineName(k[2], NamePhrases, NoEntry)

Linked(n) == MapThenSumSet(LAMBDA k : shelves[k], {k \in Listed : maker[k] = n})

(* The names are read again, by a collection or a re-extraction.           *)
ReadAgain ==
    /\ maker' = [k \in Listed |-> Prefer(Understood(k).producer, maker[k])]
    /\ maker' # maker
    /\ UNCHANGED <<shelves, register, synonyms, mined, lookedUp, onScreen, answers>>

-----------------------------------------------------------------------------
(* processProposeProducers: the names are mined, then looked up and        *)
(* written one by one, the best first; what a manager has decided stays.   *)

ResidueOf(k) == Residue(k[2], Understood(k))

MineNames ==
    /\ mined = {} /\ lookedUp = NoEntry
    /\ mined' = mineProducerCandidates(shelves, [k \in Listed |-> ResidueOf(k)])
    /\ mined' # {}
    /\ UNCHANGED <<shelves, maker, register, synonyms, lookedUp, onScreen, answers>>

LookUpName ==
    /\ mined # {} /\ lookedUp = NoEntry
    /\ \E c \in mined :
          /\ \A d \in mined : ~RanksBefore(d, c)
          /\ mined' = mined \ {c}
          /\ lookedUp' = [candidate |-> c,
                          found |-> IF c.name \in DOMAIN register THEN register[c.name].status
                                    ELSE "none"]
    /\ UNCHANGED <<shelves, maker, register, synonyms, onScreen, answers>>

WriteName ==
    LET c == lookedUp.candidate
        mineOf(status, fuzzy) ==
            [status |-> status, fuzzy |-> fuzzy, score |-> c.score, person |-> c.person]
    IN  /\ lookedUp # NoEntry
        /\ lookedUp' = NoEntry
        /\ register' =
              CASE lookedUp.found = "none" ->
                       [n \in DOMAIN register \cup {c.name} |->
                          IF n \in DOMAIN register THEN register[n] ELSE mineOf("proposed", c.person)]
                [] lookedUp.found = "proposed" /\ c.name \in DOMAIN register ->
                       [register EXCEPT ![c.name] = mineOf(@.status, c.person)]
                [] OTHER -> register
        /\ UNCHANGED <<shelves, maker, synonyms, mined, onScreen, answers>>

-----------------------------------------------------------------------------
(* producer-merge.ts: here the markers are no part of the name             *)

MERGE_SUFFIX_MARKERS == {"pince", "wine"}
LEGAL_FORMS == {"kft"}
MERGE_WINE_TERMS == {"brut", "cuvee", "extra"}

producerMergeKey(name) ==
    LET parts == SelectSeq(name, LAMBDA t :
                     t \notin MERGE_SUFFIX_MARKERS \cup LEGAL_FORMS \cup MERGE_WINE_TERMS)
    IN  IF parts = <<>> THEN <<>>
        ELSE SubSeq(parts, 1, IF parts[1] \in PREFIX_MARKERS THEN Min({2, Len(parts)}) ELSE 1)

extraTokensOf(name, key) == TokensOf(name) \ TokensOf(key)

classifyExtra(extra) ==
    CASE extra = {} -> "none"
      [] extra # {} /\ extra \subseteq MERGE_SUFFIX_MARKERS \cup LEGAL_FORMS \cup PREFIX_MARKERS ->
             "marker"
      [] extra # {} /\ extra \subseteq MERGE_WINE_TERMS -> "wine_term"
      [] OTHER -> "other"

aliasUseful(name, key) == classifyExtra(extraTokensOf(name, key)) \in {"none", "marker"}

(* The row that carries the others on: active, with the most listings, the *)
(* shortest, the best; of equals any.                                      *)
Outweighs(n, m) ==
    LET active(r) == IF register[r].status = "active" THEN 1 ELSE 0
        weights(r) == <<active(r), Linked(r), -Len(r), register[r].score>>
    IN  \E i \in 1..4 :
            /\ weights(n)[i] > weights(m)[i]
            /\ \A j \in 1..(i - 1) : weights(n)[j] = weights(m)[j]

(* Mutant: an approved name does not go before the others.                 *)
SurvivorsByListings(members) ==
    {n \in members : \A m \in members : Linked(m) <= Linked(n)}

pickSurvivor(members) == {n \in members : \A m \in members : ~Outweighs(m, n)}

(* Mutant: the name of a person is taken for any other.                    *)
SuggestedForAny(n, keep, key) ==
    CASE n = keep -> "keep"
      [] OTHER -> IF aliasUseful(n, key) \/ Linked(n) > 0 THEN "merge" ELSE "discard"

Suggested(n, keep, key) ==
    CASE n = keep -> "keep"
      [] n # keep /\ (register[n].person \/ register[n].fuzzy) -> "separate"
      [] OTHER -> IF aliasUseful(n, key) \/ Linked(n) > 0 THEN "merge" ELSE "discard"

GroupOf(key) ==
    {n \in DOMAIN register : register[n].status # "retired" /\ producerMergeKey(n) = key}

groupMergeCandidates ==
    {g \in {GroupOf(producerMergeKey(n)) :
               n \in {m \in DOMAIN register : producerMergeKey(m) # <<>>}} : Cardinality(g) > 1}

(* GET /producers/merge-groups                                             *)
SeeGroup ==
    /\ onScreen = NoEntry
    /\ \E g \in groupMergeCandidates :
          \E keep \in pickSurvivor(g) :
              LET to(act) == {n \in g : Suggested(n, keep, producerMergeKey(keep)) = act}
              IN  /\ to("merge") \cup to("discard") # {}
                  /\ onScreen' = [keep |-> keep, merge |-> to("merge"), discard |-> to("discard")]
    /\ UNCHANGED <<shelves, maker, register, synonyms, mined, lookedUp, answers>>

LeaveScreen ==
    /\ onScreen # NoEntry
    /\ onScreen' = NoEntry
    /\ UNCHANGED <<shelves, maker, register, synonyms, mined, lookedUp, answers>>

(* POST /producers/merge, with what the screen suggests.                   *)
FollowSuggestion ==
    LET keep == onScreen.keep
        named == {<<n, keep>> : n \in {m \in onScreen.merge : aliasUseful(m, producerMergeKey(keep))}}
        discarded == {n \in onScreen.discard : Linked(n) = 0}
    IN  /\ onScreen # NoEntry
        /\ maker' = [k \in Listed |-> IF maker[k] \in onScreen.merge THEN keep ELSE maker[k]]
        /\ synonyms' = {IF a[2] \in onScreen.merge THEN <<a[1], keep>> ELSE a :
                           a \in synonyms \cup named}
        /\ register' = [n \in DOMAIN register \ onScreen.merge |->
                           [register[n] EXCEPT !.status = IF n \in discarded THEN "retired" ELSE @]]
        /\ onScreen' = NoEntry
        /\ UNCHANGED <<shelves, mined, lookedUp, answers>>

(* The buttons of one name; the approver may say that it is no person.     *)
SetStatus(n, status, fuzzy) ==
    /\ onScreen = NoEntry /\ answers < MaxAnswers
    /\ answers' = answers + 1
    /\ register' = [register EXCEPT ![n].status = status, ![n].fuzzy = fuzzy]
    /\ UNCHANGED <<shelves, maker, synonyms, mined, lookedUp, onScreen>>

ApproveName(n) ==
    /\ register[n].status # "active"
    /\ \E fuzzy \in {register[n].fuzzy, FALSE} : SetStatus(n, "active", fuzzy)

RejectName(n) == register[n].status # "active" /\ SetStatus(n, "retired", register[n].fuzzy)

RevokeName(n) ==
    /\ Linked(n) = 0 /\ register[n].status # "proposed"
    /\ SetStatus(n, "proposed", register[n].fuzzy)

NamesNext ==
    \/ ReadAgain \/ MineNames \/ LookUpName \/ WriteName
    \/ SeeGroup \/ LeaveScreen \/ FollowSuggestion
    \/ \E n \in DOMAIN register : ApproveName(n) \/ RejectName(n) \/ RevokeName(n)

NamesSpec == NamesInit /\ [][NamesNext]_nameVars

-----------------------------------------------------------------------------
NamesTypeOK ==
    /\ shelves \in Stocks
    /\ \A n \in DOMAIN register :
          /\ register[n].status \in {"proposed", "active", "retired"}
          /\ register[n].person = looksLikeHungarianPersonName(n)
    /\ \A k \in Listed : maker[k] \in DOMAIN register \cup {NoEntry}
    /\ \A a \in synonyms : a[2] \in DOMAIN register
    /\ Cardinality(mined) <= Shortlist
    /\ answers \in 0..MaxAnswers

Holds(long, short) == \E i \in DOMAIN long : StandsAt(short, long, i)

RepeatsNoWord(name) == \A i, j \in DOMAIN name : name[i] = name[j] => i = j

(* A name that is left out goes for another one, which may go for a third; *)
(* of every group of such names one goes for a name outside of it, so that *)
(* each of them ends in a name that is proposed.  The name it ends in need *)
(* not hold it: of the frequent names chandon brut, moet chandon brut and  *)
(* moet chandon the first goes for the second when the two are as          *)
(* frequent, and the second for the third.                                 *)
EachGoesForOneKept ==
    (\A k \in Listed : RepeatsNoWord(ResidueOf(k))) =>
        LET frequent == FrequentOf(shelves, [k \in Listed |-> ResidueOf(k)])
            left == frequent \ dedupeByContainment(frequent)
        IN  \A S \in (SUBSET left) \ {{}} :
                \E c \in S, d \in frequent \ S : c \in Superseded({c, d})

(* No winery is lost between names that rule each other out, whenever the  *)
(* job may mine the names.                                                 *)
NoNameLost == mined = {} /\ lookedUp = NoEntry => EachGoesForOneKept

(* The name is one that k's own name holds, of n or of an alias of n.      *)
NamedIn(k, n) == \E p \in NamePhrases : p.slot = "producer" /\ p.id = n /\ Holds(k[2], p.words)

(* Whoever follows the suggestions cannot go wrong.  Every listing stays   *)
(* with a producer in force, whatever is mined, read again, put together   *)
(* and approved in between.  The Gere Attila and the Gere Zsolt of the     *)
(* source are not put together: only the manager's own answer changes the  *)
(* status of a person's winery, its name becomes no other's alias, and a   *)
(* listing leaves it, or has its first winery, only for one it names.      *)
SuggestionsAreSafe ==
    [][/\ \A k \in Listed :
             /\ maker'[k] # NoEntry =>
                   maker'[k] \in DOMAIN register' /\ register'[maker'[k]].status = "active"
             /\ maker'[k] # maker[k]
                   /\ (maker[k] = NoEntry \/ looksLikeHungarianPersonName(maker[k])) =>
                   NamedIn(k, maker'[k])
       /\ \A n \in DOMAIN register :
             looksLikeHungarianPersonName(n) /\ answers' = answers =>
                n \in DOMAIN register' /\ register'[n].status = register[n].status
       /\ \A a \in synonyms' : ~looksLikeHungarianPersonName(a[1])]_nameVars
=============================================================================
