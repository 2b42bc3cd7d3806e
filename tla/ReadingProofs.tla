---------------------------- MODULE ReadingProofs ----------------------------
(***************************************************************************)
(* Proofs for the parts that read what the pages of a shop say, the names  *)
(* of listings: ListingIdentity, ProducerNames and ProducerRegister, for   *)
(* any pages, vocabularies, stocks of names, producers and numbers of      *)
(* readings.                                                               *)
(*                                                                         *)
(* ReadingSettles.  What a page says is read in rounds, the longest phrase *)
(* first, each on the words the ones before have left; ReadsWith says what *)
(* a reading may find, whatever the order of equals.  IdentityHolds is the *)
(* invariant: the row of a listing was read off the page it points to, so  *)
(* that a second reading has nothing to add.                               *)
(*                                                                         *)
(* NoNameLost, SuggestionsAreSafe.  NamesHold is inductive: a listing has  *)
(* a producer in force, no alias is a person's name, and what is on the    *)
(* screen puts nobody's name together with another.  Of the names that are *)
(* left out of a proposal each goes for one that stands higher: it is more *)
(* frequent, or as frequent and longer.                                    *)
(*                                                                         *)
(* OwnerFollowsNames is inductive with the same of everything a run keeps  *)
(* while the register changes under it: the aliases, the vocabulary it has *)
(* loaded and the owners it has read.                                      *)
(***************************************************************************)
EXTENDS ProducerRegister, ProducerNames,
        FiniteSetTheorems, SequenceTheorems, WellFoundedInduction, TLAPS

(* Induction over what an action may be asked to do, and over the numbers. *)
LEMMA HasLeast ==
    ASSUME NEW T \in SUBSET Nat, T # {}
    PROVE  \E m \in T : \A n \in T : m <= n
<1> DEFINE Below(x) == {y \in T : y < x}
           F == {Below(x) : x \in T}
<1>1. \A x \in T : Below(x) \in FiniteSubsetsOf(Nat)
  <2> SUFFICES ASSUME NEW x \in T PROVE Below(x) \in FiniteSubsetsOf(Nat) OBVIOUS
  <2>0. x \in Nat OBVIOUS
  <2>1. Below(x) \subseteq 0..x
    <3>1. \A y \in T : y < x => y \in 0..x BY <2>0
    <3> QED BY <3>1
  <2>2. IsFiniteSet(0..x) BY <2>0, FS_Interval
  <2>3. IsFiniteSet(Below(x)) BY <2>1, <2>2, FS_Subset
  <2> QED BY <2>1, <2>3 DEF FiniteSubsetsOf
<1>2. F \subseteq FiniteSubsetsOf(Nat) /\ F # {}
  BY <1>1
<1>3. PICK x \in F : \A y \in F : ~ (<<y, x>> \in StrictSubsetOrdering(Nat))
  BY <1>2, FS_StrictSubsetOrderingWellFounded, WFMin
<1>4. PICK m \in T : x = Below(m) OBVIOUS
<1>5. ASSUME NEW n \in T, n < m PROVE FALSE
  <2>1. m \in Nat /\ n \in Nat OBVIOUS
  <2>2. Below(n) \subseteq Below(m) /\ n \in Below(m) /\ n \notin Below(n)
    <3>1. \A k \in T : \A y : y \in Below(k) <=> y \in T /\ y < k OBVIOUS
    <3>2. \A y \in T : y < n => y < m BY <1>5, <2>1
    <3>3. ~(n < n) BY <2>1
    <3> HIDE DEF Below
    <3> QED BY <1>5, <3>1, <3>2, <3>3
  <2>3. Below(n) \in SUBSET Nat /\ Below(m) \in SUBSET Nat OBVIOUS
  <2>4. <<Below(n), Below(m)>> \in StrictSubsetOrdering(Nat)
    <3> HIDE DEF Below
    <3> QED BY <2>2, <2>3 DEF StrictSubsetOrdering
  <2>5. Below(n) \in F OBVIOUS
  <2> QED BY <1>3, <1>4, <2>4, <2>5
<1>6. \A n \in T : m <= n
  <2>1. \A n \in T : n \in Nat /\ m \in Nat OBVIOUS
  <2> QED BY <1>5, <2>1
<1> QED BY <1>6


LEMMA BoundedHasGreatest ==
    ASSUME NEW N \in Nat, NEW T \in SUBSET (0..N), T # {}
    PROVE  \E m \in T : \A n \in T : n <= m
<1> DEFINE Above(x) == {y \in T : y > x}
           F == {Above(x) : x \in T}
<1>1. \A x \in T : Above(x) \in FiniteSubsetsOf(0..N)
  <2> SUFFICES ASSUME NEW x \in T PROVE Above(x) \in FiniteSubsetsOf(0..N) OBVIOUS
  <2>1. Above(x) \subseteq 0..N OBVIOUS
  <2>2. IsFiniteSet(0..N) BY FS_Interval
  <2>3. IsFiniteSet(Above(x)) BY <2>1, <2>2, FS_Subset
  <2> QED BY <2>1, <2>3 DEF FiniteSubsetsOf
<1>2. F \subseteq FiniteSubsetsOf(0..N) /\ F # {}
  BY <1>1
<1>3. PICK x \in F : \A y \in F : ~ (<<y, x>> \in StrictSubsetOrdering(0..N))
  BY <1>2, FS_StrictSubsetOrderingWellFounded, WFMin
<1>4. PICK m \in T : x = Above(m) OBVIOUS
<1>5. ASSUME NEW n \in T, n > m PROVE FALSE
  <2>1. T \subseteq Int /\ m \in Int /\ n \in Int OBVIOUS
  <2>2. Above(n) \subseteq Above(m) /\ n \in Above(m) /\ n \notin Above(n)
    <3>1. \A k \in T : \A y : y \in Above(k) <=> y \in T /\ y > k OBVIOUS
    <3>2. \A y \in T : y > n => y > m BY <1>5, <2>1
    <3>3. ~(n > n) BY <2>1
    <3> HIDE DEF Above
    <3> QED BY <1>5, <3>1, <3>2, <3>3
  <2>3. Above(n) \in SUBSET (0..N) /\ Above(m) \in SUBSET (0..N) OBVIOUS
  <2>4. <<Above(n), Above(m)>> \in StrictSubsetOrdering(0..N)
    <3> HIDE DEF Above
    <3> QED BY <2>2, <2>3 DEF StrictSubsetOrdering
  <2>5. Above(n) \in F OBVIOUS
  <2> QED BY <1>3, <1>4, <2>4, <2>5
<1>6. \A n \in T : n <= m
  <2>1. \A n \in T : n \in Int /\ m \in Int OBVIOUS
  <2> QED BY <1>5, <2>1
<1> QED BY <1>6

LEMMA UpTo ==
    ASSUME NEW n \in Nat, NEW S, 0 \in S, \A i \in 1..n : i - 1 \in S => i \in S
    PROVE  \A i \in 0..n : i \in S
<1> DEFINE T == (0..n) \ S
<1> SUFFICES ASSUME T # {} PROVE FALSE OBVIOUS
<1>1. T \in SUBSET Nat OBVIOUS
<1>2. PICK m \in T : \A k \in T : m <= k BY <1>1, HasLeast
<1>3. m \in 1..n /\ m - 1 \in 0..n BY <1>1
<1>4. m - 1 \in S
  <2>1. m - 1 \notin T BY <1>2, <1>3
  <2> QED BY <1>3, <2>1
<1> QED BY <1>3, <1>4

LEMMA MaxOfTop ==
    ASSUME NEW k \in Nat, NEW s \in SUBSET (1..k), k \in s
    PROVE  Max(s) = k
<1>1. \A x \in s : (\A y \in s : x >= y) => x = k OBVIOUS
<1>2. \A y \in s : k >= y OBVIOUS
<1> QED BY <1>1, <1>2 DEF Max

Turned(text, phrases, scope, p, i) ==
    IF i \in p.used THEN p ELSE ReadAt(text, phrases, scope, p, i)

LEMMA PassIsFold ==
    ASSUME NEW text, NEW phrases, NEW scope, NEW parse
    PROVE runMatchPass(text, phrases, scope, parse) =
        (CHOOSE g : g = [s \in SUBSET (DOMAIN text) |->
           IF s = {} THEN parse
           ELSE Turned(text, phrases, scope, g[s \ {Max(s)}], [i \in DOMAIN text |-> i][Max(s)])])[DOMAIN text]
BY DEF runMatchPass, FoldLeft, MapThenFoldSet, Turned

PassesThrough(t, n, text, phrases, scope, parse) ==
    /\ t[0] = parse
    /\ \A i \in 1..n : t[i] = Turned(text, phrases, scope, t[i - 1], i)
    /\ runMatchPass(text, phrases, scope, parse) = t[n]

LEMMA PassTrace ==
    ASSUME NEW n \in Nat, NEW text, DOMAIN text = 1..n, NEW phrases, NEW scope, NEW parse
    PROVE  \E t : PassesThrough(t, n, text, phrases, scope, parse)
<1> DEFINE At(i) == [k \in DOMAIN text |-> k][i]
           Value(g, s) == IF s = {} THEN parse
                          ELSE Turned(text, phrases, scope, g[s \ {Max(s)}], At(Max(s)))
           Fits(k) == \E g : \A s \in SUBSET (1..k) : g[s] = Value(g, s)
           Good == {k \in 0..n : Fits(k)}
<1>1. 0 \in Good
  <2> DEFINE g == [s \in SUBSET (1..0) |-> parse]
  <2>1. \A s \in SUBSET (1..0) : s = {} OBVIOUS
  <2>2. \A s \in SUBSET (1..0) : g[s] = Value(g, s) BY <2>1
  <2>3. Fits(0)
    <3> HIDE DEF Value, g
    <3> QED BY <2>2
  <2> HIDE DEF Fits
  <2> QED BY <2>3
<1>2. \A k \in 1..n : k - 1 \in Good => k \in Good
  <2> SUFFICES ASSUME NEW k \in 1..n, k - 1 \in Good PROVE k \in Good OBVIOUS
  <2>1. PICK g : \A s \in SUBSET (1..(k - 1)) : g[s] = Value(g, s) BY Zenon
  <2> DEFINE h == [s \in SUBSET (1..k) |->
                     IF k \in s THEN Turned(text, phrases, scope, g[s \ {k}], At(k)) ELSE g[s]]
  <2>2. \A s \in SUBSET (1..k) : k \notin s => s \in SUBSET (1..(k - 1)) OBVIOUS
  <2>3. \A s \in SUBSET (1..k) : s \ {k} \in SUBSET (1..(k - 1)) OBVIOUS
  <2>4. \A s \in SUBSET (1..(k - 1)) : s \in SUBSET (1..k) /\ k \notin s OBVIOUS
  <2>5. \A s \in SUBSET (1..(k - 1)) : h[s] = g[s] BY <2>4
  <2>6. ASSUME NEW s \in SUBSET (1..k) PROVE h[s] = Value(h, s)
    <3>1. CASE k \in s
      <4>1. Max(s) = k BY <3>1, MaxOfTop
      <4>2. h[s] = Turned(text, phrases, scope, g[s \ {k}], At(k)) BY <3>1
      <4>3. h[s \ {k}] = g[s \ {k}] BY <2>3, <2>5
      <4>4. s # {} BY <3>1
      <4> HIDE DEF h, At
      <4> QED BY <4>1, <4>2, <4>3, <4>4
    <3>2. CASE k \notin s
      <4>1. h[s] = g[s] /\ g[s] = Value(g, s) BY <2>1, <2>2, <2>5, <3>2, Zenon
      <4>2. s # {} => s \ {Max(s)} \in SUBSET (1..(k - 1)) BY <2>2, <3>2
      <4>3. s # {} => h[s \ {Max(s)}] = g[s \ {Max(s)}] BY <4>2, <2>5
      <4> HIDE DEF h, At
      <4> QED BY <4>1, <4>3
    <3> QED BY <3>1, <3>2
  <2>7. Fits(k)
    <3> HIDE DEF h, Value
    <3> QED BY <2>6
  <2> HIDE DEF Fits
  <2> QED BY <2>7
<1>3. n \in Good
  <2> HIDE DEF Good
  <2> QED BY <1>1, <1>2, UpTo
<1>4. PICK g : \A s \in SUBSET (1..n) : g[s] = Value(g, s) BY <1>3, Zenon
<1> DEFINE Defined(f) == f = [s \in SUBSET (DOMAIN text) |-> Value(f, s)]
           f0 == [s \in SUBSET (DOMAIN text) |-> g[s]]
           f1 == CHOOSE f : Defined(f)
<1>5. Defined(f0)
  <2>1. \A s \in SUBSET (DOMAIN text) : s \ {Max(s)} \in SUBSET (DOMAIN text) OBVIOUS
  <2>2. \A s \in SUBSET (DOMAIN text) : f0[s \ {Max(s)}] = g[s \ {Max(s)}] BY <2>1
  <2>3. \A s \in SUBSET (DOMAIN text) : Value(f0, s) = Value(g, s) BY <2>2
  <2> HIDE DEF Value
  <2> QED BY <1>4, <2>3
<1>6. Defined(f1) BY <1>5, Zenon
<1>7. runMatchPass(text, phrases, scope, parse) = f1[DOMAIN text] BY PassIsFold
<1> DEFINE t == [i \in 0..n |-> f1[1..i]]
<1>8. \A i \in 0..n : 1..i \in SUBSET (DOMAIN text) OBVIOUS
<1>9. t[0] = parse
  <2>1. 1..0 = {} OBVIOUS
  <2>2. f1[1..0] = Value(f1, 1..0)
    <3>1. 1..0 \in SUBSET (DOMAIN text) OBVIOUS
    <3> HIDE DEF Value, f1
    <3> QED BY <1>6, <3>1
  <2> HIDE DEF f1
  <2> QED BY <2>1, <2>2
<1>10. ASSUME NEW i \in 1..n PROVE t[i] = Turned(text, phrases, scope, t[i - 1], i)
  <2>1. 1..i # {} /\ (1..i) \ {i} = 1..(i - 1) /\ i \in 1..i OBVIOUS
  <2>2. Max(1..i) = i BY <2>1, MaxOfTop
  <2>3. f1[1..i] = Value(f1, 1..i)
    <3>1. 1..i \in SUBSET (DOMAIN text) OBVIOUS
    <3> HIDE DEF Value, f1
    <3> QED BY <1>6, <3>1
  <2>4. At(i) = i OBVIOUS
  <2>5. t[i] = f1[1..i] /\ t[i - 1] = f1[1..(i - 1)] OBVIOUS
  <2> HIDE DEF f1, At, t
  <2> QED BY <2>1, <2>2, <2>3, <2>4, <2>5
<1>11. runMatchPass(text, phrases, scope, parse) = t[n]
  <2> HIDE DEF f1
  <2> QED BY <1>7
<1> HIDE DEF t
<1> QED BY <1>9, <1>10, <1>11 DEF PassesThrough

-----------------------------------------------------------------------------
ParseFields == Slots \cup {"used", "ambiguous"}

Phrased(phrases) ==
    \A p \in phrases : p.slot \in Slots /\ Len(p.words) \in Nat \ {0}

(* What could be read at a position of a reading, and was not, is an       *)
(* entity of a slot that another one fills, or of another producer.        *)
ReadUp(text, phrases, scope, parse, i) ==
    \A p \in phrases :
        StandsAt(p.words, text, i) /\ Span(p, i) \cap parse.used = {} =>
            \/ p.slot # "grape" /\ parse[p.slot] \notin {NoEntry, p.id}
            \/ p.slot = "vineyard" /\ p.of \notin {NoEntry, scope}

KeepsRead(before, after) ==
    /\ before.used \subseteq after.used
    /\ \A s \in Slots \ {"grape"} : before[s] # NoEntry => after[s] = before[s]

NamedBy(phrases, text, id) ==
    \E p \in phrases : \E i \in DOMAIN text :
        p.slot = "producer" /\ p.id = id /\ StandsAt(p.words, text, i)

LEMMA FirstTried ==
    ASSUME NEW n \in Nat, NEW free, free # {}, Phrased(free),
           \A p \in free : Len(p.words) <= n
    PROVE  \E p \in free : \A q \in free : ~TriedBefore(q, p)
<1>1. {Len(p.words) : p \in free} \in SUBSET (0..n)
  <2>1. \A p \in free : Len(p.words) \in 0..n BY DEF Phrased
  <2> QED BY <2>1
<1>2. PICK m \in {Len(p.words) : p \in free} : \A k \in {Len(p.words) : p \in free} : k <= m
  <2>1. {Len(p.words) : p \in free} # {} OBVIOUS
  <2> QED BY <1>1, <2>1, BoundedHasGreatest
<1> DEFINE Longest == {p \in free : Len(p.words) = m}
           Ranks == {SLOT_PRIORITY[p.slot] : p \in Longest}
<1>3. \A p \in free : SLOT_PRIORITY[p.slot] \in Nat
  <2> SUFFICES ASSUME NEW p \in free PROVE SLOT_PRIORITY[p.slot] \in Nat OBVIOUS
  <2>1. p.slot \in Slots BY DEF Phrased
  <2> QED BY <2>1 DEF SLOT_PRIORITY, Slots
<1>4. Ranks \in SUBSET Nat /\ Ranks # {} BY <1>3
<1>5. PICK r \in Ranks : \A k \in Ranks : r <= k BY <1>4, HasLeast
<1>6. PICK p \in Longest : SLOT_PRIORITY[p.slot] = r OBVIOUS
<1>7. ASSUME NEW q \in free PROVE ~TriedBefore(q, p)
  <2>1. Len(q.words) <= Len(p.words) /\ Len(q.words) \in Nat /\ Len(p.words) \in Nat
    BY <1>1, <1>2, <1>6
  <2>2. Len(q.words) = Len(p.words) => SLOT_PRIORITY[p.slot] <= SLOT_PRIORITY[q.slot]
    BY <1>5, <1>6
  <2>3. SLOT_PRIORITY[p.slot] \in Nat /\ SLOT_PRIORITY[q.slot] \in Nat BY <1>3, <1>6
  <2> QED BY <2>1, <2>2, <2>3 DEF TriedBefore
<1> QED BY <1>6, <1>7

LEMMA TurnReads ==
    ASSUME NEW n \in Nat, NEW text, DOMAIN text = 1..n, Len(text) = n,
           NEW phrases, Phrased(phrases), NEW scope, NEW parse, DOMAIN parse = ParseFields,
           NEW i \in 1..n, NEW after, after = Turned(text, phrases, scope, parse, i)
    PROVE  /\ DOMAIN after = ParseFields
           /\ KeepsRead(parse, after)
           /\ ReadUp(text, phrases, scope, after, i)
           /\ after.producer = parse.producer \/ NamedBy(phrases, text, after.producer)
<1> DEFINE fitting == {p \in phrases :
                          /\ StandsAt(p.words, text, i)
                          /\ Span(p, i) \cap parse.used = {}
                          /\ p.slot = "vineyard" => p.of \in {NoEntry, scope}}
           free == {p \in fitting : Takeable(parse, p)}
           first == CHOOSE p \in free : \A q \in free : ~TriedBefore(q, p)
           noted(passed) == [parse EXCEPT !.ambiguous = @ \cup passed]
<1>1. \A p \in phrases : Len(p.words) \in Nat \ {0} /\ p.slot \in Slots BY DEF Phrased
<1>2. \A p \in phrases : i \in Span(p, i) BY <1>1 DEF Span
<1>3. \A passed : /\ DOMAIN noted(passed) = ParseFields
                  /\ noted(passed).used = parse.used
                  /\ \A s \in Slots : noted(passed)[s] = parse[s]
  BY DEF ParseFields, Slots
<1>4. CASE i \in parse.used
  <2>1. after = parse BY <1>4 DEF Turned
  <2>2. ReadUp(text, phrases, scope, after, i) BY <1>2, <1>4, <2>1 DEF ReadUp
  <2> QED BY <2>1, <2>2 DEF KeepsRead
<1>5. CASE i \notin parse.used /\ free = {}
  <2>1. after = noted(fitting) BY <1>5 DEF Turned, ReadAt
  <2>2. KeepsRead(parse, after) BY <1>3, <2>1 DEF KeepsRead
  <2>3. ReadUp(text, phrases, scope, after, i)
    <3> SUFFICES ASSUME NEW p \in phrases, StandsAt(p.words, text, i),
                        Span(p, i) \cap after.used = {},
                        ~(p.slot = "vineyard" /\ p.of \notin {NoEntry, scope})
                 PROVE  p.slot # "grape" /\ after[p.slot] \notin {NoEntry, p.id}
      BY DEF ReadUp
    <3>1. p \in fitting BY <1>3, <2>1
    <3>2. ~Takeable(parse, p) BY <1>5, <3>1
    <3>3. after[p.slot] = parse[p.slot]
      <4> HIDE DEF noted, fitting
      <4> QED BY <1>1, <1>3, <2>1
    <3> QED BY <3>2, <3>3, Zenon DEF Takeable
  <2>4. after.producer = parse.producer BY <1>3, <2>1 DEF Slots
  <2> QED BY <1>3, <2>1, <2>2, <2>3, <2>4
<1>6. CASE i \notin parse.used /\ free # {}
  <2>1. \A p \in free : Len(p.words) <= n
    <3> SUFFICES ASSUME NEW p \in free PROVE Len(p.words) <= n OBVIOUS
    <3>1. i + Len(p.words) - 1 <= n BY DEF StandsAt
    <3>2. Len(p.words) \in Nat BY <1>1
    <3> QED BY <3>1, <3>2
  <2>2. Phrased(free) BY <1>1 DEF Phrased
  <2>3. first \in free
    <3>1. \E p \in free : \A q \in free : ~TriedBefore(q, p)
      <4> HIDE DEF free
      <4> QED BY <1>6, <2>1, <2>2, FirstTried
    <3> HIDE DEF free
    <3> QED BY <3>1
  <2> DEFINE passed == {p \in fitting : TriedBefore(p, first)}
             was == noted(passed)
  <2>4. after = TakePhrase(was, first, i)
    <3>1. ReadAt(text, phrases, scope, parse, i) =
            IF free = {} THEN noted(IF free = {} THEN fitting ELSE passed)
            ELSE TakePhrase(noted(IF free = {} THEN fitting ELSE passed), first, i)
      BY Zenon DEF ReadAt
    <3> HIDE DEF first, free, fitting, passed, noted
    <3> QED BY <1>6, <3>1 DEF Turned, was
  <2>5. /\ DOMAIN was = ParseFields /\ was.used = parse.used
        /\ \A s \in Slots : was[s] = parse[s]
    <3> HIDE DEF passed
    <3> QED BY <1>3
  <2>6. first \in phrases /\ first.slot \in Slots /\ Takeable(parse, first)
        /\ StandsAt(first.words, text, i)
    BY <1>1, <2>3
  <2> HIDE DEF was, first, fitting, free
  <2>7. /\ DOMAIN Fill(was, first) = ParseFields
        /\ Fill(was, first).used = parse.used
        /\ \A s \in Slots \ {"grape"} :
              Fill(was, first)[s] = IF s = first.slot THEN first.id ELSE parse[s]
    BY <2>5, <2>6 DEF Fill, ParseFields, Slots
  <2>8. /\ DOMAIN after = ParseFields
        /\ after.used = parse.used \cup Span(first, i)
        /\ \A s \in Slots \ {"grape"} :
              after[s] = IF s = first.slot THEN first.id ELSE parse[s]
    BY <2>4, <2>7 DEF TakePhrase, ParseFields, Slots
  <2>9. KeepsRead(parse, after)
    BY <2>6, <2>8 DEF KeepsRead, Takeable
  <2>10. ReadUp(text, phrases, scope, after, i)
    BY <1>2, <2>6, <2>8 DEF ReadUp
  <2>11. after.producer = parse.producer \/ NamedBy(phrases, text, after.producer)
    BY <2>6, <2>8 DEF NamedBy, Slots
  <2> QED BY <2>8, <2>9, <2>10, <2>11
<1> QED BY <1>4, <1>5, <1>6

LEMMA KeepingIsTransitive ==
    ASSUME NEW a, NEW b, NEW c, KeepsRead(a, b), KeepsRead(b, c)
    PROVE  KeepsRead(a, c)
<1>1. a.used \subseteq c.used BY DEF KeepsRead
<1>2. ASSUME NEW s \in Slots \ {"grape"}, a[s] # NoEntry PROVE c[s] = a[s]
  <2>1. b[s] = a[s] BY <1>2 DEF KeepsRead
  <2>2. c[s] = b[s] BY <1>2, <2>1 DEF KeepsRead
  <2> QED BY <2>1, <2>2
<1> QED BY <1>1, <1>2 DEF KeepsRead

LEMMA ReadUpStays ==
    ASSUME NEW text, NEW phrases, Phrased(phrases), NEW scope, NEW a, NEW b, NEW i,
           KeepsRead(a, b), ReadUp(text, phrases, scope, a, i)
    PROVE  ReadUp(text, phrases, scope, b, i)
<1> SUFFICES ASSUME NEW p \in phrases, StandsAt(p.words, text, i), Span(p, i) \cap b.used = {}
             PROVE  \/ p.slot # "grape" /\ b[p.slot] \notin {NoEntry, p.id}
                    \/ p.slot = "vineyard" /\ p.of \notin {NoEntry, scope}
  BY DEF ReadUp
<1>1. Span(p, i) \cap a.used = {} BY DEF KeepsRead
<1>2. CASE p.slot = "vineyard" /\ p.of \notin {NoEntry, scope} BY <1>2
<1>3. CASE p.slot # "grape" /\ a[p.slot] \notin {NoEntry, p.id}
  <2>1. b[p.slot] = a[p.slot] BY <1>3 DEF KeepsRead, Phrased
  <2> QED BY <1>3, <2>1
<1> QED BY <1>1, <1>2, <1>3 DEF ReadUp

LEMMA PassReads ==
    ASSUME NEW n \in Nat, NEW text, DOMAIN text = 1..n, Len(text) = n,
           NEW phrases, Phrased(phrases), NEW scope, NEW parse, DOMAIN parse = ParseFields,
           NEW after, after = runMatchPass(text, phrases, scope, parse)
    PROVE  /\ DOMAIN after = ParseFields
           /\ KeepsRead(parse, after)
           /\ \A i \in 1..n : ReadUp(text, phrases, scope, after, i)
           /\ after.producer = parse.producer \/ NamedBy(phrases, text, after.producer)
<1>0. PICK t : PassesThrough(t, n, text, phrases, scope, parse) BY PassTrace
<1>1. /\ t[0] = parse
      /\ \A i \in 1..n : t[i] = Turned(text, phrases, scope, t[i - 1], i)
      /\ runMatchPass(text, phrases, scope, parse) = t[n]
  BY <1>0 DEF PassesThrough
<1> DEFINE Fine(k) == /\ DOMAIN t[k] = ParseFields
                      /\ KeepsRead(parse, t[k])
                      /\ \A i \in 1..k : ReadUp(text, phrases, scope, t[k], i)
                      /\ t[k].producer = parse.producer \/ NamedBy(phrases, text, t[k].producer)
           S == {k \in 0..n : Fine(k)}
<1>2. 0 \in S
  <2>1. KeepsRead(parse, t[0]) BY <1>1 DEF KeepsRead
  <2>2. 1..0 = {} OBVIOUS
  <2> QED BY <1>1, <2>1, <2>2
<1>3. ASSUME NEW k \in 1..n, k - 1 \in S PROVE k \in S
  <2>1. Fine(k - 1) BY <1>3
  <2>2. t[k] = Turned(text, phrases, scope, t[k - 1], k) BY <1>1
  <2>3. /\ DOMAIN t[k] = ParseFields
        /\ KeepsRead(t[k - 1], t[k])
        /\ ReadUp(text, phrases, scope, t[k], k)
        /\ t[k].producer = t[k - 1].producer \/ NamedBy(phrases, text, t[k].producer)
    BY <2>1, <2>2, TurnReads
  <2>4. KeepsRead(parse, t[k]) BY <2>1, <2>3, KeepingIsTransitive
  <2>5. \A i \in 1..k : ReadUp(text, phrases, scope, t[k], i)
    <3> SUFFICES ASSUME NEW i \in 1..k PROVE ReadUp(text, phrases, scope, t[k], i) OBVIOUS
    <3>1. CASE i = k BY <2>3, <3>1
    <3>2. CASE i # k
      <4>1. i \in 1..(k - 1) BY <3>2
      <4> QED BY <2>1, <2>3, <4>1, ReadUpStays
    <3> QED BY <3>1, <3>2
  <2>6. t[k].producer = parse.producer \/ NamedBy(phrases, text, t[k].producer)
    BY <2>1, <2>3
  <2> QED BY <2>3, <2>4, <2>5, <2>6
<1>4. n \in S
  <2> HIDE DEF S
  <2> QED BY <1>2, <1>3, UpTo
<1> QED BY <1>1, <1>4

(* Nothing that could be read is left over in what parseWineName reads.    *)
LEMMA ParseReads ==
    ASSUME NEW n \in Nat, NEW text, DOMAIN text = 1..n, Len(text) = n,
           NEW phrases, Phrased(phrases), NEW scope,
           NEW parse, parse = parseWineName(text, phrases, scope)
    PROVE  /\ parse.producer = NoEntry \/ NamedBy(phrases, text, parse.producer)
           /\ \A p \in phrases, i \in 1..n :
                StandsAt(p.words, text, i) /\ Span(p, i) \cap parse.used = {} =>
                    \/ p.slot # "grape" /\ parse[p.slot] \notin {NoEntry, p.id}
                    \/ p.slot = "vineyard" /\ p.of \notin {NoEntry, scope, parse.producer}
<1> DEFINE blank == [used |-> {i \in DOMAIN text : text[i] \in Measures},
                     ambiguous |-> {}, producer |-> NoEntry, vineyard |-> NoEntry,
                     region |-> NoEntry, style |-> NoEntry, grape |-> {}]
           once == runMatchPass(text, phrases, scope, blank)
           twice == runMatchPass(text, phrases, once.producer, once)
<1>1. parse = IF once.producer = NoEntry THEN once ELSE twice BY Zenon DEF parseWineName
<1>2. DOMAIN blank = ParseFields /\ blank.producer = NoEntry BY DEF ParseFields, Slots
<1> HIDE DEF blank
<1>3. /\ DOMAIN once = ParseFields
      /\ \A i \in 1..n : ReadUp(text, phrases, scope, once, i)
      /\ once.producer = NoEntry \/ NamedBy(phrases, text, once.producer)
  BY <1>2, PassReads
<1> HIDE DEF once
<1>4. /\ DOMAIN twice = ParseFields
      /\ KeepsRead(once, twice)
      /\ \A i \in 1..n : ReadUp(text, phrases, once.producer, twice, i)
  BY <1>3, PassReads
<1> HIDE DEF twice
<1>5. CASE once.producer = NoEntry
  BY <1>1, <1>3, <1>5 DEF ReadUp
<1>6. CASE once.producer # NoEntry
  <2>1. parse = twice BY <1>1, <1>6
  <2>2. twice.producer = once.producer BY <1>4, <1>6 DEF KeepsRead, Slots
  <2>3. \A i \in 1..n : ReadUp(text, phrases, scope, twice, i)
    BY <1>3, <1>4, ReadUpStays
  <2> QED BY <1>3, <1>4, <2>1, <2>2, <2>3 DEF ReadUp
<1> QED BY <1>5, <1>6

(* With no phrases there is nothing to read.                               *)
LEMMA NothingToRead ==
    ASSUME NEW n \in Nat, NEW text, DOMAIN text = 1..n, NEW phrases, phrases = {}, NEW scope,
           NEW parse, parse = parseWineName(text, phrases, scope)
    PROVE  parse.producer = NoEntry /\ parse.style = NoEntry /\ parse.grape = {}
<1> DEFINE blank == [used |-> {i \in DOMAIN text : text[i] \in Measures},
                     ambiguous |-> {}, producer |-> NoEntry, vineyard |-> NoEntry,
                     region |-> NoEntry, style |-> NoEntry, grape |-> {}]
           once == runMatchPass(text, phrases, scope, blank)
           twice == runMatchPass(text, phrases, once.producer, once)
           Fine(p) == /\ DOMAIN p = ParseFields
                      /\ p.producer = NoEntry /\ p.style = NoEntry /\ p.grape = {}
<1>1. parse = IF once.producer = NoEntry THEN once ELSE twice BY Zenon DEF parseWineName
<1>2. Fine(blank) BY DEF ParseFields, Slots
<1> HIDE DEF blank
<1>3. PICK t : PassesThrough(t, n, text, phrases, scope, blank) BY PassTrace
<1>4. /\ t[0] = blank
      /\ \A i \in 1..n : t[i] = Turned(text, phrases, scope, t[i - 1], i)
      /\ once = t[n]
  BY <1>3 DEF PassesThrough
<1> HIDE DEF once
<1> DEFINE S == {k \in 0..n : Fine(t[k])}
<1>5. 0 \in S BY <1>2, <1>4
<1>6. ASSUME NEW k \in 1..n, k - 1 \in S PROVE k \in S
  <2> DEFINE before == t[k - 1]
  <2>1. Fine(before) BY <1>6
  <2>2. t[k] = Turned(text, phrases, scope, before, k) BY <1>4
  <2> HIDE DEF before
  <2>3. CASE k \in before.used BY <2>1, <2>2, <2>3 DEF Turned
  <2>4. CASE k \notin before.used
    <3> DEFINE noted == [before EXCEPT !.ambiguous = @ \cup {}]
    <3>1. t[k] = noted BY <2>2, <2>4 DEF Turned, ReadAt
    <3>2. Fine(noted) BY <2>1 DEF ParseFields, Slots
    <3> HIDE DEF noted
    <3> QED BY <3>1, <3>2
  <2> QED BY <2>3, <2>4
<1>7. n \in S
  <2> HIDE DEF S
  <2> QED BY <1>5, <1>6, UpTo
<1> QED BY <1>1, <1>4, <1>7

-----------------------------------------------------------------------------
(* The pieces of a row that wineSlotPatch derives from the name alone.     *)
RowFields == DOMAIN NoIdentity
IsRow(r) == r = [x \in RowFields |-> r[x]]

SameMeasures(a, b) ==
    /\ a.vintage = b.vintage /\ a.status = b.status
    /\ a.volume = b.volume /\ a.pack = b.pack

FirstYear(text) ==
    LET years == {i \in DOMAIN text : text[i] \in Years}
    IN  IF years = {} THEN NoEntry ELSE text[Min(years)]
SizeFor(r) ==
    IF r.volume = NoEntry \/ r.pack <= 1 THEN VolumeOf(r.name)
    ELSE [volume |-> NoEntry, pack |-> 1]

LEMMA RowFieldsAre ==
    RowFields = {"name", "producer", "style", "vineyard", "region", "grape", "expression",
                 "vintage", "status", "volume", "pack", "packaging", "edition", "gtin",
                 "colour", "category", "cluster"}
BY DEF RowFields, NoIdentity

LEMMA PatchFields ==
    ASSUME NEW r, IsRow(r), NEW q, NEW p, p = wineSlotPatch(r, q)
    PROVE  /\ IsRow(p)
           /\ p.name = r.name /\ p.packaging = r.packaging /\ p.edition = r.edition
           /\ p.gtin = r.gtin /\ p.category = r.category /\ p.cluster = r.cluster
           /\ p.style = q.style /\ p.vineyard = q.vineyard /\ p.region = q.region
           /\ p.grape = q.grape /\ p.expression = Residue(r.name, q)
           /\ p.producer = Prefer(q.producer, r.producer)
           /\ p.colour = Prefer(r.colour, deriveColour(q))
           /\ p.vintage = Prefer(r.vintage, FirstYear(r.name))
           /\ p.status = IF r.status \in {"vintage", "non_vintage"} THEN r.status
                         ELSE IF p.vintage # NoEntry THEN "vintage" ELSE r.status
           /\ p.volume = Prefer(r.volume, SizeFor(r).volume)
           /\ p.pack = IF SizeFor(r).pack > 1 THEN SizeFor(r).pack ELSE r.pack
<1> DEFINE y == Prefer(r.vintage, FirstYear(r.name))
           z == SizeFor(r)
           sum == Residue(r.name, q)
           col == deriveColour(q)
           st == IF r.status \in {"vintage", "non_vintage"} THEN r.status
                 ELSE IF y # NoEntry THEN "vintage" ELSE r.status
           who == Prefer(q.producer, r.producer)
           hue == Prefer(r.colour, col)
           big == Prefer(r.volume, z.volume)
           num == IF z.pack > 1 THEN z.pack ELSE r.pack
           pat == [r EXCEPT !.producer = who,
                      !.style = q.style, !.vineyard = q.vineyard, !.region = q.region,
                      !.grape = q.grape, !.expression = sum,
                      !.vintage = y, !.status = st, !.colour = hue,
                      !.volume = big, !.pack = num]
<1>1. p = pat BY Zenon DEF wineSlotPatch, FirstYear, SizeFor
<1>2. DOMAIN r = RowFields BY DEF IsRow
<1>4. IsRow(pat)
  <2> HIDE DEF y, z, sum, col, st, who, hue, big, num
  <2> QED BY DEF IsRow
<1> HIDE DEF y, z, sum, col
<1>3. /\ DOMAIN p = RowFields
      /\ p.name = r.name /\ p.packaging = r.packaging /\ p.edition = r.edition
      /\ p.gtin = r.gtin /\ p.category = r.category /\ p.cluster = r.cluster
      /\ p.style = q.style /\ p.vineyard = q.vineyard /\ p.region = q.region
      /\ p.grape = q.grape /\ p.expression = sum
      /\ p.producer = Prefer(q.producer, r.producer)
      /\ p.colour = Prefer(r.colour, col)
      /\ p.vintage = y
      /\ p.status = IF r.status \in {"vintage", "non_vintage"} THEN r.status
                    ELSE IF y # NoEntry THEN "vintage" ELSE r.status
      /\ p.volume = Prefer(r.volume, z.volume)
      /\ p.pack = IF z.pack > 1 THEN z.pack ELSE r.pack
  BY <1>1, <1>2, RowFieldsAre
<1> QED BY <1>1, <1>3, <1>4 DEF y, z, sum, col

LEMMA PatchesOnce ==
    ASSUME NEW r, IsRow(r), r.pack \in Nat, VolumeOf(r.name).pack \in Nat,
           NEW q, NEW p, p = wineSlotPatch(r, q), NEW u, NEW v, v = wineSlotPatch(p, u)
    PROVE  p.pack \in Nat /\ SameMeasures(v, p)
<1>1. /\ IsRow(p) /\ p.name = r.name
      /\ p.vintage = Prefer(r.vintage, FirstYear(r.name))
      /\ p.status = IF r.status \in {"vintage", "non_vintage"} THEN r.status
                    ELSE IF p.vintage # NoEntry THEN "vintage" ELSE r.status
      /\ p.volume = Prefer(r.volume, SizeFor(r).volume)
      /\ p.pack = IF SizeFor(r).pack > 1 THEN SizeFor(r).pack ELSE r.pack
  BY PatchFields
<1>2. /\ v.vintage = Prefer(p.vintage, FirstYear(p.name))
      /\ v.status = IF p.status \in {"vintage", "non_vintage"} THEN p.status
                    ELSE IF v.vintage # NoEntry THEN "vintage" ELSE p.status
      /\ v.volume = Prefer(p.volume, SizeFor(p).volume)
      /\ v.pack = IF SizeFor(p).pack > 1 THEN SizeFor(p).pack ELSE p.pack
  BY <1>1, PatchFields
<1>3. v.vintage = p.vintage /\ v.status = p.status
  BY <1>1, <1>2 DEF Prefer
<1> DEFINE w == VolumeOf(r.name)
<1>4. SizeFor(r) = (IF r.volume = NoEntry \/ r.pack <= 1 THEN w
                    ELSE [volume |-> NoEntry, pack |-> 1])
      /\ SizeFor(p) = (IF p.volume = NoEntry \/ p.pack <= 1 THEN w
                       ELSE [volume |-> NoEntry, pack |-> 1])
  BY <1>1 DEF SizeFor
<1> HIDE DEF w
<1>5. CASE r.volume = NoEntry \/ r.pack <= 1
  <2>1. SizeFor(r) = w BY <1>4, <1>5
  <2> QED BY <1>1, <1>2, <1>3, <1>4, <1>5, <2>1 DEF Prefer, SameMeasures, w
<1>6. CASE ~(r.volume = NoEntry \/ r.pack <= 1)
  <2>1. SizeFor(r).pack = 1 BY <1>4, <1>6
  <2>2. p.volume = r.volume /\ p.pack = r.pack /\ SizeFor(p).pack = 1
    BY <1>1, <1>4, <1>6, <2>1 DEF Prefer
  <2> QED BY <1>2, <1>3, <1>6, <2>2 DEF Prefer, SameMeasures
<1> QED BY <1>5, <1>6

(* Measures are patched alike when they are alike.                         *)
LEMMA PatchesAlike ==
    ASSUME NEW a, IsRow(a), NEW b, IsRow(b), a.name = b.name, SameMeasures(a, b),
           NEW q, NEW u
    PROVE  SameMeasures(wineSlotPatch(a, q), wineSlotPatch(b, u))
<1> DEFINE p == wineSlotPatch(a, q)
           v == wineSlotPatch(b, u)
<1>1. /\ p.vintage = Prefer(a.vintage, FirstYear(a.name))
      /\ p.status = IF a.status \in {"vintage", "non_vintage"} THEN a.status
                    ELSE IF p.vintage # NoEntry THEN "vintage" ELSE a.status
      /\ p.volume = Prefer(a.volume, SizeFor(a).volume)
      /\ p.pack = IF SizeFor(a).pack > 1 THEN SizeFor(a).pack ELSE a.pack
  <2> HIDE DEF p
  <2> QED BY PatchFields DEF p
<1>2. /\ v.vintage = Prefer(b.vintage, FirstYear(b.name))
      /\ v.status = IF b.status \in {"vintage", "non_vintage"} THEN b.status
                    ELSE IF v.vintage # NoEntry THEN "vintage" ELSE b.status
      /\ v.volume = Prefer(b.volume, SizeFor(b).volume)
      /\ v.pack = IF SizeFor(b).pack > 1 THEN SizeFor(b).pack ELSE b.pack
  <2> HIDE DEF v
  <2> QED BY PatchFields DEF v
<1>3. SizeFor(a) = SizeFor(b) BY DEF SizeFor, SameMeasures
<1> HIDE DEF p, v
<1>4. SameMeasures(p, v) BY <1>1, <1>2, <1>3 DEF SameMeasures
<1> QED BY <1>4 DEF p, v

(* A category that a reading has made stays what it is.                    *)
LEMMA CategorySettles ==
    ASSUME NEW text, NEW q, NEW c
    PROVE  wineCategoryFor(text, q, wineCategoryFor(text, q, c)) = wineCategoryFor(text, q, c)
<1> DEFINE key == wineCategoryKey(text, q)
           to(d) == IF d = NoEntry \/ (d = "wine" /\ key \notin {"wine", NoEntry})
                      THEN Prefer(key, d) ELSE d
<1>1. \A d : wineCategoryFor(text, q, d) = to(d) BY DEF wineCategoryFor
<1>2. to(to(c)) = to(c)
  <2> HIDE DEF key
  <2> QED BY DEF Prefer
<1> QED BY <1>1, <1>2

-----------------------------------------------------------------------------
(* The row has been read with the parse q of its name.                     *)
ReadWith(r, q) ==
    /\ r.style = q.style /\ r.vineyard = q.vineyard /\ r.region = q.region
    /\ r.grape = q.grape /\ r.expression = Residue(r.name, q)
    /\ r.producer = Prefer(q.producer, r.producer)
    /\ r.colour = Prefer(r.colour, deriveColour(q))
    /\ r.category = wineCategoryFor(r.name, q, r.category)

(* The row is as the page was found.                                       *)
ReadAsFound(r, f) ==
    /\ r.style = f.style /\ r.vineyard = f.vineyard /\ r.region = f.region
    /\ r.grape = f.grape /\ r.expression = f.expression
    /\ SameMeasures(r, f)

(* The row is what was found on a page, read with a vocabulary.            *)
Settled(r, f, wine, phrases, scope) ==
    /\ IsRow(r) /\ r.pack \in Nat
    /\ r.name = f.name /\ r.packaging = f.packaging /\ r.edition = f.edition
    /\ f.gtin # NoEntry => r.gtin = f.gtin
    /\ IF wine /\ phrases # {}
         THEN LET q == parseWineName(f.name, phrases, scope)
              IN  ReadWith(r, q) /\ SameMeasures(r, wineSlotPatch(f, q))
       ELSE ReadAsFound(r, f)
    /\ r.producer = scope \/ NamedBy(phrases, r.name, r.producer)

(* What extractIdentity finds.                                             *)
Findable(f) ==
    /\ IsRow(f) /\ f.pack \in Nat /\ VolumeOf(f.name).pack \in Nat
    /\ \E n \in Nat : DOMAIN f.name = 1..n /\ Len(f.name) = n

(* wineSlotPatch with the category.                                        *)
Reread(r, q, c) == [wineSlotPatch(r, q) EXCEPT !.category = wineCategoryFor(r.name, q, c)]

(* What a reading finds, as ReadPageOf has it.                             *)
Reading(f, wine, phrases, scope, category) ==
    IF wine /\ phrases # {}
      THEN Reread(f, parseWineName(f.name, phrases, scope), category)
    ELSE [f EXCEPT !.category = category]

LEMMA ReadsWith ==
    ASSUME NEW r, IsRow(r), NEW q, NEW c,
           NEW p, p = Reread(r, q, c)
    PROVE  /\ IsRow(p) /\ ReadWith(p, q)
           /\ p.name = r.name /\ p.packaging = r.packaging /\ p.edition = r.edition
           /\ p.gtin = r.gtin /\ p.producer = Prefer(q.producer, r.producer)
           /\ p.cluster = r.cluster
           /\ SameMeasures(p, wineSlotPatch(r, q))
<1> DEFINE m == wineSlotPatch(r, q)
           cat == wineCategoryFor(r.name, q, c)
<1>1. /\ IsRow(m)
      /\ m.name = r.name /\ m.packaging = r.packaging /\ m.edition = r.edition
      /\ m.gtin = r.gtin /\ m.cluster = r.cluster
      /\ m.style = q.style /\ m.vineyard = q.vineyard /\ m.region = q.region
      /\ m.grape = q.grape /\ m.expression = Residue(r.name, q)
      /\ m.producer = Prefer(q.producer, r.producer)
      /\ m.colour = Prefer(r.colour, deriveColour(q))
  <2> HIDE DEF m
  <2> QED BY PatchFields DEF m
<1>2. wineCategoryFor(r.name, q, cat) = cat BY CategorySettles
<1>3. p = [m EXCEPT !.category = cat] BY Zenon DEF Reread
<1> HIDE DEF m, cat
<1>4. IsRow(p) BY <1>1, <1>3 DEF IsRow
<1>5. /\ p.category = cat
      /\ \A x \in RowFields \ {"category"} : p[x] = m[x]
  BY <1>1, <1>3, RowFieldsAre DEF IsRow
<1>6. /\ p.name = m.name /\ p.packaging = m.packaging /\ p.edition = m.edition
      /\ p.gtin = m.gtin /\ p.producer = m.producer /\ p.cluster = m.cluster
      /\ p.style = m.style /\ p.vineyard = m.vineyard /\ p.region = m.region
      /\ p.grape = m.grape /\ p.expression = m.expression /\ p.colour = m.colour
      /\ p.vintage = m.vintage /\ p.status = m.status
      /\ p.volume = m.volume /\ p.pack = m.pack
  BY <1>5, RowFieldsAre
<1>7. Prefer(q.producer, p.producer) = p.producer BY <1>1, <1>6 DEF Prefer
<1>8. Prefer(p.colour, deriveColour(q)) = p.colour BY <1>1, <1>6 DEF Prefer
<1>9. ReadWith(p, q) BY <1>1, <1>2, <1>5, <1>6, <1>7, <1>8 DEF ReadWith
<1>10. SameMeasures(p, m) BY <1>6 DEF SameMeasures
<1> QED BY <1>1, <1>4, <1>6, <1>9, <1>10 DEF m

LEMMA CollectionSettles ==
    ASSUME NEW f, Findable(f), NEW wine, NEW phrases, wine => Phrased(phrases),
           NEW oldProducer, NEW oldGtin, NEW category, NEW cluster,
           NEW scope, scope = Prefer(f.producer, oldProducer),
           NEW after, after = Reading(f, wine, phrases, scope, category),
           NEW r, r = [after EXCEPT !.producer = Prefer(@, oldProducer),
                                    !.gtin = Prefer(@, oldGtin), !.cluster = cluster]
    PROVE  Settled(r, f, wine, phrases, scope)
<1> DEFINE q == parseWineName(f.name, phrases, scope)
<1>0. IsRow(f) /\ f.pack \in Nat /\ VolumeOf(f.name).pack \in Nat BY DEF Findable
<1>1. CASE wine /\ phrases # {}
  <2>1. after = Reread(f, q, category) BY <1>1 DEF Reading
  <2> HIDE DEF q
  <2>2. /\ IsRow(after) /\ ReadWith(after, q)
        /\ after.name = f.name /\ after.packaging = f.packaging /\ after.edition = f.edition
        /\ after.gtin = f.gtin /\ after.producer = Prefer(q.producer, f.producer)
        /\ SameMeasures(after, wineSlotPatch(f, q))
    <3> DEFINE e == Reread(f, q, category)
    <3>1. /\ IsRow(e) /\ ReadWith(e, q)
          /\ e.name = f.name /\ e.packaging = f.packaging /\ e.edition = f.edition
          /\ e.gtin = f.gtin /\ e.producer = Prefer(q.producer, f.producer)
          /\ SameMeasures(e, wineSlotPatch(f, q))
      <4> HIDE DEF e
      <4> QED BY <1>0, ReadsWith DEF e
    <3> QED BY <2>1, <3>1
  <2>3. after.pack \in Nat
    <3>1. wineSlotPatch(f, q).pack \in Nat
      <4> DEFINE p == wineSlotPatch(f, q)
                 v == wineSlotPatch(p, q)
      <4> HIDE DEF p, v
      <4> QED BY <1>0, PatchesOnce DEF p, v
    <3> QED BY <2>2, <3>1 DEF SameMeasures
  <2>4a. /\ IsRow(r)
         /\ r.producer = Prefer(after.producer, oldProducer)
         /\ r.gtin = Prefer(after.gtin, oldGtin)
         /\ \A x \in RowFields \ {"producer", "gtin", "cluster"} : r[x] = after[x]
    BY <2>2, RowFieldsAre DEF IsRow
  <2>4. /\ IsRow(r)
        /\ r.producer = Prefer(after.producer, oldProducer)
        /\ r.gtin = Prefer(after.gtin, oldGtin)
        /\ r.name = after.name /\ r.packaging = after.packaging /\ r.edition = after.edition
        /\ r.style = after.style /\ r.vineyard = after.vineyard /\ r.region = after.region
        /\ r.grape = after.grape /\ r.expression = after.expression /\ r.colour = after.colour
        /\ r.category = after.category
        /\ r.vintage = after.vintage /\ r.status = after.status
        /\ r.volume = after.volume /\ r.pack = after.pack
    BY <2>4a, RowFieldsAre
  <2>5. r.producer = Prefer(q.producer, scope) BY <2>2, <2>4 DEF Prefer
  <2>6. Prefer(q.producer, r.producer) = r.producer BY <2>5 DEF Prefer
  <2>7. ReadWith(r, q) BY <2>2, <2>4, <2>6 DEF ReadWith
  <2>8. SameMeasures(r, wineSlotPatch(f, q)) BY <2>2, <2>4 DEF SameMeasures
  <2>9. r.producer = scope \/ NamedBy(phrases, r.name, r.producer)
    <3>1. PICK n \in Nat : DOMAIN f.name = 1..n /\ Len(f.name) = n BY DEF Findable
    <3>2. q.producer = NoEntry \/ NamedBy(phrases, f.name, q.producer)
      BY <1>1, <3>1, ParseReads DEF q
    <3> QED BY <2>2, <2>4, <2>5, <3>2 DEF Prefer
  <2>10. f.gtin # NoEntry => r.gtin = f.gtin BY <2>2, <2>4 DEF Prefer
  <2> QED BY <1>1, <2>2, <2>3, <2>4, <2>7, <2>8, <2>9, <2>10 DEF Settled, q
<1>2. CASE ~(wine /\ phrases # {})
  <2>1. after = [f EXCEPT !.category = category] BY <1>2 DEF Reading
  <2>2. /\ IsRow(r)
        /\ r.producer = scope
        /\ r.gtin = Prefer(f.gtin, oldGtin)
        /\ r.name = f.name /\ r.packaging = f.packaging /\ r.edition = f.edition
        /\ r.style = f.style /\ r.vineyard = f.vineyard /\ r.region = f.region
        /\ r.grape = f.grape /\ r.expression = f.expression
        /\ r.vintage = f.vintage /\ r.status = f.status
        /\ r.volume = f.volume /\ r.pack = f.pack
    BY <1>0, <2>1, RowFieldsAre DEF IsRow
  <2> QED BY <1>0, <1>2, <2>2 DEF Settled, ReadAsFound, SameMeasures, Prefer
<1> QED BY <1>1, <1>2

(* A re-extraction of a settled row, with any vocabulary.                  *)
LEMMA ReextractionSettles ==
    ASSUME NEW f, Findable(f), NEW wine, NEW phrases, NEW scope, NEW old,
           Settled(old, f, wine, phrases, scope),
           NEW words, words # {}, Phrased(words),
           NEW q, q = parseWineName(old.name, words, old.producer),
           NEW after, after = Reread(old, q, old.category),
           NEW cluster, NEW r, r = [after EXCEPT !.cluster = cluster]
    PROVE  Settled(r, f, TRUE, words, old.producer)
<1>0. /\ IsRow(f) /\ f.pack \in Nat /\ VolumeOf(f.name).pack \in Nat
      /\ IsRow(old) /\ old.pack \in Nat
      /\ old.name = f.name /\ old.packaging = f.packaging /\ old.edition = f.edition
      /\ f.gtin # NoEntry => old.gtin = f.gtin
  BY DEF Findable, Settled
<1>1. /\ IsRow(after) /\ ReadWith(after, q)
      /\ after.name = f.name /\ after.packaging = f.packaging /\ after.edition = f.edition
      /\ after.gtin = old.gtin /\ after.producer = Prefer(q.producer, old.producer)
      /\ SameMeasures(after, wineSlotPatch(old, q))
  BY <1>0, ReadsWith
<1>2. wineSlotPatch(old, q).pack \in Nat
  <2> DEFINE p == wineSlotPatch(old, q)
             v == wineSlotPatch(p, q)
  <2> HIDE DEF p, v
  <2> QED BY <1>0, PatchesOnce DEF p, v
<1>3. SameMeasures(wineSlotPatch(old, q), wineSlotPatch(f, q))
  <2>1. CASE SameMeasures(old, f) BY <1>0, <2>1, PatchesAlike
  <2>2. CASE ~SameMeasures(old, f)
    <3> DEFINE u == parseWineName(f.name, phrases, scope)
               p == wineSlotPatch(f, u)
               a == wineSlotPatch(old, q)
               b == wineSlotPatch(f, q)
               v == wineSlotPatch(p, q)
    <3>1. SameMeasures(old, p) BY <2>2 DEF Settled, ReadAsFound
    <3>2. IsRow(p) /\ p.name = f.name
      <4> HIDE DEF p
      <4> QED BY <1>0, PatchFields DEF p
    <3>3. SameMeasures(a, v)
      <4> HIDE DEF p
      <4> QED BY <1>0, <3>1, <3>2, PatchesAlike
    <3>4. SameMeasures(v, p)
      <4> HIDE DEF p, v, u
      <4> QED BY <1>0, PatchesOnce DEF p, v
    <3>5. SameMeasures(p, b)
      \* the measures do not depend on what was read
      <4>1. SameMeasures(f, f) BY DEF SameMeasures
      <4> HIDE DEF u
      <4> QED BY <1>0, <4>1, PatchesAlike
    <3> HIDE DEF a, b, v, p
    <3>6. SameMeasures(a, b) BY <3>3, <3>4, <3>5 DEF SameMeasures
    <3> QED BY <3>6 DEF a, b
  <2> QED BY <2>1, <2>2
<1>4. /\ IsRow(r)
      /\ r.producer = after.producer /\ r.gtin = after.gtin
      /\ r.name = after.name /\ r.packaging = after.packaging /\ r.edition = after.edition
      /\ r.style = after.style /\ r.vineyard = after.vineyard /\ r.region = after.region
      /\ r.grape = after.grape /\ r.expression = after.expression /\ r.colour = after.colour
      /\ r.category = after.category
      /\ r.vintage = after.vintage /\ r.status = after.status
      /\ r.volume = after.volume /\ r.pack = after.pack
  BY <1>1, RowFieldsAre DEF IsRow
<1>5. ReadWith(r, q) BY <1>1, <1>4 DEF ReadWith
<1>6. SameMeasures(r, wineSlotPatch(f, q)) BY <1>1, <1>3, <1>4 DEF SameMeasures
<1>7. r.pack \in Nat BY <1>1, <1>2, <1>4 DEF SameMeasures
<1>8. r.producer = old.producer \/ NamedBy(words, r.name, r.producer)
  <2>1. PICK n \in Nat : DOMAIN f.name = 1..n /\ Len(f.name) = n BY DEF Findable
  <2>2. q.producer = NoEntry \/ NamedBy(words, f.name, q.producer)
    BY <1>0, <2>1, ParseReads
  <2> QED BY <1>1, <1>4, <2>2 DEF Prefer
<1> QED BY <1>0, <1>1, <1>4, <1>5, <1>6, <1>7, <1>8 DEF Settled

LEMMA CollectedAgain ==
    ASSUME NEW f, Findable(f), NEW wine, NEW phrases, NEW scope, NEW r,
           Settled(r, f, wine, phrases, scope), NEW category,
           NEW again, again = Reading(f, wine, phrases, scope, category),
           Prefer(again.gtin, r.gtin) = again.gtin
    PROVE  Severity(toIdentityFields(r), again) = "none"
<1> DEFINE q == parseWineName(f.name, phrases, scope)
           before == toIdentityFields(r)
<1>0. /\ IsRow(f) /\ IsRow(r)
      /\ r.name = f.name /\ r.packaging = f.packaging /\ r.edition = f.edition
      /\ f.gtin # NoEntry => r.gtin = f.gtin
  BY DEF Findable, Settled
<1>1. /\ again.name = r.name /\ again.packaging = r.packaging /\ again.edition = r.edition
      /\ again.gtin = f.gtin
      /\ again.style = r.style /\ again.vineyard = r.vineyard
      /\ again.grape = r.grape /\ again.expression = r.expression
      /\ SameMeasures(r, again)
  <2>1. CASE wine /\ phrases # {}
    <3> DEFINE e == Reread(f, q, category)
    <3>1. /\ ReadWith(e, q)
          /\ e.name = f.name /\ e.packaging = f.packaging /\ e.edition = f.edition
          /\ e.gtin = f.gtin /\ SameMeasures(e, wineSlotPatch(f, q))
      <4> HIDE DEF e, q
      <4> QED BY <1>0, ReadsWith DEF e
    <3>2. ReadWith(r, q) /\ SameMeasures(r, wineSlotPatch(f, q)) BY <2>1 DEF Settled
    <3>3. again = e BY <2>1 DEF Reading
    <3> HIDE DEF e, q
    <3> QED BY <1>0, <3>1, <3>2, <3>3 DEF ReadWith, SameMeasures
  <2>2. CASE ~(wine /\ phrases # {})
    <3>1. again = [f EXCEPT !.category = category] BY <2>2 DEF Reading
    <3>2. ReadAsFound(r, f) BY <2>2 DEF Settled
    <3> QED BY <1>0, <3>1, <3>2, RowFieldsAre DEF ReadAsFound, SameMeasures, IsRow
  <2> QED BY <2>1, <2>2
<1>2. /\ before.producer = NoEntry
      /\ \A x \in RowFields \ {"producer"} : before[x] = r[x]
  BY <1>0, RowFieldsAre DEF toIdentityFields, IsRow
<1>3. NoIdentity.producer = NoEntry /\ NoIdentity.gtin = NoEntry BY DEF NoIdentity
<1> HIDE DEF before
<1>4. /\ before.name = again.name /\ before.packaging = again.packaging
      /\ before.edition = again.edition /\ before.gtin = r.gtin
      /\ before.style = again.style /\ before.vineyard = again.vineyard
      /\ before.grape = again.grape /\ before.expression = again.expression
      /\ before.vintage = again.vintage /\ before.status = again.status
      /\ before.volume = again.volume /\ before.pack = again.pack
  BY <1>1, <1>2, RowFieldsAre DEF SameMeasures
<1>5. Silent(before, "producer") BY <1>2, <1>3 DEF Silent
<1>6. Silent(before, "gtin") \/ before.gtin = again.gtin
  BY <1>0, <1>1, <1>3, <1>4 DEF Silent, Prefer
<1>7. Changed(before, again) = {}
  <2> SUFFICES ASSUME NEW x \in DriftFields, ~Silent(before, x), before[x] # again[x]
               PROVE  FALSE
    BY DEF Changed
  <2> QED BY <1>4, <1>5, <1>6 DEF DriftFields, IDENTITY_CORE
<1>8. Cardinality(Changed(before, again) \cap IDENTITY_CORE) = 0
  BY <1>7, FS_EmptySet
<1>9. Severity(before, again) = "none" BY <1>4, <1>7, <1>8 DEF Severity
<1> QED BY <1>9 DEF before

ReadsTheSame(r, q) == Reread(r, q, r.category) = r

LEMMA ReextractedAgain ==
    ASSUME NEW f, NEW wine, wine = TRUE, NEW phrases, phrases # {}, NEW scope, NEW r,
           Settled(r, f, wine, phrases, scope), VolumeOf(r.name).pack \in Nat, Findable(f),
           NEW q, q = parseWineName(r.name, phrases, scope)
    PROVE  ReadsTheSame(r, q)
<1> DEFINE p == Reread(r, q, r.category)
           m == wineSlotPatch(r, q)
           cat == wineCategoryFor(r.name, q, r.category)
<1>1. /\ IsRow(r) /\ r.pack \in Nat /\ r.name = f.name
      /\ ReadWith(r, q) /\ SameMeasures(r, wineSlotPatch(f, q))
  BY DEF Settled
<1>2. SameMeasures(m, r)
  <2> DEFINE a == wineSlotPatch(f, q)
             b == wineSlotPatch(a, q)
  <2>1. IsRow(a) /\ a.name = f.name
    <3> HIDE DEF a
    <3> QED BY PatchFields DEF a, Findable
  <2>2. SameMeasures(m, b)
    <3> HIDE DEF a
    <3> QED BY <1>1, <2>1, PatchesAlike DEF a
  <2>3. SameMeasures(b, a)
    <3> HIDE DEF a, b
    <3> QED BY PatchesOnce DEF a, b, Findable
  <2> HIDE DEF a, b, m
  <2> QED BY <1>1, <2>2, <2>3 DEF SameMeasures, a
<1>3. /\ IsRow(m)
      /\ m.name = r.name /\ m.packaging = r.packaging /\ m.edition = r.edition
      /\ m.gtin = r.gtin /\ m.category = r.category /\ m.cluster = r.cluster
      /\ m.style = q.style /\ m.vineyard = q.vineyard /\ m.region = q.region
      /\ m.grape = q.grape /\ m.expression = Residue(r.name, q)
      /\ m.producer = Prefer(q.producer, r.producer)
      /\ m.colour = Prefer(r.colour, deriveColour(q))
  <2> HIDE DEF m
  <2> QED BY <1>1, PatchFields DEF m
<1>4. cat = r.category BY <1>1 DEF ReadWith
<1>5. p = [m EXCEPT !.category = cat] BY Zenon DEF Reread
<1> HIDE DEF m, cat, p
<1>6. \A x \in RowFields : m[x] = r[x]
  BY <1>1, <1>2, <1>3, RowFieldsAre DEF ReadWith, SameMeasures
<1>7. m = r BY <1>1, <1>3, <1>6 DEF IsRow
<1>8. [r EXCEPT !.category = r.category] = r BY <1>1 DEF IsRow
<1>9. p = r BY <1>4, <1>5, <1>7, <1>8
<1> QED BY <1>9 DEF p, ReadsTheSame

-----------------------------------------------------------------------------
LEMMA PackIsNatural ==
    ASSUME NEW text
    PROVE  VolumeOf(text).pack \in Nat
<1> DEFINE packs == {pack \in Packs : pack.w \in TokensOf(text)}
           size == VolumeOf(text)
<1>1. size.pack = IF packs = {} THEN 1 ELSE (CHOOSE pack \in packs : TRUE).n
  BY DEF VolumeOf
<1>2. CASE packs = {} BY <1>1, <1>2
<1>3. CASE packs # {}
  <2>1. (CHOOSE pack \in packs : TRUE) \in packs BY <1>3
  <2> QED BY <1>1, <1>3, <2>1, IdentityAssumption
<1> QED BY <1>2, <1>3

LEMMA VocabularyIsPhrased ==
    ASSUME NEW v \in Vocabularies
    PROVE  Phrased(PhrasesOf[v])
BY IdentityAssumption, EmptySeq DEF Phrased

LEMMA PageIsFindable ==
    ASSUME NEW g \in ListedPages, NEW names
    PROVE  /\ Findable(extractIdentity(PageOf[g], names))
           /\ extractIdentity(PageOf[g], names).name = PageOf[g].name
<1> DEFINE page == PageOf[g]
           text == page.name \o page.spec
           winery == IF seller.resolves
                      THEN resolveProducer(IF page.vendor # <<>> THEN page.vendor ELSE page.name,
                                           names)
                      ELSE NoEntry
           size == IF page.volume # NoEntry THEN [volume |-> page.volume, pack |-> 1]
                   ELSE VolumeOf(text)
           year == IF YearOf(page.spec).vintage # NoEntry THEN YearOf(page.spec)
                   ELSE YearOf(page.name)
           box == FirstOf(Boxes, text)
           ed == FirstOf(Editions, text)
           col == FirstOf(Colours, text)
           ex == deriveExpression(page, winery, names)
           cat == IF seller.resolves THEN CategoryOf(page) ELSE NoEntry
           wrap == IF box # NoEntry THEN box
                   ELSE IF size.volume # NoEntry THEN "standard" ELSE "unknown"
           f == [NoIdentity EXCEPT
                   !.name = page.name, !.producer = winery,
                   !.volume = size.volume, !.pack = size.pack,
                   !.vintage = year.vintage, !.status = year.status,
                   !.packaging = wrap,
                   !.edition = ed, !.gtin = page.gtin,
                   !.colour = col, !.expression = ex, !.category = cat]
<1>1. extractIdentity(page, names) = f BY Zenon DEF extractIdentity
<1>2. size.pack \in Nat BY PackIsNatural
<1>3. \E n \in Nat : DOMAIN page.name = 1..n /\ Len(page.name) = n
  <2>1. page.name \in Seq(Range(page.name)) BY IdentityAssumption
  <2> DEFINE R == Range(page.name)
             w == page.name
  <2> HIDE DEF R, w
  <2>2. w \in Seq(R) BY <2>1 DEF w, R
  <2>3. Len(w) \in Nat /\ DOMAIN w = 1..Len(w) BY <2>2
  <2> QED BY <2>3 DEF w
<1> HIDE DEF text, winery, size, year, box, ed, col, ex, cat, wrap, page
<1>4. IsRow(NoIdentity) BY DEF IsRow, RowFields, NoIdentity
<1>8. IsRow(f)
  <2> HIDE DEF NoIdentity
  <2> QED BY <1>4 DEF IsRow
<1>5. f.name = page.name /\ f.pack = size.pack
  BY DEF NoIdentity
<1> HIDE DEF f
<1>6. VolumeOf(f.name).pack \in Nat BY PackIsNatural
<1>7. Findable(f) BY <1>2, <1>3, <1>5, <1>6, <1>8 DEF Findable
<1> QED BY <1>1, <1>5, <1>7 DEF page

-----------------------------------------------------------------------------
FoundIn(r) == extractIdentity(PageOf[r.page], PhrasesOf[r.names])

(* What was found does not depend on the rest of the state.                *)
LEMMA FoundLater ==
    ASSUME seller' = seller
    PROVE  FoundIn(lastRead)' = extractIdentity(PageOf[lastRead'.page], PhrasesOf[lastRead'.names])
BY SMTT(40) DEF FoundIn, extractIdentity

IdentityHolds ==
    /\ seller \in [wine : BOOLEAN, resolves : BOOLEAN]
    /\ shopPage \in ListedPages /\ vocabulary \in Vocabularies
    /\ copies \in [{"slots", "names"} -> Vocabularies \cup {NoEntry}]
    /\ Saved =>
        /\ lastRead = [x \in {"page", "slots", "names", "scope"} |-> lastRead[x]]
        /\ lastRead.page \in ListedPages
        /\ seller.wine => lastRead.slots \in Vocabularies
        /\ Settled(row, FoundIn(lastRead), seller.wine, PhrasesOf[lastRead.slots], lastRead.scope)

LEMMA HeldReadsQuietly ==
    ASSUME IdentityHolds
    PROVE  ReadingSettles
<1>1. NextReadingQuiet
  <2> SUFFICES ASSUME Saved PROVE
        LET again == ReadPageOf(lastRead.page, lastRead.slots, lastRead.names, row)
        IN  /\ ScopeOf(lastRead.page, lastRead.names, row) = lastRead.scope
                 /\ Prefer(again.gtin, row.gtin) = again.gtin =>
                   Severity(toIdentityFields(row), again) = "none"
            /\ seller.wine /\ row.producer = lastRead.scope
                 /\ WineProven(row, lastRead.slots, {}) =>
                   Reextracted(row, lastRead.slots) = row
    BY DEF NextReadingQuiet
  <2> DEFINE f == FoundIn(lastRead)
             phrases == PhrasesOf[lastRead.slots]
             category == Prefer(f.category, row.category)
             again == ReadPageOf(lastRead.page, lastRead.slots, lastRead.names, row)
  <2>1. /\ Findable(f)
        /\ Settled(row, f, seller.wine, phrases, lastRead.scope)
    BY PageIsFindable DEF IdentityHolds, FoundIn
  <2>2. ASSUME ScopeOf(lastRead.page, lastRead.names, row) = lastRead.scope,
               Prefer(again.gtin, row.gtin) = again.gtin
        PROVE  Severity(toIdentityFields(row), again) = "none"
    <3>1. again = Reading(f, seller.wine, phrases, lastRead.scope, category)
      BY <2>2, Zenon DEF ReadPageOf, FoundIn, Reread, Reading
    <3> HIDE DEF f, again, category, phrases
    <3> QED BY <2>1, <2>2, <3>1, CollectedAgain
  <2>3. ASSUME seller.wine, row.producer = lastRead.scope,
               WineProven(row, lastRead.slots, {})
        PROVE  Reextracted(row, lastRead.slots) = row
    <3> DEFINE q == parseWineName(row.name, phrases, lastRead.scope)
    <3>1. q.producer # NoEntry \/ q.grape # {} \/ q.style # NoEntry
      BY <2>3, Zenon DEF WineProven
    <3>2. row.name = f.name /\ IsRow(row) BY <2>1 DEF Settled
    <3>3. phrases # {}
      <4>1. PICK n \in Nat : DOMAIN f.name = 1..n /\ Len(f.name) = n BY <2>1 DEF Findable
      <4> DEFINE text == row.name
                 scope == lastRead.scope
      <4>2. DOMAIN text = 1..n BY <3>2, <4>1
      <4>3. q = parseWineName(text, phrases, scope) OBVIOUS
      <4> HIDE DEF f, phrases, text, scope, q
      <4>4. ASSUME phrases = {} PROVE q.producer = NoEntry /\ q.style = NoEntry /\ q.grape = {}
        BY <4>2, <4>3, <4>4, NothingToRead
      <4> QED BY <3>1, <4>4
    <3>5. wineSlotPatch(row, q).category = row.category
      <4> DEFINE p == wineSlotPatch(row, q)
      <4> HIDE DEF p, q
      <4> QED BY <3>2, PatchFields DEF p
    <3>6. Reextracted(row, lastRead.slots) = Reread(row, q, row.category)
      <4>1. Reextracted(row, lastRead.slots) =
              [wineSlotPatch(row, q) EXCEPT !.category = wineCategoryFor(row.name, q, @)]
        BY <2>3, Zenon DEF Reextracted
      <4> HIDE DEF q
      <4> QED BY <3>5, <4>1 DEF Reread
    <3>7. Reread(row, q, row.category) = row
      <4> HIDE DEF f, phrases
      <4> DEFINE scope == lastRead.scope
                 r == row
      <4>2. q = parseWineName(r.name, phrases, scope) OBVIOUS
      <4>3. Settled(r, f, seller.wine, phrases, scope) BY <2>1
      <4>4. VolumeOf(r.name).pack \in Nat BY PackIsNatural
      <4> HIDE DEF q, scope, r
      <4>5. ReadsTheSame(r, q)
        <5>1. Findable(f) BY <2>1
        <5>2. seller.wine = TRUE BY <2>3 DEF IdentityHolds
        <5> QED BY <5>1, <5>2, <3>3, <4>2, <4>3, <4>4, ReextractedAgain
      <4> QED BY <4>5 DEF r, ReadsTheSame
    <3> QED BY <3>6, <3>7
  <2> QED BY <2>2, <2>3
<1>2. ReadByItsOwn
  BY DEF ReadByItsOwn, IdentityHolds, Settled, NamedBy
<1>3. NothingReadableLeft
  <2> DEFINE text == PageOf[shopPage].name
             phrases == PhrasesOf[vocabulary]
             parse == parseWineName(text, phrases, row.producer)
  <2>1. PICK n \in Nat : DOMAIN text = 1..n /\ Len(text) = n
    BY PageIsFindable DEF IdentityHolds, Findable
  <2>2. Phrased(phrases) BY VocabularyIsPhrased DEF IdentityHolds
  <2>3. \A p \in phrases, i \in 1..n :
            StandsAt(p.words, text, i) /\ Span(p, i) \cap parse.used = {} =>
                \/ p.slot # "grape" /\ parse[p.slot] \notin {NoEntry, p.id}
                \/ p.slot = "vineyard" /\ p.of \notin {NoEntry, row.producer, parse.producer}
    <3> HIDE DEF text, phrases
    <3> QED BY <2>1, <2>2, ParseReads
  <2> QED BY <2>1, <2>3, Zenon DEF NothingReadableLeft
<1> QED BY <1>1, <1>2, <1>3 DEF ReadingSettles

LEMMA CollectListingHolds ==
    ASSUME IdentityHolds, CollectListing
    PROVE  IdentityHolds'
<1> DEFINE slots == IF seller.wine THEN Prefer(copies["slots"], vocabulary) ELSE NoEntry
           names == Prefer(copies["names"], vocabulary)
           after == ReadPageOf(shopPage, slots, names, row)
           scope == ScopeOf(shopPage, names, row)
           f == extractIdentity(PageOf[shopPage], PhrasesOf[names])
           phrases == PhrasesOf[slots]
           category == Prefer(f.category, row.category)
           read == [page |-> shopPage, slots |-> slots, names |-> names, scope |-> scope]
<1>1. PICK cluster : row' = [after EXCEPT !.producer = Prefer(@, row.producer),
                                         !.gtin = Prefer(@, row.gtin), !.cluster = cluster]
  BY Zenon DEF CollectListing
<1>2. /\ copies' = [copies EXCEPT !["slots"] = slots, !["names"] = names]
      /\ lastRead' = read
      /\ seller' = seller /\ shopPage' = shopPage /\ vocabulary' = vocabulary
  BY Zenon DEF CollectListing
<1>3. /\ copies["slots"] \in Vocabularies \cup {NoEntry}
      /\ copies["names"] \in Vocabularies \cup {NoEntry}
      /\ vocabulary \in Vocabularies
  BY DEF IdentityHolds
<1>4. /\ slots \in Vocabularies \cup {NoEntry} /\ names \in Vocabularies
      /\ seller.wine => slots \in Vocabularies
  BY <1>3 DEF Prefer
<1>5. copies' \in [{"slots", "names"} -> Vocabularies \cup {NoEntry}]
  <2> HIDE DEF slots, names
  <2> QED BY <1>2, <1>4 DEF IdentityHolds
<1>6. after = Reading(f, seller.wine, phrases, scope, category)
  BY Zenon DEF ReadPageOf, Reading, Reread
<1>7. scope = Prefer(f.producer, row.producer) BY Zenon DEF ScopeOf
<1>8. Findable(f) BY PageIsFindable DEF IdentityHolds
<1>9. seller.wine => Phrased(phrases) BY <1>4, VocabularyIsPhrased
<1>10. Settled(row', f, seller.wine, phrases, scope)
  <2> DEFINE r == row'
             oldProducer == row.producer
             oldGtin == row.gtin
  <2>1. r = [after EXCEPT !.producer = Prefer(@, oldProducer),
                          !.gtin = Prefer(@, oldGtin), !.cluster = cluster]
    BY <1>1
  <2>2. scope = Prefer(f.producer, oldProducer) BY <1>7
  <2> HIDE DEF f, phrases, scope, category, after, r, oldProducer, oldGtin
  <2>3. Settled(r, f, seller.wine, phrases, scope)
    BY <1>6, <1>8, <1>9, <2>1, <2>2, CollectionSettles
  <2> QED BY <2>3 DEF r
<1>11. FoundIn(lastRead)' = f
  <2>1. FoundIn(lastRead)' = extractIdentity(PageOf[lastRead'.page], PhrasesOf[lastRead'.names])
    BY <1>2, FoundLater
  <2> QED BY <1>2, <2>1
<1>12. IdentityHolds'
  <2> HIDE DEF f, phrases, scope, slots, names
  <2> QED BY <1>2, <1>4, <1>5, <1>10, <1>11 DEF IdentityHolds, phrases
<1> QED BY <1>12

LEMMA ApplyHolds ==
    ASSUME IdentityHolds, NEW chosen, ApplyWineIdentity(chosen)
    PROVE  IdentityHolds'
<1> DEFINE f == FoundIn(lastRead)
           words == PhrasesOf[vocabulary]
           q == parseWineName(row.name, words, row.producer)
           after == Reextracted(row, vocabulary)
           old == row
           r == row'
           read == [lastRead EXCEPT !.slots = vocabulary, !.scope = row.producer]
<1>1. PICK cluster : row' = [after EXCEPT !.cluster = cluster]
  <2>1. row' = [after EXCEPT !.cluster = IF after.cluster = "clustered" THEN after.cluster
                                         ELSE "unclustered"]
    BY Zenon DEF ApplyWineIdentity
  <2> QED BY <2>1
<1>2. /\ seller' = seller /\ shopPage' = shopPage /\ vocabulary' = vocabulary
      /\ copies' = copies /\ lastRead' = read
      /\ Saved /\ seller.wine /\ words # {}
  BY Zenon DEF ApplyWineIdentity
<1>3. /\ lastRead = [x \in {"page", "slots", "names", "scope"} |-> lastRead[x]]
      /\ lastRead.page \in ListedPages /\ vocabulary \in Vocabularies
      /\ Settled(row, f, seller.wine, PhrasesOf[lastRead.slots], lastRead.scope)
  BY <1>2 DEF IdentityHolds
<1>4. Findable(f) BY <1>3, PageIsFindable DEF FoundIn
<1>5. Phrased(words) BY <1>3, VocabularyIsPhrased
<1>6. after = Reread(row, q, row.category)
  <2>1. after = [wineSlotPatch(row, q) EXCEPT !.category = wineCategoryFor(row.name, q, @)]
    BY Zenon DEF Reextracted
  <2>2. wineSlotPatch(row, q).category = row.category
    <3>1. IsRow(row) BY <1>3 DEF Settled
    <3> DEFINE p == wineSlotPatch(row, q)
    <3> HIDE DEF p, q
    <3> QED BY <3>1, PatchFields DEF p
  <2> HIDE DEF q, after
  <2> QED BY <2>1, <2>2 DEF Reread
<1>7. Settled(r, f, TRUE, words, old.producer)
  <2> DEFINE phrases == PhrasesOf[lastRead.slots]
             scope == lastRead.scope
             wine == seller.wine
  <2>1. Settled(old, f, wine, phrases, scope) BY <1>3
  <2>2. q = parseWineName(old.name, words, old.producer) OBVIOUS
  <2>3. after = Reread(old, q, old.category) BY <1>6
  <2>4. r = [after EXCEPT !.cluster = cluster] BY <1>1
  <2>5. words # {} BY <1>2
  <2> HIDE DEF f, words, q, after, old, r, phrases, scope, wine
  <2> QED BY <1>4, <1>5, <2>1, <2>2, <2>3, <2>4, <2>5, ReextractionSettles
<1>8. /\ lastRead'.page = lastRead.page /\ lastRead'.names = lastRead.names
      /\ lastRead'.slots = vocabulary /\ lastRead'.scope = row.producer
      /\ lastRead' = [x \in {"page", "slots", "names", "scope"} |-> lastRead'[x]]
  BY <1>2, <1>3
<1>9. FoundIn(lastRead)' = f BY <1>2, <1>8, FoundLater DEF FoundIn
<1>10. seller.wine = TRUE BY <1>2 DEF IdentityHolds
<1> HIDE DEF f, q, after, read
<1> QED BY <1>2, <1>3, <1>7, <1>8, <1>9, <1>10 DEF IdentityHolds

(* The match of a row is no part of what was read.                         *)
LEMMA MatchSettles ==
    ASSUME NEW f, NEW wine, NEW phrases, NEW scope, NEW old,
           Settled(old, f, wine, phrases, scope),
           NEW c, NEW r, r = [old EXCEPT !.cluster = c]
    PROVE  Settled(r, f, wine, phrases, scope)
<1>1. /\ IsRow(old) /\ old.pack \in Nat
      /\ old.name = f.name /\ old.packaging = f.packaging /\ old.edition = f.edition
      /\ f.gtin # NoEntry => old.gtin = f.gtin
      /\ old.producer = scope \/ NamedBy(phrases, old.name, old.producer)
  BY DEF Settled
<1>2. /\ IsRow(r)
      /\ \A x \in RowFields \ {"cluster"} : r[x] = old[x]
  BY <1>1, RowFieldsAre DEF IsRow
<1>3. /\ r.producer = old.producer /\ r.gtin = old.gtin
      /\ r.name = old.name /\ r.packaging = old.packaging /\ r.edition = old.edition
      /\ r.style = old.style /\ r.vineyard = old.vineyard /\ r.region = old.region
      /\ r.grape = old.grape /\ r.expression = old.expression /\ r.colour = old.colour
      /\ r.category = old.category
      /\ r.vintage = old.vintage /\ r.status = old.status
      /\ r.volume = old.volume /\ r.pack = old.pack
  BY <1>2, RowFieldsAre
<1>4. ASSUME NEW q, ReadWith(old, q) PROVE ReadWith(r, q)
  BY <1>3, <1>4 DEF ReadWith
<1>5. ASSUME NEW m, SameMeasures(old, m) PROVE SameMeasures(r, m)
  BY <1>3, <1>5 DEF SameMeasures
<1>6. ReadAsFound(old, f) => ReadAsFound(r, f)
  BY <1>3, <1>5 DEF ReadAsFound
<1>7. NamedBy(phrases, old.name, old.producer) => NamedBy(phrases, r.name, r.producer)
  BY <1>3
<1>8. IF wine /\ phrases # {}
        THEN LET q == parseWineName(f.name, phrases, scope)
             IN  ReadWith(r, q) /\ SameMeasures(r, wineSlotPatch(f, q))
      ELSE ReadAsFound(r, f)
  BY <1>4, <1>5, <1>6 DEF Settled
<1> QED BY <1>1, <1>2, <1>3, <1>7, <1>8 DEF Settled

(* A step that leaves the row's contents and what was read alone.          *)
LEMMA OthersHold ==
    ASSUME IdentityHolds, seller' = seller, lastRead' = lastRead,
           shopPage' \in ListedPages, vocabulary' \in Vocabularies,
           copies' \in [{"slots", "names"} -> Vocabularies \cup {NoEntry}],
           row' = row \/ (Saved /\ \E c : row' = [row EXCEPT !.cluster = c])
    PROVE  IdentityHolds'
<1>1. FoundIn(lastRead)' = FoundIn(lastRead) BY FoundLater DEF FoundIn
<1>2. CASE row' = row BY <1>1, <1>2 DEF IdentityHolds, Saved
<1>3. CASE Saved /\ \E c : row' = [row EXCEPT !.cluster = c]
  <2>1. PICK c : row' = [row EXCEPT !.cluster = c] BY <1>3
  <2> DEFINE f == FoundIn(lastRead)
             wine == seller.wine
             phrases == PhrasesOf[lastRead.slots]
             scope == lastRead.scope
             old == row
             r == row'
  <2>2. Settled(old, f, wine, phrases, scope) BY <1>3 DEF IdentityHolds
  <2>3. r = [old EXCEPT !.cluster = c] BY <2>1
  <2>4. Settled(r, f, wine, phrases, scope)
    <3> HIDE DEF f, wine, phrases, scope, old, r
    <3> QED BY <2>2, <2>3, MatchSettles
  <2> HIDE DEF f
  <2> QED BY <1>1, <1>3, <2>4 DEF IdentityHolds, f
<1> QED BY <1>2, <1>3

(* Reading comes to an end, whatever the names, the pages and the          *)
(* vocabularies: nothing that could be read is left in a name, and the     *)
(* next reading by either writer finds what the last one has written.      *)
THEOREM ReadingComesToRest ==
    IdentitySpec => []ReadingSettles
<1>1. IdentityInit => IdentityHolds
  <2> SUFFICES ASSUME IdentityInit PROVE IdentityHolds OBVIOUS
  <2>1. vocabulary \in Vocabularies /\ shopPage \in ListedPages
    BY IdentityAssumption DEF IdentityInit
  <2>2. copies \in [{"slots", "names"} -> Vocabularies \cup {NoEntry}] BY DEF IdentityInit
  <2>3. ~Saved BY DEF IdentityInit, Saved
  <2> QED BY <2>1, <2>2, <2>3 DEF IdentityInit, IdentityHolds
<1>2. IdentityHolds /\ [IdentityNext]_identityVars => IdentityHolds'
  <2> SUFFICES ASSUME IdentityHolds, [IdentityNext]_identityVars PROVE IdentityHolds'
    OBVIOUS
  <2>0. /\ shopPage \in ListedPages /\ vocabulary \in Vocabularies
        /\ copies \in [{"slots", "names"} -> Vocabularies \cup {NoEntry}]
    BY DEF IdentityHolds
  <2>1. CASE CollectListing BY <2>1, CollectListingHolds
  <2>2. CASE \E chosen \in {{}} \cup {{p} : p \in ProducerIds} : ApplyWineIdentity(chosen)
    BY <2>2, ApplyHolds
  <2>3. CASE PageChanges BY <2>0, <2>3, OthersHold DEF PageChanges
  <2>4. CASE VocabularyChanges BY <2>0, <2>4, OthersHold DEF VocabularyChanges
  <2>5. CASE Clustered
    <3>1. row.cluster = "unclustered" /\ row' = [row EXCEPT !.cluster = "clustered"]
          /\ UNCHANGED <<seller, shopPage, vocabulary, copies, lastRead>>
      BY <2>5 DEF Clustered
    <3>2. Saved BY <3>1 DEF Saved, NoIdentity
    <3> QED BY <2>0, <3>1, <3>2, OthersHold
  <2>6. CASE \E c \in DOMAIN copies : CopyExpires(c)
    <3>1. PICK c \in DOMAIN copies : CopyExpires(c) BY <2>6
    <3>2. copies' \in [{"slots", "names"} -> Vocabularies \cup {NoEntry}]
      BY <2>0, <3>1 DEF CopyExpires
    <3> QED BY <2>0, <3>1, <3>2, OthersHold DEF CopyExpires
  <2>7. CASE UNCHANGED identityVars BY <2>0, <2>7, OthersHold DEF identityVars
  <2> QED BY <2>1, <2>2, <2>3, <2>4, <2>5, <2>6, <2>7 DEF IdentityNext
<1>3. IdentityHolds => ReadingSettles BY HeldReadsQuietly
<1> QED BY <1>1, <1>2, <1>3, PTL DEF IdentitySpec

Kept(text, parse, rest, i) ==
    IF i \in parse.used THEN rest ELSE Append(rest, text[i])

LEMMA RestIsFold ==
    ASSUME NEW text, NEW parse
    PROVE Residue(text, parse) =
        (CHOOSE g : g = [s \in SUBSET (DOMAIN text) |->
           IF s = {} THEN <<>>
           ELSE Kept(text, parse, g[s \ {Max(s)}], [i \in DOMAIN text |-> i][Max(s)])])[DOMAIN text]
BY DEF Residue, FoldLeft, MapThenFoldSet, Kept

RestGathers(t, n, text, parse) ==
    /\ t[0] = <<>>
    /\ \A i \in 1..n : t[i] = Kept(text, parse, t[i - 1], i)
    /\ Residue(text, parse) = t[n]

LEMMA RestTrace ==
    ASSUME NEW n \in Nat, NEW text, DOMAIN text = 1..n, NEW parse
    PROVE  \E t : RestGathers(t, n, text, parse)
<1> DEFINE At(i) == [k \in DOMAIN text |-> k][i]
           Value(g, s) == IF s = {} THEN <<>>
                          ELSE Kept(text, parse, g[s \ {Max(s)}], At(Max(s)))
           Fits(k) == \E g : \A s \in SUBSET (1..k) : g[s] = Value(g, s)
           Good == {k \in 0..n : Fits(k)}
<1>1. 0 \in Good
  <2> DEFINE g == [s \in SUBSET (1..0) |-> <<>>]
  <2>1. \A s \in SUBSET (1..0) : s = {} OBVIOUS
  <2>2. \A s \in SUBSET (1..0) : g[s] = Value(g, s) BY <2>1
  <2>3. Fits(0)
    <3> HIDE DEF Value, g
    <3> QED BY <2>2
  <2> HIDE DEF Fits
  <2> QED BY <2>3
<1>2. \A k \in 1..n : k - 1 \in Good => k \in Good
  <2> SUFFICES ASSUME NEW k \in 1..n, k - 1 \in Good PROVE k \in Good OBVIOUS
  <2>1. PICK g : \A s \in SUBSET (1..(k - 1)) : g[s] = Value(g, s) BY Zenon
  <2> DEFINE h == [s \in SUBSET (1..k) |->
                     IF k \in s THEN Kept(text, parse, g[s \ {k}], At(k)) ELSE g[s]]
  <2>2. \A s \in SUBSET (1..k) : k \notin s => s \in SUBSET (1..(k - 1)) OBVIOUS
  <2>3. \A s \in SUBSET (1..k) : s \ {k} \in SUBSET (1..(k - 1)) OBVIOUS
  <2>4. \A s \in SUBSET (1..(k - 1)) : s \in SUBSET (1..k) /\ k \notin s OBVIOUS
  <2>5. \A s \in SUBSET (1..(k - 1)) : h[s] = g[s] BY <2>4
  <2>6. ASSUME NEW s \in SUBSET (1..k) PROVE h[s] = Value(h, s)
    <3>1. CASE k \in s
      <4>1. Max(s) = k BY <3>1, MaxOfTop
      <4>2. h[s] = Kept(text, parse, g[s \ {k}], At(k)) BY <3>1
      <4>3. h[s \ {k}] = g[s \ {k}] BY <2>3, <2>5
      <4>4. s # {} BY <3>1
      <4> HIDE DEF h, At
      <4> QED BY <4>1, <4>2, <4>3, <4>4
    <3>2. CASE k \notin s
      <4>1. h[s] = g[s] /\ g[s] = Value(g, s) BY <2>1, <2>2, <2>5, <3>2, Zenon
      <4>2. s # {} => s \ {Max(s)} \in SUBSET (1..(k - 1)) BY <2>2, <3>2
      <4>3. s # {} => h[s \ {Max(s)}] = g[s \ {Max(s)}] BY <4>2, <2>5
      <4> HIDE DEF h, At
      <4> QED BY <4>1, <4>3
    <3> QED BY <3>1, <3>2
  <2>7. Fits(k)
    <3> HIDE DEF h, Value
    <3> QED BY <2>6
  <2> HIDE DEF Fits
  <2> QED BY <2>7
<1>3. n \in Good
  <2> HIDE DEF Good
  <2> QED BY <1>1, <1>2, UpTo
<1>4. PICK g : \A s \in SUBSET (1..n) : g[s] = Value(g, s) BY <1>3, Zenon
<1> DEFINE Defined(f) == f = [s \in SUBSET (DOMAIN text) |-> Value(f, s)]
           f0 == [s \in SUBSET (DOMAIN text) |-> g[s]]
           f1 == CHOOSE f : Defined(f)
<1>5. Defined(f0)
  <2>1. \A s \in SUBSET (DOMAIN text) : s \ {Max(s)} \in SUBSET (DOMAIN text) OBVIOUS
  <2>2. \A s \in SUBSET (DOMAIN text) : f0[s \ {Max(s)}] = g[s \ {Max(s)}] BY <2>1
  <2>3. \A s \in SUBSET (DOMAIN text) : Value(f0, s) = Value(g, s) BY <2>2
  <2> HIDE DEF Value
  <2> QED BY <1>4, <2>3
<1>6. Defined(f1) BY <1>5, Zenon
<1>7. Residue(text, parse) = f1[DOMAIN text] BY RestIsFold
<1> DEFINE t == [i \in 0..n |-> f1[1..i]]
<1>8. \A i \in 0..n : 1..i \in SUBSET (DOMAIN text) OBVIOUS
<1>9. t[0] = <<>>
  <2>1. 1..0 = {} OBVIOUS
  <2>2. f1[1..0] = Value(f1, 1..0)
    <3>1. 1..0 \in SUBSET (DOMAIN text) OBVIOUS
    <3> HIDE DEF Value, f1
    <3> QED BY <1>6, <3>1
  <2> HIDE DEF f1
  <2> QED BY <2>1, <2>2
<1>10. ASSUME NEW i \in 1..n PROVE t[i] = Kept(text, parse, t[i - 1], i)
  <2>1. 1..i # {} /\ (1..i) \ {i} = 1..(i - 1) /\ i \in 1..i OBVIOUS
  <2>2. Max(1..i) = i BY <2>1, MaxOfTop
  <2>3. f1[1..i] = Value(f1, 1..i)
    <3>1. 1..i \in SUBSET (DOMAIN text) OBVIOUS
    <3> HIDE DEF Value, f1
    <3> QED BY <1>6, <3>1
  <2>4. At(i) = i OBVIOUS
  <2>5. t[i] = f1[1..i] /\ t[i - 1] = f1[1..(i - 1)] OBVIOUS
  <2> HIDE DEF f1, At, t
  <2> QED BY <2>1, <2>2, <2>3, <2>4, <2>5
<1>11. Residue(text, parse) = t[n]
  <2> HIDE DEF f1
  <2> QED BY <1>7
<1> HIDE DEF t
<1> QED BY <1>9, <1>10, <1>11 DEF RestGathers


(* What is left of a name is a name.                                       *)
LEMMA ResidueIsName ==
    ASSUME NEW T, NEW text \in Seq(T), NEW parse
    PROVE  Residue(text, parse) \in Seq(T)
<1> DEFINE n == Len(text)
<1>1. n \in Nat /\ DOMAIN text = 1..n OBVIOUS
<1>2. PICK t : RestGathers(t, n, text, parse) BY <1>1, RestTrace
<1>3. /\ t[0] = <<>>
      /\ \A i \in 1..n : t[i] = Kept(text, parse, t[i - 1], i)
      /\ Residue(text, parse) = t[n]
  BY <1>2 DEF RestGathers
<1> HIDE DEF n
<1> DEFINE S == {k \in 0..n : t[k] \in Seq(T)}
<1>4. 0 \in S
  <2>1. <<>> \in Seq(T) OBVIOUS
  <2>2. t[0] \in Seq(T) BY <1>3, <2>1, Zenon
  <2>3. 0 \in 0..n BY <1>1
  <2> QED BY <2>2, <2>3
<1>5. ASSUME NEW k \in 1..n, k - 1 \in S PROVE k \in S
  <2>1. t[k] = Kept(text, parse, t[k - 1], k) /\ t[k - 1] \in Seq(T) /\ text[k] \in T
    BY <1>1, <1>3, <1>5, ElementOfSeq
  <2>2. \A rest \in Seq(T) : Append(rest, text[k]) \in Seq(T) BY <2>1
  <2>3. t[k] \in Seq(T) BY <2>1, <2>2 DEF Kept
  <2> QED BY <1>1, <2>3
<1>6. n \in S
  <2> HIDE DEF S
  <2> QED BY <1>1, <1>4, <1>5, UpTo
<1> QED BY <1>3, <1>6

(* Induction over the subsets of a finite set.                             *)
LEMMA SubsetsUp ==
    ASSUME NEW S, IsFiniteSet(S), NEW Q,
           \A s \in SUBSET S : (\A x \in s : s \ {x} \in Q) => s \in Q
    PROVE  \A s \in SUBSET S : s \in Q
<1> DEFINE n == Cardinality(S)
           R == {k \in 0..n : \A s \in SUBSET S : Cardinality(s) = k => s \in Q}
<1>0. n \in Nat BY FS_CardinalityType
<1>1. \A s \in SUBSET S : IsFiniteSet(s) /\ Cardinality(s) \in 0..n
  <2> SUFFICES ASSUME NEW s \in SUBSET S PROVE IsFiniteSet(s) /\ Cardinality(s) \in 0..n OBVIOUS
  <2>1. IsFiniteSet(s) /\ Cardinality(s) <= n BY FS_Subset
  <2>2. Cardinality(s) \in Nat BY <2>1, FS_CardinalityType
  <2> HIDE DEF n
  <2> QED BY <1>0, <2>1, <2>2
<1>2. 0 \in R
  <2>1. ASSUME NEW s \in SUBSET S, Cardinality(s) = 0 PROVE s \in Q
    <3>1. s = {} BY <1>1, <2>1, FS_EmptySet
    <3> QED BY <3>1
  <2> HIDE DEF n
  <2> QED BY <1>0, <2>1
<1>3. ASSUME NEW k \in 1..n, k - 1 \in R PROVE k \in R
  <2>1. ASSUME NEW s \in SUBSET S, Cardinality(s) = k PROVE s \in Q
    <3>1. ASSUME NEW x \in s PROVE s \ {x} \in Q
      <4>1. Cardinality(s \ {x}) = k - 1 BY <1>1, <2>1, FS_RemoveElement
      <4> QED BY <1>3, <4>1
    <3> QED BY <3>1
  <2> QED BY <2>1
<1>4. \A k \in 0..n : k \in R
  <2> HIDE DEF R, n
  <2> QED BY <1>0, <1>2, <1>3, UpTo
<1> QED BY <1>1, <1>4

-----------------------------------------------------------------------------
SumOf(f, S) == MapThenSumSet(LAMBDA x : f[x], S)
Pick(s) == CHOOSE x \in s : TRUE
Summed(g, f, s) == IF s = {} THEN 0 ELSE f[Pick(s)] + g[s \ {Pick(s)}]

LEMMA SumIsFold ==
    ASSUME NEW f, NEW S
    PROVE  SumOf(f, S) = (CHOOSE g : g = [s \in SUBSET S |-> Summed(g, f, s)])[S]
BY DEF SumOf, MapThenSumSet, MapThenFoldSet, Summed, Pick

LEMMA SumsUnfold ==
    ASSUME NEW S, IsFiniteSet(S), NEW f
    PROVE  \A s \in SUBSET S :
              SumOf(f, s) = IF s = {} THEN 0 ELSE f[Pick(s)] + SumOf(f, s \ {Pick(s)})
<1> DEFINE n == Cardinality(S)
           Good == {k \in 0..n : \E g : \A s \in SUBSET S :
                                    Cardinality(s) <= k => g[s] = Summed(g, f, s)}
<1>0. n \in Nat BY FS_CardinalityType
<1>1. \A s \in SUBSET S : IsFiniteSet(s) /\ Cardinality(s) \in 0..n
  <2> SUFFICES ASSUME NEW s \in SUBSET S PROVE IsFiniteSet(s) /\ Cardinality(s) \in 0..n OBVIOUS
  <2>1. IsFiniteSet(s) /\ Cardinality(s) <= n BY FS_Subset
  <2>2. Cardinality(s) \in Nat BY <2>1, FS_CardinalityType
  <2> HIDE DEF n
  <2> QED BY <1>0, <2>1, <2>2
<1>2. \A s : s # {} => Pick(s) \in s BY DEF Pick
<1>3. \A s \in SUBSET S : s # {} =>
          s \ {Pick(s)} \in SUBSET S /\ Cardinality(s \ {Pick(s)}) = Cardinality(s) - 1
  BY <1>1, <1>2, FS_RemoveElement
<1>4. 0 \in Good
  <2> DEFINE g == [s \in SUBSET S |-> 0]
  <2>1. \A s \in SUBSET S : Cardinality(s) <= 0 => s = {} BY <1>1, FS_EmptySet
  <2>2. \A s \in SUBSET S : Cardinality(s) <= 0 => g[s] = Summed(g, f, s) BY <2>1 DEF Summed
  <2>3. \E h : \A s \in SUBSET S : Cardinality(s) <= 0 => h[s] = Summed(h, f, s)
    <3> HIDE DEF g
    <3> QED BY <2>2
  <2> HIDE DEF n
  <2> QED BY <1>0, <2>3
<1>5. ASSUME NEW k \in 1..n, k - 1 \in Good PROVE k \in Good
  <2>1. PICK g : \A s \in SUBSET S : Cardinality(s) <= k - 1 => g[s] = Summed(g, f, s) BY <1>5, Zenon
  <2> DEFINE h == [s \in SUBSET S |-> IF Cardinality(s) = k THEN Summed(g, f, s) ELSE g[s]]
  <2>2. ASSUME NEW s \in SUBSET S, Cardinality(s) <= k PROVE h[s] = Summed(h, f, s)
    <3>1. s # {} => h[s \ {Pick(s)}] = g[s \ {Pick(s)}]
      <4> HIDE DEF n
      <4> QED BY <1>0, <1>1, <1>3, <2>2
    <3>2. Summed(h, f, s) = Summed(g, f, s)
      <4> HIDE DEF h
      <4> QED BY <3>1 DEF Summed
    <3>3. CASE Cardinality(s) = k BY <3>2, <3>3
    <3>4. CASE Cardinality(s) # k
      <4>1. Cardinality(s) <= k - 1
        <5> HIDE DEF n
        <5> QED BY <1>0, <1>1, <2>2, <3>4
      <4>2. h[s] = g[s] BY <3>4
      <4> HIDE DEF h
      <4> QED BY <2>1, <3>2, <4>1, <4>2
    <3> QED BY <3>3, <3>4
  <2>3. \E e : \A s \in SUBSET S : Cardinality(s) <= k => e[s] = Summed(e, f, s)
    <3> HIDE DEF h
    <3> QED BY <2>2
  <2> QED BY <2>3
<1>6. n \in Good
  <2> HIDE DEF Good, n
  <2> QED BY <1>0, <1>4, <1>5, UpTo
<1>7. PICK g : \A s \in SUBSET S : Cardinality(s) <= n => g[s] = Summed(g, f, s) BY <1>6, Zenon
<1>8. \A s \in SUBSET S : g[s] = Summed(g, f, s)
  <2> HIDE DEF n
  <2> QED BY <1>0, <1>1, <1>7
\* the one that is chosen for any of the subsets agrees with it
<1>9. ASSUME NEW T \in SUBSET S PROVE SumOf(f, T) = g[T]
  <2> DEFINE Defined(e) == e = [s \in SUBSET T |-> Summed(e, f, s)]
             e0 == [s \in SUBSET T |-> g[s]]
             e1 == CHOOSE e : Defined(e)
  <2>1. Defined(e0)
    <3>1. \A s \in SUBSET T : Summed(e0, f, s) = Summed(g, f, s)
      <4>1. \A s \in SUBSET T : s \ {Pick(s)} \in SUBSET T OBVIOUS
      <4>2. \A s \in SUBSET T : e0[s \ {Pick(s)}] = g[s \ {Pick(s)}] BY <4>1
      <4> HIDE DEF e0
      <4> QED BY <4>2 DEF Summed
    <3>2. \A s \in SUBSET T : g[s] = Summed(g, f, s) BY <1>8
    <3> QED BY <3>1, <3>2
  <2>2. Defined(e1) BY <2>1, Zenon
  <2>3. SumOf(f, T) = e1[T] BY SumIsFold
  <2> DEFINE Q == {s \in SUBSET T : e1[s] = g[s]}
  <2>4. ASSUME NEW s \in SUBSET T, \A x \in s : s \ {x} \in Q PROVE s \in Q
    <3>1. e1[s] = Summed(e1, f, s)
      <4> HIDE DEF e1
      <4> QED BY <2>2
    <3>2. g[s] = Summed(g, f, s) BY <1>8
    <3>3. s # {} => e1[s \ {Pick(s)}] = g[s \ {Pick(s)}] BY <1>2, <2>4
    <3> HIDE DEF e1
    <3> QED BY <3>1, <3>2, <3>3 DEF Summed
  <2>5. IsFiniteSet(T) BY <1>1
  <2>6. T \in Q
    <3> HIDE DEF Q
    <3> QED BY <2>4, <2>5, SubsetsUp
  <2> HIDE DEF e1
  <2> QED BY <2>3, <2>6
<1> QED
  <2> SUFFICES ASSUME NEW s \in SUBSET S
               PROVE  SumOf(f, s) = IF s = {} THEN 0 ELSE f[Pick(s)] + SumOf(f, s \ {Pick(s)})
    OBVIOUS
  <2>1. SumOf(f, s) = Summed(g, f, s) BY <1>8, <1>9
  <2>2. SumOf(f, s \ {Pick(s)}) = g[s \ {Pick(s)}] BY <1>9
  <2> QED BY <2>1, <2>2 DEF Summed

LEMMA SumsAreNatural ==
    ASSUME NEW S, IsFiniteSet(S), NEW f, \A x \in S : f[x] \in Nat
    PROVE  \A s \in SUBSET S : SumOf(f, s) \in Nat
<1> DEFINE Q == {s \in SUBSET S : SumOf(f, s) \in Nat}
<1>1. ASSUME NEW s \in SUBSET S, \A x \in s : s \ {x} \in Q PROVE s \in Q
  <2>1. SumOf(f, s) = IF s = {} THEN 0 ELSE f[Pick(s)] + SumOf(f, s \ {Pick(s)})
    BY SumsUnfold
  <2>2. CASE s = {} BY <2>1, <2>2
  <2>3. CASE s # {}
    <3>1. Pick(s) \in s BY <2>3 DEF Pick
    <3>2. SumOf(f, s \ {Pick(s)}) \in Nat /\ f[Pick(s)] \in Nat BY <1>1, <3>1
    <3> QED BY <2>1, <2>3, <3>2
  <2> QED BY <2>2, <2>3
<1>2. \A s \in SUBSET S : s \in Q
  <2> HIDE DEF Q
  <2> QED BY <1>1, SubsetsUp
<1> QED BY <1>2

(* The order of the additions does not matter.                             *)
LEMMA SumSplits ==
    ASSUME NEW S, IsFiniteSet(S), NEW f, \A x \in S : f[x] \in Nat
    PROVE  \A s \in SUBSET S : \A x \in s : SumOf(f, s) = f[x] + SumOf(f, s \ {x})
<1> DEFINE Splits(s) == \A x \in s : SumOf(f, s) = f[x] + SumOf(f, s \ {x})
           Q == {s \in SUBSET S : Splits(s)}
<1>1. ASSUME NEW s \in SUBSET S, \A x \in s : s \ {x} \in Q PROVE s \in Q
  <2> SUFFICES ASSUME NEW x \in s PROVE SumOf(f, s) = f[x] + SumOf(f, s \ {x}) OBVIOUS
  <2> DEFINE y == Pick(s)
  <2>1. y \in s BY DEF Pick
  <2>2. SumOf(f, s) = f[y] + SumOf(f, s \ {y}) BY SumsUnfold
  <2> HIDE DEF y
  <2>3. CASE x = y BY <2>2, <2>3
  <2>4. CASE x # y
    <3>1. SumOf(f, s \ {y}) = f[x] + SumOf(f, (s \ {y}) \ {x})
      <4>1. s \ {y} \in Q /\ x \in s \ {y} BY <1>1, <2>1, <2>4
      <4> QED BY <4>1
    <3>2. SumOf(f, s \ {x}) = f[y] + SumOf(f, (s \ {x}) \ {y})
      <4>1. s \ {x} \in Q /\ y \in s \ {x} BY <1>1, <2>1, <2>4
      <4> QED BY <4>1
    <3>3. (s \ {y}) \ {x} = (s \ {x}) \ {y} OBVIOUS
    <3>4. SumOf(f, (s \ {x}) \ {y}) \in Nat /\ f[x] \in Nat /\ f[y] \in Nat
      BY <2>1, SumsAreNatural
    <3>5. SumOf(f, s \ {y}) = f[x] + SumOf(f, (s \ {x}) \ {y}) BY <3>1, <3>3, Zenon
    <3> DEFINE rest == SumOf(f, (s \ {x}) \ {y})
               but == SumOf(f, s \ {x})
               butY == SumOf(f, s \ {y})
               all == SumOf(f, s)
    <3> HIDE DEF rest, but, butY, all
    <3>6. all = f[x] + but BY <2>2, <3>2, <3>4, <3>5 DEF rest, but, butY, all
    <3> QED BY <3>6 DEF all, but
  <2> QED BY <2>3, <2>4
<1>2. \A s \in SUBSET S : s \in Q
  <2> HIDE DEF Q
  <2> QED BY <1>1, SubsetsUp
<1> QED BY <1>2

(* More of the summands, no smaller a sum.                                 *)
LEMMA SumGrows ==
    ASSUME NEW S, IsFiniteSet(S), NEW f, \A x \in S : f[x] \in Nat,
           NEW s \in SUBSET S, NEW t \in SUBSET s
    PROVE  SumOf(f, t) <= SumOf(f, s)
<1> DEFINE Q == {u \in SUBSET S : t \subseteq u => SumOf(f, t) <= SumOf(f, u)}
<1>0. t \in SUBSET S OBVIOUS
<1>1. ASSUME NEW u \in SUBSET S, \A x \in u : u \ {x} \in Q PROVE u \in Q
  <2>1. CASE t = u
    <3>1. SumOf(f, t) \in Nat BY <1>0, SumsAreNatural
    <3> QED BY <2>1, <3>1
  <2>2. CASE t \subseteq u /\ t # u
    <3>1. PICK x \in u : x \notin t BY <2>2
    <3>2. SumOf(f, u) = f[x] + SumOf(f, u \ {x}) BY SumSplits
    <3>3. SumOf(f, t) <= SumOf(f, u \ {x}) BY <1>1, <2>2, <3>1
    <3>4. SumOf(f, t) \in Nat /\ SumOf(f, u \ {x}) \in Nat /\ f[x] \in Nat
      BY <1>0, SumsAreNatural
    <3>5. SumOf(f, t) <= SumOf(f, u) BY <3>2, <3>3, <3>4
    <3> QED BY <3>5
  <2>3. CASE ~(t \subseteq u) BY <2>3
  <2> QED BY <2>1, <2>2, <2>3
<1>2. s \in Q
  <2> HIDE DEF Q
  <2> QED BY <1>1, SubsetsUp
<1> QED BY <1>2

(* A sum of positive numbers is zero only when there are none.             *)
LEMMA SumVanishes ==
    ASSUME NEW S, IsFiniteSet(S), NEW f, \A x \in S : f[x] \in Nat \ {0},
           NEW s \in SUBSET S, SumOf(f, s) = 0
    PROVE  s = {}
<1> SUFFICES ASSUME NEW x \in s PROVE FALSE OBVIOUS
<1>1. SumOf(f, s) = f[x] + SumOf(f, s \ {x}) BY SumSplits
<1>2. SumOf(f, s \ {x}) \in Nat /\ f[x] \in Nat \ {0} BY SumsAreNatural
<1> QED BY <1>1, <1>2

IsName(n) == Len(n) \in Nat \ {0} /\ n # NoEntry

(* Where a name is found.                                                  *)
Having(inputs, found, n) == {k \in DOMAIN inputs : \E f \in found[k] : f.name = n}

LEMMA FrequentAre ==
    ASSUME NEW inputs, NEW found, NEW c \in Frequent(inputs, found)
    PROVE  /\ \E k \in DOMAIN inputs : \E f \in found[k] : f.name = c.name
           /\ c.person = looksLikeHungarianPersonName(c.name)
           /\ c.count = SumOf(inputs, Having(inputs, found, c.name))
<1> DEFINE with(n) == {k \in DOMAIN inputs : \E f \in found[k] : f.name = n}
           counted(ks) == MapThenSumSet(LAMBDA k : inputs[k], ks)
           shops(n) == Cardinality({k[1] : k \in with(n)})
           count(n) == counted(with(n))
           leads(n) == counted({k \in with(n) : \E f \in found[k] : f.name = n /\ f.leading})
           marked(n) == \E k \in with(n) : \E f \in found[k] : f.name = n /\ f.marker
           person(n) == looksLikeHungarianPersonName(n)
           score(n) == (IF marked(n) THEN 500 ELSE 0) + 150 * Min({shops(n), 5}) + LogOf[count(n)]
                           + (200 * leads(n)) \div count(n) + (IF person(n) THEN 150 ELSE 0)
           candidate(n) == [name |-> n, count |-> count(n), shops |-> shops(n),
                            marker |-> marked(n), person |-> person(n), score |-> score(n)]
           names == {f.name : f \in UNION {found[k] : k \in DOMAIN inputs}}
<1>1. c \in {candidate(n) : n \in names}
  BY Zenon DEF Frequent
<1>2. PICK n \in names : c = candidate(n) BY <1>1
<1>3. c.name = n /\ c.count = count(n) /\ c.person = person(n)
  <2> HIDE DEF count, shops, marked, person, score
  <2> QED BY <1>2
<1>4. count(n) = SumOf(inputs, Having(inputs, found, n)) BY Zenon DEF SumOf, Having
<1>5. \E k \in DOMAIN inputs : \E f \in found[k] : f.name = n OBVIOUS
<1> HIDE DEF count, person, names, candidate
<1> QED BY <1>3, <1>4, <1>5 DEF person

(* A part of a name that may be a winery's is not empty.                   *)
LEMMA CandidatesAreNames ==
    ASSUME NEW T, NoEntry \notin Seq(T), NEW rest \in Seq(T), NEW f \in candidatesFrom(rest)
    PROVE  /\ IsName(f.name)
           /\ Nameable(f.name)
           /\ \E i, j \in DOMAIN rest :
                /\ i <= j /\ j - i <= 3 /\ f.name = SubSeq(rest, i, j)
                /\ \/ i = 1 /\ j <= 3
                   \/ i # j /\ (rest[i] \in PREFIX_MARKERS \/ rest[j] \in SUFFIX_MARKERS)
<1> DEFINE spans == {s \in (DOMAIN rest) \X (DOMAIN rest) : s[2] - s[1] \in 0..3}
           leading(s) == s[1] = 1 /\ s[2] <= 3
           marked(s) == s[1] # s[2] /\ (rest[s[1]] \in PREFIX_MARKERS \/ rest[s[2]] \in SUFFIX_MARKERS)
           named(s) == SubSeq(rest, s[1], s[2])
           taken == {s \in spans : (leading(s) \/ marked(s)) /\ Nameable(named(s))}
<1>1. \E s \in taken : f.name = named(s)
  <2>1. PICK n \in {named(s) : s \in taken} :
           f = [name |-> n, leading |-> \E s \in taken : named(s) = n /\ s[1] = 1,
                marker |-> \E s \in taken : named(s) = n /\ marked(s)]
    BY Zenon DEF candidatesFrom
  <2> DEFINE lead == \E s \in taken : named(s) = n /\ s[1] = 1
             mark == \E s \in taken : named(s) = n /\ marked(s)
  <2>2. f = [name |-> n, leading |-> lead, marker |-> mark] BY <2>1
  <2> HIDE DEF lead, mark
  <2>3. f.name = n BY <2>2
  <2> HIDE DEF taken, named
  <2> QED BY <2>1, <2>3
<1>2. PICK s \in taken : f.name = named(s) BY <1>1
<1> DEFINE i == s[1]
           j == s[2]
<1>3. /\ i \in DOMAIN rest /\ j \in DOMAIN rest /\ j - i \in 0..3
      /\ f.name = SubSeq(rest, i, j)
      /\ (i = 1 /\ j <= 3) \/ (i # j /\ (rest[i] \in PREFIX_MARKERS \/ rest[j] \in SUFFIX_MARKERS))
      /\ Nameable(f.name)
  <2>1. s \in spans /\ (leading(s) \/ marked(s)) /\ Nameable(named(s)) OBVIOUS
  <2>2. i \in DOMAIN rest /\ j \in DOMAIN rest /\ j - i \in 0..3 BY <2>1
  <2>3. (i = 1 /\ j <= 3) \/ (i # j /\ (rest[i] \in PREFIX_MARKERS \/ rest[j] \in SUFFIX_MARKERS))
    BY <2>1
  <2>4. Nameable(f.name) BY <1>2, <2>1
  <2> QED BY <1>2, <2>2, <2>3, <2>4
<1> HIDE DEF i, j, taken, spans
<1>4. i \in 1..Len(rest) /\ j \in 1..Len(rest) /\ Len(rest) \in Nat BY <1>3
<1>5. i <= j /\ j - i <= 3 BY <1>3, <1>4
<1>6. Len(SubSeq(rest, i, j)) = j - i + 1 BY <1>3, <1>4, <1>5
<1>7. IsName(f.name)
  <2>1. SubSeq(rest, i, j) \in Seq(T) BY <1>3, <1>4, <1>5
  <2>2. f.name # NoEntry BY <1>3, <2>1, Zenon
  <2>3. Len(f.name) \in Nat \ {0} BY <1>3, <1>4, <1>5, <1>6
  <2> QED BY <2>2, <2>3 DEF IsName
<1> QED BY <1>3, <1>5, <1>7

-----------------------------------------------------------------------------
looksLike(n) == looksLikeHungarianPersonName(n)

RowIsOf(r, n) ==
    /\ IsName(n)
    /\ DOMAIN r = {"status", "fuzzy", "score", "person"}
    /\ r.person = looksLike(n)

MinedWell(c) == IsName(c.name) /\ c.person = looksLike(c.name)

InForce(n) == n \in DOMAIN register /\ register[n].status = "active"

NamesHold ==
    /\ shelves \in Stocks /\ answers \in Nat
    /\ \A k \in Listed : maker[k] # NoEntry => InForce(maker[k])
    /\ \A n \in DOMAIN register : RowIsOf(register[n], n)
    /\ \A a \in synonyms : IsName(a[1]) /\ ~looksLike(a[1])
    /\ \A c \in mined : MinedWell(c)
    /\ lookedUp # NoEntry => MinedWell(lookedUp.candidate)
    /\ onScreen # NoEntry =>
          /\ onScreen.merge \subseteq DOMAIN register
          /\ \A n \in onScreen.merge \cup onScreen.discard :
                n # onScreen.keep /\ ~looksLike(n)
          /\ (\E n \in onScreen.merge : InForce(n)) => InForce(onScreen.keep)

(* The vocabulary that names are read by.                                  *)
LEMMA NamesArePhrased ==
    ASSUME NamesHold
    PROVE  /\ Phrased(NamePhrases)
           /\ \A p \in NamePhrases : p.slot = "producer" => InForce(p.id)
<1> DEFINE own == {[slot |-> "producer", id |-> n, words |-> n, of |-> NoEntry, canonical |-> TRUE] :
                      n \in ActiveNames}
           others == {[slot |-> "producer", id |-> a[2], words |-> a[1], of |-> NoEntry,
                       canonical |-> FALSE] : a \in {b \in synonyms : b[2] \in ActiveNames}}
<1>1. ASSUME NEW p \in NamePhrases PROVE p \in WineWords \/ p \in own \/ p \in others
  BY Zenon DEF NamePhrases
<1>2. ASSUME NEW p \in WineWords
      PROVE  p.slot \in Slots /\ Len(p.words) \in Nat \ {0} /\ p.slot # "producer"
  <2>1. p.slot \in Slots \ {"producer"} /\ p.words \in Seq(Range(p.words)) \ {<<>>}
    BY NamesAssumption
  <2> QED BY <2>1, EmptySeq
<1>3. ASSUME NEW p \in own
      PROVE  p.slot \in Slots /\ Len(p.words) \in Nat \ {0} /\ InForce(p.id)
  <2>1. PICK n \in ActiveNames : p = [slot |-> "producer", id |-> n, words |-> n, of |-> NoEntry,
                                      canonical |-> TRUE]
    OBVIOUS
  <2>2. p.slot = "producer" /\ p.id = n /\ p.words = n BY <2>1
  <2>3. n \in DOMAIN register /\ register[n].status = "active" BY DEF ActiveNames
  <2> QED BY <2>2, <2>3 DEF NamesHold, RowIsOf, IsName, InForce, Slots
<1>4. ASSUME NEW p \in others
      PROVE  p.slot \in Slots /\ Len(p.words) \in Nat \ {0} /\ InForce(p.id)
  <2>1. PICK a \in synonyms : /\ a[2] \in ActiveNames
                              /\ p = [slot |-> "producer", id |-> a[2], words |-> a[1],
                                      of |-> NoEntry, canonical |-> FALSE]
    OBVIOUS
  <2>2. p.slot = "producer" /\ p.id = a[2] /\ p.words = a[1] BY <2>1
  <2>3. a[2] \in DOMAIN register /\ register[a[2]].status = "active" BY <2>1 DEF ActiveNames
  <2> QED BY <2>2, <2>3 DEF NamesHold, IsName, InForce, Slots
<1> HIDE DEF own, others
<1> QED BY <1>1, <1>2, <1>3, <1>4 DEF Phrased

(* Reading a listing again finds a winery in force that its name names.    *)
LEMMA ReadingNames ==
    ASSUME NamesHold, NEW k \in Listed, Understood(k).producer # NoEntry
    PROVE  InForce(Understood(k).producer) /\ NamedIn(k, Understood(k).producer)
<1> DEFINE text == k[2]
           n == Len(text)
           q == Understood(k)
<1>1. text \in Seq(Range(Alphabet)) BY NamesAssumption DEF NamesHold, Listed
<1> HIDE DEF text
<1>2. n \in Nat /\ DOMAIN text = 1..n BY <1>1
<1>3. q = parseWineName(text, NamePhrases, NoEntry) BY Zenon DEF Understood, text
<1> HIDE DEF q
<1>4. q.producer = NoEntry \/ NamedBy(NamePhrases, text, q.producer)
  BY <1>2, <1>3, NamesArePhrased, ParseReads
<1>5. NamedBy(NamePhrases, text, q.producer) BY <1>4 DEF q
<1> QED BY <1>5, NamesArePhrased DEF NamedBy, NamedIn, Holds, q, text

LEMMA NoneLinked ==
    ASSUME NamesHold, NEW n, Linked(n) = 0
    PROVE  \A k \in Listed : maker[k] # n
<1> DEFINE ks == {k \in Listed : maker[k] = n}
<1>1. SumOf(shelves, ks) = 0 BY Zenon DEF Linked, SumOf
<1>2. IsFiniteSet(Listed) /\ \A k \in Listed : shelves[k] \in Nat \ {0}
  BY NamesAssumption DEF NamesHold, Listed
<1>3. ks \in SUBSET Listed OBVIOUS
<1>4. ks = {}
  <2> HIDE DEF ks
  <2> QED BY <1>1, <1>2, <1>3, SumVanishes
<1> QED BY <1>4

(* What SuggestionsAreSafe says of a step.                                 *)
SafeStep ==
    /\ \A k \in Listed :
          /\ maker'[k] # NoEntry =>
                maker'[k] \in DOMAIN register' /\ register'[maker'[k]].status = "active"
          /\ maker'[k] # maker[k]
                /\ (maker[k] = NoEntry \/ looksLikeHungarianPersonName(maker[k])) =>
                NamedIn(k, maker'[k])
    /\ \A n \in DOMAIN register :
          looksLikeHungarianPersonName(n) /\ answers' = answers =>
             n \in DOMAIN register' /\ register'[n].status = register[n].status
    /\ \A a \in synonyms' : ~looksLikeHungarianPersonName(a[1])

(* A step of the job, or of no consequence for the listings: the register  *)
(* keeps its rows with their status.                                       *)
LEMMA RegisterKeeps ==
    ASSUME NamesHold, shelves' = shelves, maker' = maker, synonyms' = synonyms,
           answers' = answers,
           \A n \in DOMAIN register :
               n \in DOMAIN register' /\ register'[n].status = register[n].status,
           \A n \in DOMAIN register' : RowIsOf(register'[n], n),
           \A c \in mined' : MinedWell(c),
           lookedUp' # NoEntry => MinedWell(lookedUp'.candidate),
           onScreen' = onScreen \/ onScreen' = NoEntry
    PROVE  NamesHold' /\ SafeStep
<1>1. \A n : InForce(n) => InForce(n)' BY DEF InForce
<1>2. onScreen' = onScreen /\ onScreen # NoEntry /\ (\E n \in onScreen.merge : InForce(n)')
         => InForce(onScreen.keep)'
  BY DEF InForce, NamesHold
<1>3. (\A k \in Listed : maker[k] # NoEntry => InForce(maker[k]))'
  BY <1>1 DEF NamesHold, Listed
<1>4. (onScreen # NoEntry =>
          /\ onScreen.merge \subseteq DOMAIN register
          /\ \A n \in onScreen.merge \cup onScreen.discard :
                n # onScreen.keep /\ ~looksLike(n)
          /\ (\E n \in onScreen.merge : InForce(n)) => InForce(onScreen.keep))'
  BY <1>2 DEF NamesHold
<1>5. NamesHold' BY <1>3, <1>4 DEF NamesHold
<1>6. SafeStep BY <1>1 DEF SafeStep, NamesHold, InForce, looksLike
<1> QED BY <1>5, <1>6

LEMMA ReadAgainSafe ==
    ASSUME NamesHold, ReadAgain
    PROVE  NamesHold' /\ SafeStep
<1>1. /\ UNCHANGED <<shelves, register, synonyms, mined, lookedUp, onScreen, answers>>
      /\ \A k \in Listed : maker'[k] = Prefer(Understood(k).producer, maker[k])
  BY DEF ReadAgain
<1>2. \A k \in Listed : maker'[k] # NoEntry => InForce(maker'[k])
  BY <1>1, ReadingNames DEF Prefer, NamesHold
<1>3. \A k \in Listed : maker'[k] # maker[k] => NamedIn(k, maker'[k])
  BY <1>1, ReadingNames DEF Prefer
<1>4. NamesHold' BY <1>1, <1>2 DEF NamesHold, InForce, Listed
<1>5. SafeStep BY <1>1, <1>2, <1>3 DEF SafeStep, NamesHold, InForce, looksLike
<1> QED BY <1>4, <1>5

LEMMA MineNamesSafe ==
    ASSUME NamesHold, MineNames
    PROVE  NamesHold' /\ SafeStep
<1> DEFINE residues == [k \in Listed |-> ResidueOf(k)]
           found == [k \in Listed |-> candidatesFrom(residues[k])]
<1>1. /\ mined' = mineProducerCandidates(shelves, residues)
      /\ UNCHANGED <<shelves, maker, register, synonyms, lookedUp, onScreen, answers>>
  BY Zenon DEF MineNames
<1>2. ASSUME NEW c \in mined' PROVE MinedWell(c)
  <2>1. c \in FrequentOf(shelves, residues)
    <3>1. c \in mineProducerCandidates(shelves, residues) BY <1>1, <1>2
    <3> QED BY <3>1, Zenon DEF mineProducerCandidates, dedupeByContainment
  <2>2. c \in Frequent(shelves, found) BY <2>1, Zenon DEF FrequentOf, Listed
  <2> HIDE DEF found
  <2>3. /\ c.person = looksLikeHungarianPersonName(c.name)
        /\ \E k \in Listed : \E f \in found[k] : f.name = c.name
    BY <2>2, FrequentAre DEF Listed
  <2>4. PICK k \in Listed : \E f \in found[k] : f.name = c.name BY <2>3
  <2>5. k[2] \in Seq(Range(Alphabet)) BY NamesAssumption DEF NamesHold, Listed
  <2>6. ResidueOf(k) \in Seq(Range(Alphabet)) BY <2>5, ResidueIsName DEF ResidueOf
  <2>7. \E f \in candidatesFrom(ResidueOf(k)) : f.name = c.name BY <2>4 DEF found
  <2>8. IsName(c.name) BY <2>6, <2>7, CandidatesAreNames, NamesAssumption
  <2> QED BY <2>3, <2>8 DEF MinedWell, looksLike
<1> QED BY <1>1, <1>2, RegisterKeeps DEF NamesHold

LEMMA LookUpNameSafe ==
    ASSUME NamesHold, LookUpName
    PROVE  NamesHold' /\ SafeStep
<1>1. PICK c \in mined : /\ mined' = mined \ {c}
                         /\ lookedUp'.candidate = c
  BY DEF LookUpName
<1>2. UNCHANGED <<shelves, maker, register, synonyms, onScreen, answers>> BY DEF LookUpName
<1> QED BY <1>1, <1>2, RegisterKeeps DEF NamesHold

LEMMA WriteNameSafe ==
    ASSUME NamesHold, WriteName
    PROVE  NamesHold' /\ SafeStep
<1> DEFINE c == lookedUp.candidate
           mineOf(st, fuzzy) ==
               [status |-> st, fuzzy |-> fuzzy, score |-> c.score, person |-> c.person]
           new == mineOf("proposed", c.person)
           added == [n \in DOMAIN register \cup {c.name} |->
                       IF n \in DOMAIN register THEN register[n] ELSE new]
           again == [register EXCEPT ![c.name] = mineOf(@.status, c.person)]
<1>1. /\ lookedUp # NoEntry /\ lookedUp' = NoEntry
      /\ UNCHANGED <<shelves, maker, synonyms, mined, onScreen, answers>>
      /\ \/ register' = register
         \/ register' = added
         \/ c.name \in DOMAIN register /\ register' = again
  BY Zenon DEF WriteName
<1>2. IsName(c.name) /\ c.person = looksLike(c.name) BY <1>1 DEF NamesHold, MinedWell
<1>3. /\ \A n \in DOMAIN register :
            n \in DOMAIN register' /\ register'[n].status = register[n].status
      /\ \A n \in DOMAIN register' : RowIsOf(register'[n], n)
  <2>1. CASE register' = register BY <2>1 DEF NamesHold
  <2>2. CASE register' = added
    <3>1. /\ DOMAIN added = DOMAIN register \cup {c.name}
          /\ \A n \in DOMAIN register : added[n] = register[n]
          /\ c.name \notin DOMAIN register => added[c.name] = new
      <4> HIDE DEF new
      <4> QED OBVIOUS
    <3>2. RowIsOf(new, c.name) BY <1>2 DEF RowIsOf
    <3> HIDE DEF added, new, c
    <3> QED BY <2>2, <3>1, <3>2 DEF NamesHold
  <2>3. CASE c.name \in DOMAIN register /\ register' = again
    <3> DEFINE row1 == mineOf(register[c.name].status, c.person)
    <3>1. RowIsOf(row1, c.name) /\ row1.status = register[c.name].status
      BY <1>2 DEF RowIsOf
    <3>2. /\ DOMAIN again = DOMAIN register
          /\ \A n \in DOMAIN register : again[n] = IF n = c.name THEN row1 ELSE register[n]
      OBVIOUS
    <3> HIDE DEF again, row1, c
    <3> QED BY <2>3, <3>1, <3>2 DEF NamesHold
  <2> QED BY <1>1, <2>1, <2>2, <2>3
<1> QED BY <1>1, <1>3, RegisterKeeps DEF NamesHold

(* The row that carries the others on is in force when one of them is.     *)
LEMMA SurvivorInForce ==
    ASSUME NEW members \in SUBSET DOMAIN register, NEW keep \in pickSurvivor(members),
           NEW n \in members, InForce(n)
    PROVE  InForce(keep)
<1> SUFFICES ASSUME register[keep].status # "active" PROVE FALSE
  BY DEF pickSurvivor, InForce
<1> DEFINE active(r) == IF register[r].status = "active" THEN 1 ELSE 0
           weights(r) == <<active(r), Linked(r), -Len(r), register[r].score>>
<1>1. weights(n)[1] = 1 /\ weights(keep)[1] = 0 BY DEF InForce
<1>2. \E i \in 1..4 : /\ weights(n)[i] > weights(keep)[i]
                      /\ \A j \in 1..(i - 1) : weights(n)[j] = weights(keep)[j]
  <2>1. 1 \in 1..4 /\ 1..(1 - 1) = {} OBVIOUS
  <2> HIDE DEF weights
  <2> QED BY <1>1, <2>1
<1>3. Outweighs(n, keep) BY <1>2, Zenon DEF Outweighs
<1> QED BY <1>3 DEF pickSurvivor

LEMMA SeeGroupSafe ==
    ASSUME NamesHold, SeeGroup
    PROVE  NamesHold' /\ SafeStep
<1>1. PICK g \in groupMergeCandidates : \E keep \in pickSurvivor(g) :
          onScreen' = [keep |-> keep,
                       merge |-> {n \in g : Suggested(n, keep, producerMergeKey(keep)) = "merge"},
                       discard |-> {n \in g : Suggested(n, keep, producerMergeKey(keep)) = "discard"}]
  BY Zenon DEF SeeGroup
<1>2. PICK keep \in pickSurvivor(g) :
          onScreen' = [keep |-> keep,
                       merge |-> {n \in g : Suggested(n, keep, producerMergeKey(keep)) = "merge"},
                       discard |-> {n \in g : Suggested(n, keep, producerMergeKey(keep)) = "discard"}]
  BY <1>1
<1>3. UNCHANGED <<shelves, maker, register, synonyms, mined, lookedUp, answers>> BY DEF SeeGroup
<1>4. g \in SUBSET DOMAIN register BY DEF groupMergeCandidates, GroupOf
<1>5. ASSUME NEW n \in g, NEW key, Suggested(n, keep, key) \in {"merge", "discard"}
      PROVE  n # keep /\ ~looksLike(n)
  <2>1. n # keep BY <1>5 DEF Suggested
  <2>2. ~register[n].person
    <3>1. CASE register[n].person
      <4>1. Suggested(n, keep, key) = "separate" BY <2>1, <3>1 DEF Suggested
      <4> QED BY <1>5, <4>1
    <3> QED BY <3>1
  <2> QED BY <1>4, <2>1, <2>2 DEF NamesHold, RowIsOf
<1> DEFINE merge == {n \in g : Suggested(n, keep, producerMergeKey(keep)) = "merge"}
           discard == {n \in g : Suggested(n, keep, producerMergeKey(keep)) = "discard"}
<1>6. \A n \in merge \cup discard : n # keep /\ ~looksLike(n) BY <1>5
<1>7. (\E n \in merge : InForce(n)) => InForce(keep) BY <1>4, SurvivorInForce
<1>8. onScreen'.keep = keep /\ onScreen'.merge = merge /\ onScreen'.discard = discard BY <1>2
<1>9. merge \subseteq DOMAIN register BY <1>4
<1>10. \A n : InForce(n)' <=> InForce(n) BY <1>3 DEF InForce
<1> HIDE DEF merge, discard
<1>11. NamesHold' BY <1>3, <1>6, <1>7, <1>8, <1>9, <1>10 DEF NamesHold, Listed
<1>12. SafeStep BY <1>3 DEF SafeStep, NamesHold, InForce, looksLike
<1> QED BY <1>11, <1>12

LEMMA FollowSuggestionSafe ==
    ASSUME NamesHold, FollowSuggestion
    PROVE  NamesHold' /\ SafeStep
<1> DEFINE keep == onScreen.keep
           merge == onScreen.merge
           named == {<<n, keep>> : n \in {m \in merge : aliasUseful(m, producerMergeKey(keep))}}
           discarded == {n \in onScreen.discard : Linked(n) = 0}
           kept == [n \in DOMAIN register \ merge |->
                      [register[n] EXCEPT !.status = IF n \in discarded THEN "retired" ELSE @]]
<1>1. /\ onScreen # NoEntry /\ onScreen' = NoEntry
      /\ maker' = [k \in Listed |-> IF maker[k] \in merge THEN keep ELSE maker[k]]
      /\ synonyms' = {IF a[2] \in merge THEN <<a[1], keep>> ELSE a : a \in synonyms \cup named}
      /\ register' = kept
      /\ UNCHANGED <<shelves, mined, lookedUp, answers>>
  BY Zenon DEF FollowSuggestion
<1>2. /\ merge \subseteq DOMAIN register
      /\ \A n \in merge \cup onScreen.discard : n # keep /\ ~looksLike(n)
      /\ (\E n \in merge : InForce(n)) => InForce(keep)
  BY <1>1 DEF NamesHold
<1>3. \A n \in discarded : ~looksLike(n) /\ n # keep /\ \A k \in Listed : maker[k] # n
  BY <1>2, NoneLinked
<1> HIDE DEF discarded, keep, merge
<1>4. /\ DOMAIN register' = DOMAIN register \ merge
      /\ \A n \in DOMAIN register \ merge :
            /\ RowIsOf(register'[n], n)
            /\ register'[n].status = IF n \in discarded THEN "retired" ELSE register[n].status
  <2>1. DOMAIN register' = DOMAIN register \ merge BY <1>1
  <2>2. ASSUME NEW n \in DOMAIN register \ merge
        PROVE  /\ RowIsOf(register'[n], n)
               /\ register'[n].status = IF n \in discarded THEN "retired" ELSE register[n].status
    <3>1. RowIsOf(register[n], n) BY DEF NamesHold
    <3>2. register'[n] = [register[n] EXCEPT !.status = IF n \in discarded THEN "retired"
                                                        ELSE register[n].status]
      BY <1>1
    <3> QED BY <3>1, <3>2 DEF RowIsOf
  <2> QED BY <2>1, <2>2
<1>5. ASSUME NEW k \in Listed, maker'[k] # NoEntry
      PROVE  maker'[k] \in DOMAIN register' /\ register'[maker'[k]].status = "active"
  <2>1. CASE maker[k] \in merge
    <3>0. maker'[k] = keep BY <1>1, <2>1
    <3>1. keep \notin merge /\ keep \notin discarded BY <1>2, <1>3
    <3>2. CASE maker[k] = NoEntry
      <4>1. RowIsOf(register[NoEntry], NoEntry) BY <1>2, <2>1, <3>2 DEF NamesHold
      <4> QED BY <4>1 DEF RowIsOf, IsName
    <3>3. CASE maker[k] # NoEntry
      <4>1. InForce(maker[k]) BY <3>3 DEF NamesHold
      <4>2. InForce(keep) BY <1>2, <2>1, <4>1
      <4> QED BY <1>4, <3>0, <3>1, <4>2 DEF InForce
    <3> QED BY <3>2, <3>3
  <2>2. CASE maker[k] \notin merge
    <3>1. maker'[k] = maker[k] BY <1>1, <2>2
    <3>2. InForce(maker[k]) BY <1>5, <3>1 DEF NamesHold
    <3>3. maker[k] \notin discarded BY <1>3
    <3> QED BY <1>4, <2>2, <3>1, <3>2, <3>3 DEF InForce
  <2> QED BY <2>1, <2>2
<1>6. ASSUME NEW a \in synonyms' PROVE IsName(a[1]) /\ ~looksLike(a[1])
  <2>1. PICK b \in synonyms \cup named : a = IF b[2] \in merge THEN <<b[1], keep>> ELSE b
    BY <1>1, <1>6
  <2>2. a[1] = b[1] BY <2>1
  <2>3. CASE b \in synonyms BY <2>2, <2>3 DEF NamesHold
  <2>4. CASE b \in named
    <3>1. b[1] \in merge BY <2>4
    <3> QED BY <1>2, <2>2, <3>1 DEF NamesHold, RowIsOf
  <2> QED BY <2>3, <2>4
<1> HIDE DEF named, kept
<1>7. NamesHold'
  <2>1. (\A k \in Listed : maker[k] # NoEntry => InForce(maker[k]))'
    BY <1>1, <1>5 DEF InForce, Listed
  <2>2. (\A n \in DOMAIN register : RowIsOf(register[n], n))' BY <1>4
  <2> QED BY <1>1, <1>6, <2>1, <2>2 DEF NamesHold
<1>8. SafeStep
  <2>1. ASSUME NEW k \in Listed, maker'[k] # maker[k],
               maker[k] = NoEntry \/ looksLikeHungarianPersonName(maker[k])
        PROVE  NamedIn(k, maker'[k])
    <3>1. maker[k] \in merge BY <1>1, <2>1
    <3>2. maker[k] = NoEntry BY <1>2, <2>1, <3>1 DEF looksLike
    <3>3. RowIsOf(register[NoEntry], NoEntry) BY <1>2, <3>1, <3>2 DEF NamesHold
    <3> QED BY <3>3 DEF RowIsOf, IsName
  <2>2. ASSUME NEW n \in DOMAIN register, looksLikeHungarianPersonName(n)
        PROVE  n \in DOMAIN register' /\ register'[n].status = register[n].status
    <3>1. n \notin merge /\ n \notin discarded BY <1>2, <1>3, <2>2 DEF looksLike
    <3> QED BY <1>4, <3>1
  <2> QED BY <1>5, <1>6, <2>1, <2>2 DEF SafeStep, looksLike
<1> QED BY <1>7, <1>8

(* The buttons of one name.  The row of a name of which there are listings *)
(* is in force, and stays so: only RevokeName asks, and only that there    *)
(* are none.                                                               *)
LEMMA SetStatusSafe ==
    ASSUME NamesHold, NEW n \in DOMAIN register, NEW st, NEW fuzzy,
           SetStatus(n, st, fuzzy),
           st = "active" \/ \A k \in Listed : maker[k] # n
    PROVE  NamesHold' /\ SafeStep
<1> DEFINE after == [register EXCEPT ![n].status = st, ![n].fuzzy = fuzzy]
           row1 == [register[n] EXCEPT !.status = st, !.fuzzy = fuzzy]
<1>1. /\ answers' = answers + 1 /\ onScreen = NoEntry
      /\ register' = after
      /\ UNCHANGED <<shelves, maker, synonyms, mined, lookedUp, onScreen>>
  BY DEF SetStatus
<1>2. /\ DOMAIN register' = DOMAIN register
      /\ \A m \in DOMAIN register : m # n => register'[m] = register[m]
      /\ register'[n].status = st
      /\ RowIsOf(register'[n], n)
  <2>1. RowIsOf(register[n], n) BY DEF NamesHold
  <2>2. RowIsOf(row1, n) /\ row1.status = st BY <2>1 DEF RowIsOf
  <2>3. /\ DOMAIN after = DOMAIN register
        /\ \A m \in DOMAIN register : after[m] = IF m = n THEN row1 ELSE register[m]
    OBVIOUS
  <2> HIDE DEF after, row1
  <2> QED BY <1>1, <2>2, <2>3
<1>3. \A k \in Listed : maker'[k] # NoEntry => InForce(maker[k])'
  BY <1>1, <1>2 DEF NamesHold, InForce
<1>4. answers' \in Nat /\ answers' # answers BY <1>1 DEF NamesHold
<1>5. NamesHold'
  <2>1. (\A m \in DOMAIN register : RowIsOf(register[m], m))' BY <1>2 DEF NamesHold
  <2>2. (\A k \in Listed : maker[k] # NoEntry => InForce(maker[k]))'
    BY <1>1, <1>3 DEF Listed
  <2> QED BY <1>1, <1>4, <2>1, <2>2 DEF NamesHold
<1>6. SafeStep BY <1>1, <1>3, <1>4 DEF SafeStep, NamesHold, InForce, looksLike
<1> QED BY <1>5, <1>6

LEMMA NamesStepHolds ==
    ASSUME NamesHold, [NamesNext]_nameVars
    PROVE  NamesHold' /\ (UNCHANGED nameVars \/ SafeStep)
<1>1. CASE ReadAgain BY <1>1, ReadAgainSafe
<1>2. CASE MineNames BY <1>2, MineNamesSafe
<1>3. CASE LookUpName BY <1>3, LookUpNameSafe
<1>4. CASE WriteName BY <1>4, WriteNameSafe
<1>5. CASE SeeGroup BY <1>5, SeeGroupSafe
<1>6. CASE LeaveScreen
  <2>1. onScreen' = NoEntry
        /\ UNCHANGED <<shelves, maker, register, synonyms, mined, lookedUp, answers>>
    BY <1>6 DEF LeaveScreen
  <2> QED BY <2>1, RegisterKeeps DEF NamesHold
<1>7. CASE FollowSuggestion BY <1>7, FollowSuggestionSafe
<1>8. CASE \E n \in DOMAIN register : ApproveName(n) \/ RejectName(n) \/ RevokeName(n)
  <2>1. PICK n \in DOMAIN register : ApproveName(n) \/ RejectName(n) \/ RevokeName(n)
    BY <1>8
  <2>2. CASE ApproveName(n) BY <2>2, SetStatusSafe DEF ApproveName
  <2>3. CASE RejectName(n)
    <3>1. \A k \in Listed : maker[k] # n
      <4>1. n # NoEntry BY DEF NamesHold, RowIsOf, IsName
      <4> QED BY <2>3, <4>1 DEF RejectName, NamesHold, InForce
    <3> QED BY <2>3, <3>1, SetStatusSafe DEF RejectName
  <2>4. CASE RevokeName(n)
    <3>1. \A k \in Listed : maker[k] # n BY <2>4, NoneLinked DEF RevokeName
    <3> QED BY <2>4, <3>1, SetStatusSafe DEF RevokeName
  <2> QED BY <2>1, <2>2, <2>3, <2>4
<1>9. CASE UNCHANGED nameVars
  <2>1. UNCHANGED <<shelves, maker, register, synonyms, mined, lookedUp, onScreen, answers>>
    BY <1>9 DEF nameVars
  <2> QED BY <1>9, <2>1, RegisterKeeps DEF NamesHold
<1> QED BY <1>1, <1>2, <1>3, <1>4, <1>5, <1>6, <1>7, <1>8, <1>9 DEF NamesNext

LEMMA NamesHoldAtFirst ==
    ASSUME NamesInit
    PROVE  NamesHold
<1>1. DOMAIN register = {} BY DEF NamesInit
<1> QED BY <1>1 DEF NamesInit, NamesHold, Listed

LEMMA NamesAlwaysHold ==
    NamesSpec => []NamesHold
<1>1. NamesInit => NamesHold BY NamesHoldAtFirst
<1>2. NamesHold /\ [NamesNext]_nameVars => NamesHold' BY NamesStepHolds
<1> QED BY <1>1, <1>2, PTL DEF NamesSpec

(* Whoever follows the suggestions cannot go wrong, for any stock of names *)
(* and any vocabulary of the wines.                                        *)
THEOREM FollowingIsSafe ==
    NamesSpec => SuggestionsAreSafe
<1>1. (UNCHANGED nameVars \/ SafeStep) <=>
      [/\ \A k \in Listed :
             /\ maker'[k] # NoEntry =>
                   maker'[k] \in DOMAIN register' /\ register'[maker'[k]].status = "active"
             /\ maker'[k] # maker[k]
                   /\ (maker[k] = NoEntry \/ looksLikeHungarianPersonName(maker[k])) =>
                   NamedIn(k, maker'[k])
       /\ \A n \in DOMAIN register :
             looksLikeHungarianPersonName(n) /\ answers' = answers =>
                n \in DOMAIN register' /\ register'[n].status = register[n].status
       /\ \A a \in synonyms' : ~looksLikeHungarianPersonName(a[1])]_nameVars
  BY DEF SafeStep
<1>2. NamesHold /\ [NamesNext]_nameVars => (UNCHANGED nameVars \/ SafeStep) BY NamesStepHolds
<1> QED BY <1>1, <1>2, NamesAlwaysHold, PTL DEF NamesSpec, SuggestionsAreSafe

(* Of numbers that are positions or lengths.                               *)
LEMMA PartOfPart ==
    ASSUME NEW i \in Nat, NEW j \in Nat, NEW n \in 1..4, i + n - 1 = j,
           NEW m \in Nat, m <= n, m >= 1
    PROVE  i <= i + m - 1 /\ i + m - 1 - i + 1 = m
OBVIOUS

LEMMA FourIsLess ==
    ASSUME NEW x \in Nat, NEW y \in Nat, NEW a \in 1..4, NEW b \in 1..4
    PROVE  (x + 5 <= y => x + a < y + b) /\ (x <= y => x + a \in 0..(y + 4))
OBVIOUS

LEMMA PartIs ==
    ASSUME NEW T, NEW s \in Seq(T), NEW a \in 1..Len(s), NEW b \in 1..Len(s), a <= b
    PROVE  SubSeq(s, a, b) \in Seq(T) /\ Len(SubSeq(s, a, b)) = b - a + 1
<1>1. SubSeq(s, a, b) \in Seq(T) OBVIOUS
<1>2. Len(SubSeq(s, a, b)) = b - a + 1 OBVIOUS
<1> QED BY <1>1, <1>2

LEMMA PartsAt ==
    ASSUME NEW T, NEW s \in Seq(T), NEW a \in 1..Len(s), NEW b \in 1..Len(s), a <= b,
           NEW x \in 1..(b - a + 1)
    PROVE  SubSeq(s, a, b)[x] = s[a + x - 1]
OBVIOUS

(* A word of the sequence that a name ends on is one of its own.           *)
LEMMA EdgesOfNames ==
    ASSUME NEW T, NEW d \in Seq(T), NEW c \in Seq(T), isEdgeSubsequence(d, c)
    PROVE  /\ Len(d) < Len(c)
           /\ \/ \A i \in 1..Len(d) : d[i] = c[i]
              \/ \A i \in 1..Len(d) : d[i] = c[Len(c) - Len(d) + i]
<1>1. Len(d) \in Nat /\ Len(c) \in Nat /\ Len(d) < Len(c) BY DEF isEdgeSubsequence
<1>2. CASE IsPrefix(d, c)
  <2>1. SubSeq(d, 1, Len(d)) = SubSeq(c, 1, Len(d)) BY <1>2 DEF IsPrefix
  <2>2. \A i \in 1..Len(d) : SubSeq(d, 1, Len(d))[i] = d[i] /\ SubSeq(c, 1, Len(d))[i] = c[i]
    BY <1>1
  <2>3. \A i \in 1..Len(d) : d[i] = c[i] BY <2>1, <2>2
  <2> QED BY <1>1, <2>3
<1>3. CASE IsSuffix(d, c)
  <2> DEFINE m == Len(d)
             n == Len(c)
             rd == Reverse(d)
             rc == Reverse(c)
  <2>0. m \in Nat /\ n \in Nat /\ m < n BY <1>1
  <2>1. /\ rd = [i \in 1..m |-> d[(m - i) + 1]]
        /\ rc = [i \in 1..n |-> c[(n - i) + 1]]
    BY DEF Reverse
  <2>2. rd \in Seq(T) /\ rc \in Seq(T) /\ Len(rd) = m /\ Len(rc) = n
    <3>1. \A i \in 1..m : d[(m - i) + 1] \in T
      <4>1. \A i \in 1..m : (m - i) + 1 \in 1..m BY <1>1
      <4> QED BY <4>1, ElementOfSeq
    <3>2. \A i \in 1..n : c[(n - i) + 1] \in T
      <4>1. \A i \in 1..n : (n - i) + 1 \in 1..n BY <1>1
      <4> QED BY <4>1, ElementOfSeq
    <3> HIDE DEF m, n
    <3>3. rd \in [1..m -> T] /\ rc \in [1..n -> T] BY <2>1, <3>1, <3>2
    <3> HIDE DEF rd, rc
    <3> QED BY <2>0, <3>3
  <2>3. SubSeq(rd, 1, Len(rd)) = SubSeq(rc, 1, Len(rd)) BY <1>3 DEF IsSuffix, IsPrefix
  <2> HIDE DEF rd, rc, m, n
  <2>4. \A i \in 1..m : SubSeq(rd, 1, m)[i] = rd[i] /\ SubSeq(rc, 1, m)[i] = rc[i]
    BY <2>0, <2>2
  <2>5. \A i \in 1..m : rd[i] = rc[i] BY <2>2, <2>3, <2>4
  <2>6. ASSUME NEW i \in 1..m PROVE d[i] = c[n - m + i]
    <3> DEFINE j == m - i + 1
    <3>1. j \in 1..m /\ j \in 1..n /\ (m - j) + 1 = i /\ (n - j) + 1 = n - m + i BY <2>0
    <3> HIDE DEF j
    <3>2. rd[j] = d[i] /\ rc[j] = c[n - m + i] BY <2>1, <3>1
    <3> QED BY <2>5, <3>1, <3>2
  <2> QED BY <1>1, <2>6 DEF m, n
<1> QED BY <1>2, <1>3 DEF isEdgeSubsequence

(* A part of a name that is one of the two kinds is among its candidates.  *)
LEMMA PartsAreCandidates ==
    ASSUME NEW rest, NEW i \in DOMAIN rest, NEW j \in DOMAIN rest, j - i \in 0..3,
           \/ i = 1 /\ j <= 3
           \/ i # j /\ (rest[i] \in PREFIX_MARKERS \/ rest[j] \in SUFFIX_MARKERS),
           Nameable(SubSeq(rest, i, j))
    PROVE  \E f \in candidatesFrom(rest) : f.name = SubSeq(rest, i, j)
<1> DEFINE spans == {s \in (DOMAIN rest) \X (DOMAIN rest) : s[2] - s[1] \in 0..3}
           leading(s) == s[1] = 1 /\ s[2] <= 3
           marked(s) == s[1] # s[2] /\ (rest[s[1]] \in PREFIX_MARKERS \/ rest[s[2]] \in SUFFIX_MARKERS)
           named(s) == SubSeq(rest, s[1], s[2])
           taken == {s \in spans : (leading(s) \/ marked(s)) /\ Nameable(named(s))}
           lead(n) == \E s \in taken : named(s) = n /\ s[1] = 1
           mark(n) == \E s \in taken : named(s) = n /\ marked(s)
           cand(n) == [name |-> n, leading |-> lead(n), marker |-> mark(n)]
           t == <<i, j>>
           name == SubSeq(rest, i, j)
<1>1. candidatesFrom(rest) = {cand(n) : n \in {named(s) : s \in taken}}
  BY Zenon DEF candidatesFrom
<1>2. t \in taken /\ named(t) = name
  <2>1. t \in spans /\ t[1] = i /\ t[2] = j OBVIOUS
  <2>2. named(t) = name BY <2>1
  <2>3. leading(t) \/ marked(t) BY <2>1
  <2>4. Nameable(named(t)) BY <2>2
  <2> HIDE DEF spans, leading, marked, named, t
  <2> QED BY <2>1, <2>2, <2>3, <2>4
<1>3. cand(name).name = name
  <2> HIDE DEF lead, mark, name
  <2> QED OBVIOUS
<1>4. name \in {named(s) : s \in taken}
  <2> HIDE DEF taken, named, name
  <2> QED BY <1>2
<1>5. cand(name) \in candidatesFrom(rest)
  <2> HIDE DEF taken, named, name, cand
  <2> QED BY <1>1, <1>4
<1> HIDE DEF cand
<1> QED BY <1>3, <1>5

(* What a longer name has more is only words of the wine: then the shorter *)
(* one is found wherever the longer is.                                    *)
LEMMA WineWordsTrail ==
    ASSUME NEW T, NoEntry \notin Seq(T), NEW rest \in Seq(T), RepeatsNoWord(rest),
           NEW f \in candidatesFrom(rest),
           NEW d \in Seq(T), IsName(d), Nameable(d), isEdgeSubsequence(d, f.name),
           TokensOf(f.name) \ TokensOf(d) \subseteq WINE_TERMS
    PROVE  \E e \in candidatesFrom(rest) : e.name = d
<1> DEFINE c == f.name
<1>1. PICK i \in DOMAIN rest : \E j \in DOMAIN rest :
          /\ i <= j /\ j - i <= 3 /\ c = SubSeq(rest, i, j)
          /\ \/ i = 1 /\ j <= 3
             \/ i # j /\ (rest[i] \in PREFIX_MARKERS \/ rest[j] \in SUFFIX_MARKERS)
  BY CandidatesAreNames
<1>2. PICK j \in DOMAIN rest :
          /\ i <= j /\ j - i <= 3 /\ c = SubSeq(rest, i, j)
          /\ \/ i = 1 /\ j <= 3
             \/ i # j /\ (rest[i] \in PREFIX_MARKERS \/ rest[j] \in SUFFIX_MARKERS)
  BY <1>1
<1>3. IsName(c) /\ Nameable(c) BY CandidatesAreNames
<1> HIDE DEF c
<1> DEFINE m == Len(d)
           n == j - i + 1
<1>4. /\ i \in 1..Len(rest) /\ j \in 1..Len(rest) /\ Len(rest) \in Nat
      /\ i <= j /\ j - i <= 3
  BY <1>2
<1>16. i \in Nat /\ j \in Nat /\ n \in 1..4 /\ i + n - 1 = j BY <1>4
<1>5. /\ c \in Seq(T) /\ Len(c) = n /\ n \in 1..4
      /\ \A x \in 1..n : c[x] = rest[i + x - 1]
  <2>1. c = SubSeq(rest, i, j) BY <1>2
  <2> HIDE DEF n
  <2>2. n = j - i + 1 BY DEF n
  <2>3. c \in Seq(T) BY <1>4, <2>1, PartIs
  <2>4. Len(c) = j - i + 1 BY <1>4, <2>1, PartIs
  <2>5. ASSUME NEW x \in 1..(j - i + 1) PROVE c[x] = rest[i + x - 1]
    BY <1>4, <2>1, <2>5, PartsAt
  <2> QED BY <1>16, <2>2, <2>3, <2>4, <2>5
<1>6. /\ m \in 1..(n - 1)
      /\ \/ \A x \in 1..m : d[x] = c[x]
         \/ \A x \in 1..m : d[x] = c[n - m + x]
  <2>1. m \in Nat \ {0} BY DEF IsName
  <2>2. isEdgeSubsequence(d, c) BY DEF c
  <2> HIDE DEF n, m
  <2>3. /\ m < n
        /\ \/ \A x \in 1..m : d[x] = c[x]
           \/ \A x \in 1..m : d[x] = c[n - m + x]
    BY <1>5, <2>2, EdgesOfNames DEF m
  <2> QED BY <1>5, <2>1, <2>3
<1>7. DOMAIN c = 1..n /\ DOMAIN d = 1..m /\ DOMAIN rest = 1..Len(rest) BY <1>5, <1>6
<1>8. \A x, y \in 1..n : c[x] = c[y] => x = y
  <2> SUFFICES ASSUME NEW x \in 1..n, NEW y \in 1..n, c[x] = c[y] PROVE x = y OBVIOUS
  <2>1. i + x - 1 \in DOMAIN rest /\ i + y - 1 \in DOMAIN rest BY <1>4, <1>7
  <2>2. rest[i + x - 1] = rest[i + y - 1] BY <1>5
  <2>3. i + x - 1 = i + y - 1 BY <2>1, <2>2 DEF RepeatsNoWord
  <2> QED BY <1>4, <2>3
<1> HIDE DEF n, m
<1>9. ASSUME NEW x \in 1..n PROVE c[x] \in WINE_TERMS \/ \E y \in 1..m : d[y] = c[x]
  BY <1>7, <1>9 DEF TokensOf, c
\* it stands at the front
<1>10. \A x \in 1..m : d[x] = c[x]
  <2> SUFFICES ASSUME \A x \in 1..m : d[x] = c[n - m + x] PROVE FALSE BY <1>6
  <2>1. c[1] \notin WINE_TERMS BY <1>3 DEF Nameable, isNoise
  <2>2. PICK y \in 1..m : d[y] = c[1] BY <1>5, <1>9, <2>1
  <2>3. c[n - m + y] = c[1] /\ n - m + y \in 1..n /\ n - m + y # 1 BY <1>5, <1>6, <2>2
  <2> QED BY <1>5, <1>8, <2>3
<1> DEFINE last == i + m - 1
<1>11. last \in DOMAIN rest /\ last - i \in 0..3 /\ last < j
  BY <1>4, <1>6, <1>7 DEF n
<1>12. d = SubSeq(rest, i, last)
  <2>0. m \in Nat /\ last \in 1..Len(rest) /\ i <= last /\ last - i + 1 = m /\ m <= n
    <3>1. last \in 1..Len(rest) BY <1>7, <1>11
    <3>2. m \in Nat /\ m <= n /\ m >= 1 BY <1>6, <1>16
    <3>3. i <= i + m - 1 /\ i + m - 1 - i + 1 = m BY <1>16, <3>2, PartOfPart
    <3>4. last = i + m - 1 OBVIOUS
    <3> HIDE DEF last
    <3> QED BY <3>1, <3>2, <3>3, <3>4
  <2> HIDE DEF last
  <2>1. SubSeq(rest, i, last) \in Seq(T) /\ Len(SubSeq(rest, i, last)) = m
    BY <1>4, <2>0
  <2>2. \A x \in 1..m : SubSeq(rest, i, last)[x] = rest[i + x - 1]
    BY <1>4, <2>0, PartsAt
  <2>3. ASSUME NEW x \in 1..m PROVE d[x] = SubSeq(rest, i, last)[x]
    <3>1. x \in 1..n BY <2>0, <1>16
    <3>2. d[x] = c[x] /\ c[x] = rest[i + x - 1] BY <1>5, <1>10, <3>1
    <3> QED BY <2>2, <3>2
  <2> QED
    <3> DEFINE part == SubSeq(rest, i, last)
    <3>1. part \in Seq(T) /\ Len(part) = Len(d) BY <2>1 DEF m
    <3>2. \A x \in 1..Len(d) : d[x] = part[x] BY <2>3 DEF m
    <3> HIDE DEF part
    <3> QED BY <3>1, <3>2, SeqEqual DEF part
\* and is one of the two kinds
<1>13. CASE i = 1 /\ j <= 3
  <2>1. i = 1 /\ last <= 3 BY <1>4, <1>6, <1>11, <1>13
  <2> HIDE DEF last
  <2> QED BY <1>11, <1>12, <2>1, PartsAreCandidates
<1>14. CASE i # j /\ rest[i] \in PREFIX_MARKERS
  <2>1. d[1] = rest[i] BY <1>4, <1>5, <1>6, <1>10
  <2>2. m # 1
    <3> SUFFICES ASSUME m = 1 PROVE FALSE OBVIOUS
    <3>1. TokensOf(d) = {d[1]} BY <1>7 DEF TokensOf
    <3> QED BY <1>14, <2>1, <3>1 DEF Nameable
  <2>3. i # last BY <1>4, <1>6, <2>2
  <2> HIDE DEF last
  <2> QED BY <1>11, <1>12, <1>14, <2>3, PartsAreCandidates
<1>15. CASE rest[j] \in SUFFIX_MARKERS
  <2>1. c[n] = rest[j]
    <3>1. i + n - 1 = j /\ n \in 1..n BY <1>16
    <3> QED BY <1>5, <3>1
  <2>2. c[n] \notin WINE_TERMS BY <1>15, <2>1 DEF SUFFIX_MARKERS, WINE_TERMS
  <2>3. PICK y \in 1..m : d[y] = c[n] BY <1>5, <1>9, <2>2
  <2>4. y = n BY <1>5, <1>6, <1>8, <1>10, <2>3
  <2> QED BY <1>5, <1>6, <2>4
<1> QED BY <1>2, <1>13, <1>14, <1>15

-----------------------------------------------------------------------------
(* Why a name is left out for another one.                                 *)
GoesFor(c, d) ==
    \/ isEdgeSubsequence(c.name, d.name) /\ c.count = d.count
    \/ /\ isEdgeSubsequence(d.name, c.name) /\ c.count # d.count
       /\ TokensOf(c.name) \ TokensOf(d.name) # {}
       /\ TokensOf(c.name) \ TokensOf(d.name) \subseteq WINE_TERMS

LEMMA SupersededGo ==
    /\ \A cands, c : c \in Superseded(cands) <=> c \in cands /\ \E d \in cands : GoesFor(c, d)
    /\ \A c, d : GoesFor(c, d) => c \in Superseded({c, d})
<1>1. \A cands, c : c \in Superseded(cands) <=> c \in cands /\ \E d \in cands : GoesFor(c, d)
  BY DEF Superseded, GoesFor
<1>2. ASSUME NEW c, NEW d, GoesFor(c, d) PROVE c \in Superseded({c, d})
  <2>1. c \in {c, d} /\ d \in {c, d} OBVIOUS
  <2> QED BY <1>1, <1>2, <2>1, Zenon
<1> QED BY <1>1, <1>2

LEMMA FivesCompare ==
    ASSUME NEW a \in Nat, NEW b \in Nat
    PROVE  /\ 5 * a \in Nat /\ 5 * b \in Nat
           /\ a <= b => 5 * a <= 5 * b
           /\ a < b => 5 * a + 5 <= 5 * b
OBVIOUS

(* A name that is left out goes for one that is more frequent, or as       *)
(* frequent and longer.                                                    *)
Standing(c) == 5 * c.count + Len(c.name)

FrequentName(T, inputs, found, c) ==
    /\ c.name \in Seq(T) /\ IsName(c.name) /\ Nameable(c.name) /\ Len(c.name) \in 1..4
    /\ c.count = SumOf(inputs, Having(inputs, found, c.name))

LEMMA LeftForHigher ==
    ASSUME NEW T, NoEntry \notin Seq(T),
           NEW inputs, IsFiniteSet(DOMAIN inputs), \A k \in DOMAIN inputs : inputs[k] \in Nat,
           NEW residues, \A k \in DOMAIN inputs : residues[k] \in Seq(T) /\ RepeatsNoWord(residues[k]),
           NEW found, \A k \in DOMAIN inputs : found[k] = candidatesFrom(residues[k]),
           NEW c, FrequentName(T, inputs, found, c),
           NEW d, FrequentName(T, inputs, found, d), GoesFor(c, d)
    PROVE  Standing(c) < Standing(d)
<1> DEFINE withC == Having(inputs, found, c.name)
           withD == Having(inputs, found, d.name)
<1>1. /\ Len(c.name) \in 1..4 /\ Len(d.name) \in 1..4
      /\ c.count = SumOf(inputs, withC) /\ d.count = SumOf(inputs, withD)
  BY DEF FrequentName
<1>2. withC \in SUBSET DOMAIN inputs /\ withD \in SUBSET DOMAIN inputs BY DEF Having
<1> HIDE DEF withC, withD
<1>3. c.count \in Nat /\ d.count \in Nat
  <2>1. SumOf(inputs, withC) \in Nat /\ SumOf(inputs, withD) \in Nat BY <1>2, SumsAreNatural
  <2> QED BY <1>1, <2>1
<1>4. CASE isEdgeSubsequence(c.name, d.name) /\ c.count = d.count
  BY <1>1, <1>3, <1>4 DEF isEdgeSubsequence, Standing
<1>5. CASE /\ isEdgeSubsequence(d.name, c.name) /\ c.count # d.count
           /\ TokensOf(c.name) \ TokensOf(d.name) \subseteq WINE_TERMS
  <2>1. ASSUME NEW k \in withC PROVE k \in withD
    <3>1. k \in DOMAIN inputs /\ \E f \in found[k] : f.name = c.name BY <2>1 DEF withC, Having
    <3>2. PICK f \in candidatesFrom(residues[k]) : f.name = c.name BY <3>1
    <3>3. residues[k] \in Seq(T) /\ RepeatsNoWord(residues[k]) BY <3>1
    <3>4. /\ d.name \in Seq(T) /\ IsName(d.name) /\ Nameable(d.name)
          /\ isEdgeSubsequence(d.name, f.name)
          /\ TokensOf(f.name) \ TokensOf(d.name) \subseteq WINE_TERMS
      BY <1>5, <3>2 DEF FrequentName
    <3>5. \E e \in candidatesFrom(residues[k]) : e.name = d.name
      BY <3>3, <3>4, WineWordsTrail
    <3>6. \E e \in found[k] : e.name = d.name BY <3>1, <3>5
    <3> QED BY <3>1, <3>6 DEF withD, Having
  <2>2. withC \in SUBSET withD BY <2>1
  <2>3. SumOf(inputs, withC) <= SumOf(inputs, withD) BY <1>2, <2>2, SumGrows
  <2>4. c.count < d.count BY <1>1, <1>3, <1>5, <2>3
  <2>5. 5 * c.count \in Nat /\ 5 * d.count \in Nat /\ 5 * c.count + 5 <= 5 * d.count
    BY <1>3, <2>4, FivesCompare
  <2>6. 5 * c.count + Len(c.name) < 5 * d.count + Len(d.name)
    <3> DEFINE x == 5 * c.count
               y == 5 * d.count
    <3>1. x \in Nat /\ y \in Nat /\ x + 5 <= y BY <2>5
    <3> HIDE DEF x, y
    <3>2. x + Len(c.name) < y + Len(d.name) BY <1>1, <3>1, FourIsLess
    <3> QED BY <3>2 DEF x, y
  <2> QED BY <2>6 DEF Standing
<1> QED BY <1>4, <1>5 DEF GoesFor

LEMMA StandsSomewhere ==
    ASSUME NEW inputs, IsFiniteSet(DOMAIN inputs), \A k \in DOMAIN inputs : inputs[k] \in Nat,
           NEW T, NEW found, NEW c, FrequentName(T, inputs, found, c)
    PROVE  Standing(c) \in 0..(5 * SumOf(inputs, DOMAIN inputs) + 4)
<1> DEFINE with == Having(inputs, found, c.name)
           all == SumOf(inputs, DOMAIN inputs)
<1>1. c.count = SumOf(inputs, with) /\ Len(c.name) \in 1..4 BY DEF FrequentName
<1>2. with \in SUBSET DOMAIN inputs BY DEF Having
<1> HIDE DEF with
<1>3. SumOf(inputs, with) <= all BY <1>2, SumGrows
<1>4. SumOf(inputs, with) \in Nat /\ all \in Nat BY <1>2, SumsAreNatural
<1>5. c.count \in Nat /\ c.count <= all BY <1>1, <1>3, <1>4
<1> HIDE DEF all
<1>6. 5 * c.count \in Nat /\ 5 * all \in Nat /\ 5 * c.count <= 5 * all
  BY <1>4, <1>5, FivesCompare
<1>7. 5 * c.count + Len(c.name) \in 0..(5 * all + 4)
  <2> DEFINE x == 5 * c.count
             y == 5 * all
  <2>1. x \in Nat /\ y \in Nat /\ x <= y BY <1>6
  <2> HIDE DEF x, y
  <2>2. x + Len(c.name) \in 0..(y + 4) BY <1>1, <2>1, FourIsLess
  <2> QED BY <2>2 DEF x, y
<1> QED BY <1>7 DEF Standing, all

(* Of the names of any group one stands highest.                           *)
LEMMA OneStandsHighest ==
    ASSUME NEW inputs, IsFiniteSet(DOMAIN inputs), \A k \in DOMAIN inputs : inputs[k] \in Nat,
           NEW T, NEW found, NEW S, S # {}, \A c \in S : FrequentName(T, inputs, found, c)
    PROVE  \E c \in S : \A d \in S : Standing(d) <= Standing(c)
<1> DEFINE all == SumOf(inputs, DOMAIN inputs)
           top == 5 * all + 4
           standings == {Standing(c) : c \in S}
<1>1. all \in Nat BY SumsAreNatural
<1>2. \A c \in S : Standing(c) \in 0..top BY StandsSomewhere
<1>3. top \in Nat BY <1>1
<1>4. standings \in SUBSET (0..top) /\ standings # {} BY <1>2
<1> HIDE DEF standings, top
<1>5. PICK s \in standings : \A r \in standings : r <= s BY <1>3, <1>4, BoundedHasGreatest
<1> QED BY <1>5 DEF standings

(* No winery is lost between names that rule each other out, for any stock *)
(* of names, any vocabulary and any reading of it.                         *)
THEOREM LeftOutForAnother ==
    NamesSpec => []NoNameLost
<1>1. NamesHold => EachGoesForOneKept
  <2> DEFINE residues == [k \in Listed |-> ResidueOf(k)]
             found == [k \in Listed |-> candidatesFrom(residues[k])]
             T == Range(Alphabet)
             frequent == FrequentOf(shelves, residues)
             left == frequent \ dedupeByContainment(frequent)
  <2> SUFFICES ASSUME NamesHold, \A k \in Listed : RepeatsNoWord(ResidueOf(k)),
                      NEW S \in (SUBSET left) \ {{}}
               PROVE  \E c \in S, d \in frequent \ S : c \in Superseded({c, d})
    BY Zenon DEF EachGoesForOneKept
  <2>1. /\ IsFiniteSet(DOMAIN shelves)
        /\ \A k \in DOMAIN shelves : shelves[k] \in Nat
        /\ NoEntry \notin Seq(T)
    BY NamesAssumption DEF NamesHold
  <2>2. \A k \in DOMAIN shelves : residues[k] \in Seq(T) /\ RepeatsNoWord(residues[k])
    <3> SUFFICES ASSUME NEW k \in DOMAIN shelves
                 PROVE  residues[k] \in Seq(T) /\ RepeatsNoWord(residues[k])
      OBVIOUS
    <3>1. residues[k] = ResidueOf(k) /\ RepeatsNoWord(ResidueOf(k)) BY DEF Listed
    <3>2. k[2] \in Seq(T) BY NamesAssumption DEF NamesHold
    <3>3. ResidueOf(k) \in Seq(T) BY <3>2, ResidueIsName DEF ResidueOf
    <3> QED BY <3>1, <3>3
  <2>3. \A k \in DOMAIN shelves : found[k] = candidatesFrom(residues[k])
    <3> HIDE DEF residues
    <3> QED BY DEF Listed
  <2>4. frequent = Frequent(shelves, found) BY Zenon DEF FrequentOf, Listed
  <2> HIDE DEF T, residues, found
  <2>5. ASSUME NEW c \in frequent PROVE FrequentName(T, shelves, found, c)
    <3>1. /\ c.count = SumOf(shelves, Having(shelves, found, c.name))
          /\ \E k \in DOMAIN shelves : \E f \in found[k] : f.name = c.name
      BY <2>4, FrequentAre
    <3>2. PICK k \in DOMAIN shelves : \E f \in found[k] : f.name = c.name BY <3>1
    <3>3. PICK f \in candidatesFrom(residues[k]) : f.name = c.name BY <2>3, <3>2
    <3>4. /\ IsName(f.name) /\ Nameable(f.name)
          /\ \E i, j \in DOMAIN residues[k] :
                i <= j /\ j - i <= 3 /\ f.name = SubSeq(residues[k], i, j)
      BY <2>1, <2>2, CandidatesAreNames
    <3>5. PICK i, j \in DOMAIN residues[k] :
                i <= j /\ j - i <= 3 /\ f.name = SubSeq(residues[k], i, j)
      BY <3>4
    <3>6. f.name \in Seq(T) /\ Len(f.name) \in 1..4 BY <2>2, <3>5
    <3> QED BY <3>1, <3>3, <3>4, <3>6 DEF FrequentName
  <2>6. left = Superseded(frequent)
    <3>1. Superseded(frequent) \subseteq frequent BY SupersededGo
    <3> QED BY <3>1 DEF dedupeByContainment
  <2>7. S # {} /\ S \subseteq frequent /\ \A c \in S : c \in Superseded(frequent)
    <3>1. S # {} /\ S \subseteq left OBVIOUS
    <3>2. left \subseteq frequent OBVIOUS
    <3> HIDE DEF left, frequent
    <3> QED BY <2>6, <3>1, <3>2
  <2> HIDE DEF left, frequent
  <2>8. \A c \in S : FrequentName(T, shelves, found, c) BY <2>5, <2>7
  <2>9. PICK c \in S : \A d \in S : Standing(d) <= Standing(c)
    BY <2>1, <2>7, <2>8, OneStandsHighest
  <2>10. PICK d \in frequent : GoesFor(c, d) BY <2>7, SupersededGo
  <2>11. Standing(c) < Standing(d)
    <3>1. FrequentName(T, shelves, found, c) /\ FrequentName(T, shelves, found, d)
      BY <2>5, <2>8
    <3> QED BY <2>1, <2>2, <2>3, <2>10, <3>1, LeftForHigher
  <2>12. Standing(c) \in Nat /\ Standing(d) \in Nat
    <3>1. FrequentName(T, shelves, found, c) /\ FrequentName(T, shelves, found, d)
      BY <2>5, <2>8
    <3>2. SumOf(shelves, DOMAIN shelves) \in Nat BY <2>1, SumsAreNatural
    <3> QED BY <2>1, <3>1, <3>2, StandsSomewhere
  <2>13. d \notin S BY <2>9, <2>11, <2>12
  <2> QED BY <2>10, <2>13, SupersededGo
<1>2. NamesHold => NoNameLost BY <1>1 DEF NoNameLost
<1>3. NamesSpec => []NamesHold BY NamesAlwaysHold
<1> QED BY <1>2, <1>3, PTL

-----------------------------------------------------------------------------
(* ProducerRegister: who owns a listing while names are put together.      *)
(* q is a producer the name of l leads to.                                 *)
LeadsTo(l, q) == \E p \in ToSet(NamesIn[l]) : MergedInto(p, q)

AliasesMerged == \A a \in aliases : MergedInto(a[1], a[2])

VocabularyMerged == \A k \in RunKeys : \A v \in run[k].vocab : MergedInto(v[1], v[2])

ReadFollows == \A k \in RunKeys, l \in Listings :
    run[k].was[l] # NoProducer => LeadsTo(l, run[k].was[l])

(* What the register knows of a run.                                       *)
Runs == [at : {"idle", "scoped", "loaded", "rows", "tail", "done"},
         scope : SUBSET Producers, vocab : SUBSET (Producers \X Producers),
         rows : SUBSET Listings, was : [Listings -> Producers \cup {NoProducer}],
         hits : SUBSET Producers]

RegisterInv ==
    RegisterTypeOK /\ AliasesMerged /\ VocabularyMerged /\ ReadFollows /\ OwnerFollowsNames

-----------------------------------------------------------------------------
LEMMA MergedReflexive ==
    ASSUME NEW p PROVE MergedInto(p, p)
BY DEF MergedInto

(* A merge takes nothing back.                                             *)
LEMMA MergedGrows ==
    ASSUME NEW p, NEW q, MergedInto(p, q), merges \subseteq merges'
    PROVE  MergedInto(p, q)'
BY DEF MergedInto

LEMMA MergedFurther ==
    ASSUME NEW p, NEW q, NEW r, MergedInto(p, q), merges \subseteq merges',
           <<q, r>> \in merges'
    PROVE  MergedInto(p, r)'
<1> SUFFICES ASSUME NEW T \in SUBSET Producers,
                    p \in T, \A e \in merges' : e[1] \in T => e[2] \in T
             PROVE  r \in T
    BY DEF MergedInto
<1>1. q \in T
    BY DEF MergedInto
<1>2. <<q, r>>[1] = q /\ <<q, r>>[2] = r
    OBVIOUS
<1> QED
    BY <1>1, <1>2

LEMMA LeadsGrows ==
    ASSUME NEW l, NEW q, LeadsTo(l, q), merges \subseteq merges'
    PROVE  LeadsTo(l, q)'
BY MergedGrows DEF LeadsTo

(* What the parser answers, the name of the listing leads to.              *)
LEMMA ParsedFollows ==
    ASSUME NEW l \in Listings, NEW vocab \in SUBSET (Producers \X Producers),
           \A v \in vocab : MergedInto(v[1], v[2]),
           NEW q \in Parsed(l, vocab), q # NoProducer
    PROVE  q \in Producers /\ LeadsTo(l, q)
<1> DEFINE known == {i \in DOMAIN NamesIn[l] : \E v \in vocab : v[1] = NamesIn[l][i]}
           longest == {i \in known : \A j \in known : i <= j}
<1>1. q \in {v[2] : v \in {v \in vocab : \E i \in longest : v[1] = NamesIn[l][i]}}
    BY DEF Parsed
<1>2. PICK v \in vocab : q = v[2] /\ \E i \in longest : v[1] = NamesIn[l][i]
    BY <1>1
<1>3. v[1] \in ToSet(NamesIn[l])
    BY <1>2 DEF ToSet
<1>4. MergedInto(v[1], v[2]) /\ v[2] \in Producers
    OBVIOUS
<1> QED
    BY <1>2, <1>3, <1>4 DEF LeadsTo

-----------------------------------------------------------------------------
LEMMA InitRegisterInv ==
    ASSUME RegisterInit
    PROVE  RegisterInv
<1>1. RegisterTypeOK
    BY RegisterAssumption DEF RegisterInit, RegisterTypeOK, NoRun, RunKeys
<1> QED
    BY <1>1 DEF RegisterInit, RegisterInv, AliasesMerged, VocabularyMerged, ReadFollows,
                OwnerFollowsNames, NoRun, RunKeys

(* The merge moves listings, aliases and nothing a run has read.           *)
LEMMA MergeKeeps ==
    ASSUME RegisterInv, NEW m \in Managers, MergeProducers(m)
    PROVE  RegisterInv'
<1> USE RegisterAssumption DEF RegisterInv
<1>1. PICK r \in Request : r = asked[m] /\ r.op = "merge"
    BY DEF MergeProducers, RegisterTypeOK, NoRequest
<1>2. r.keep \in Producers /\ r.into \subseteq Producers /\ r.drop \subseteq Producers
    BY <1>1 DEF Request
<1>3. /\ merges' = merges \cup {<<p, r.keep>> : p \in r.into}
      /\ aliases' = AliasesAfter(r)
      /\ owner' = [l \in Listings |-> MovedTo(r, owner[l])]
      /\ UNCHANGED run
    BY <1>1 DEF MergeProducers
<1>4. merges \subseteq merges' /\ \A p \in r.into : <<p, r.keep>> \in merges'
    BY <1>3
<1>5. \A a \in aliases' : a \in Producers \X Producers /\ MergedInto(a[1], a[2])'
  <2> DEFINE named == aliases \cup {<<p, r.keep>> : p \in r.into \ Blends}
  <2>1. \A a \in named : a \in Producers \X Producers
      BY <1>2 DEF RegisterTypeOK
  <2>2. \A a \in named : MergedInto(a[1], a[2])'
    <3>1. \A a \in aliases : MergedInto(a[1], a[2])'
        BY <1>4, MergedGrows DEF AliasesMerged
    <3>2. ASSUME NEW p \in r.into PROVE MergedInto(p, r.keep)'
      <4>1. MergedInto(p, p)
          BY MergedReflexive
      <4> QED
          BY <4>1, <1>4, MergedFurther
    <3>3. \A p \in r.into \ Blends : MergedInto(<<p, r.keep>>[1], <<p, r.keep>>[2])'
        BY <3>2
    <3> QED
        BY <3>1, <3>3
  <2>3. ASSUME NEW a \in named, a[2] \in r.into
        PROVE  MergedInto(a[1], r.keep)'
    <3>1. CASE a \in aliases
      <4>1. MergedInto(a[1], a[2])
          BY <3>1 DEF AliasesMerged
      <4> QED
          BY <4>1, <2>3, <1>4, MergedFurther
    <3>2. CASE a \notin aliases
      <4>1. PICK p \in r.into : a = <<p, r.keep>>
          BY <3>2
      <4>2. MergedInto(a[1], a[2])'
          BY <2>2
      <4> QED
          BY <4>1, <4>2
    <3> QED
        BY <3>1, <3>2
  <2>4. aliases' = {IF a[2] \in r.into THEN <<a[1], r.keep>> ELSE a : a \in named}
      BY <1>3 DEF AliasesAfter
  <2>5. SUFFICES ASSUME NEW b \in aliases'
                 PROVE  b \in Producers \X Producers /\ MergedInto(b[1], b[2])'
      OBVIOUS
  <2>6. PICK a \in named : b = IF a[2] \in r.into THEN <<a[1], r.keep>> ELSE a
      BY <2>4
  <2> HIDE DEF named
  <2>7. CASE a[2] \in r.into
    <3>1. b = <<a[1], r.keep>> /\ b[1] = a[1] /\ b[2] = r.keep
        BY <2>6, <2>7
    <3>2. MergedInto(a[1], r.keep)'
        BY <2>3, <2>7
    <3> QED
        BY <3>1, <3>2, <2>1, <1>2
  <2>8. CASE a[2] \notin r.into
      BY <2>1, <2>2, <2>6, <2>8
  <2> QED
      BY <2>7, <2>8
<1>6. \A l \in Listings : owner'[l] \in Producers \cup {NoProducer}
    BY <1>2, <1>3 DEF RegisterTypeOK, MovedTo
<1>7. RegisterTypeOK'
  <2>1. status' \in [Producers -> {"proposed", "active", "retired", "merged"}]
      BY <1>1, <1>2 DEF MergeProducers, RegisterTypeOK
  <2>2. job' \in [RunKeys -> {"none", "waiting", "running"}]
      BY DEF MergeProducers, Enqueued, RegisterTypeOK, RunKeys
  <2>3. asked' \in [Managers -> Request \cup {NoRequest}]
      BY DEF MergeProducers, Answered, RegisterTypeOK
  <2>4. merges' \subseteq Producers \X Producers
      BY <1>2, <1>3 DEF RegisterTypeOK
  <2>5. owner' \in [Listings -> Producers \cup {NoProducer}]
      BY <1>3, <1>6
  <2> QED
      BY <1>5, <2>1, <2>2, <2>3, <2>4, <2>5 DEF MergeProducers, RegisterTypeOK
<1>8. VocabularyMerged'
    BY <1>3, <1>4, MergedGrows DEF VocabularyMerged
<1>9. ReadFollows'
    BY <1>3, <1>4, LeadsGrows DEF ReadFollows
<1>10. OwnerFollowsNames'
  <2> SUFFICES ASSUME NEW l \in Listings, NEW q, q = owner'[l], q # NoProducer
               PROVE  \E p \in ToSet(NamesIn[l]) : MergedInto(p, q)'
      BY DEF OwnerFollowsNames
  <2>1. PICK o : o = owner[l] /\ q = MovedTo(r, o)
      BY <1>3
  <2>2. o # NoProducer
      BY <1>2, <2>1 DEF MovedTo
  <2>3. PICK p \in ToSet(NamesIn[l]) : MergedInto(p, o)
      BY <2>1, <2>2 DEF OwnerFollowsNames
  <2>4. CASE o \in r.into
    <3>1. MergedInto(p, r.keep)'
        BY <2>3, <2>4, <1>4, MergedFurther
    <3> QED
        BY <2>1, <2>4, <3>1 DEF MovedTo
  <2>5. CASE o \notin r.into
    <3>1. MergedInto(p, o)'
        BY <2>3, <1>4, MergedGrows
    <3> QED
        BY <2>1, <2>5, <3>1 DEF MovedTo
  <2> QED
      BY <2>4, <2>5
<1> QED
    BY <1>5, <1>7, <1>8, <1>9, <1>10 DEF AliasesMerged

(* The row a run writes gets what its vocabulary leads to, or what it had  *)
(* when the run read it.                                                   *)
LEMMA ProcessKeeps ==
    ASSUME RegisterInv, NEW k \in RunKeys, NEW l \in Listings, ProcessRow(k, l)
    PROVE  RegisterInv'
<1> USE RegisterAssumption DEF RegisterInv
<1>1. PICK p \in Parsed(l, run[k].vocab) :
          /\ \/ UNCHANGED owner
             \/ owner' = [owner EXCEPT ![l] = IF p = NoProducer THEN run[k].was[l] ELSE p]
          /\ run' = [run EXCEPT ![k].rows = @ \ {l},
                                ![k].hits = IF PassedOver(k, l, p) \/ p = NoProducer
                                            THEN @ ELSE @ \cup {p}]
    BY DEF ProcessRow
<1>2. UNCHANGED <<status, applied, aliases, asked, job, merges, decisions, runFaults>>
    BY DEF ProcessRow
<1>3. run[k].vocab \in SUBSET (Producers \X Producers)
    BY DEF RegisterTypeOK
<1>4. p # NoProducer => p \in Producers /\ LeadsTo(l, p)
    BY <1>3, ParsedFollows DEF VocabularyMerged
<1>5. \A j \in RunKeys : run'[j].vocab = run[j].vocab /\ run'[j].was = run[j].was
    BY <1>1 DEF RegisterTypeOK
<1>6. run' \in [RunKeys -> Runs]
  <2> DEFINE h == IF PassedOver(k, l, p) \/ p = NoProducer
                  THEN run[k].hits ELSE run[k].hits \cup {p}
  <2>1. h \subseteq Producers
      BY <1>4 DEF RegisterTypeOK
  <2>2. run' = [run EXCEPT ![k].rows = @ \ {l}, ![k].hits = h]
      BY <1>1 DEF RegisterTypeOK
  <2> HIDE DEF h
  <2>3. run[k] \in Runs /\ run \in [RunKeys -> Runs]
      BY DEF RegisterTypeOK, Runs
  <2>4. [run[k] EXCEPT !.rows = @ \ {l}, !.hits = h] \in Runs
      BY <2>1, <2>3 DEF Runs
  <2>5. run' = [run EXCEPT ![k] = [run[k] EXCEPT !.rows = @ \ {l}, !.hits = h]]
      BY <2>2, <2>3
  <2> QED
      BY <2>3, <2>4, <2>5
<1>7. RegisterTypeOK'
  <2>1. run[k].was[l] \in Producers \cup {NoProducer}
      BY DEF RegisterTypeOK
  <2>2. owner' \in [Listings -> Producers \cup {NoProducer}]
      BY <1>1, <1>4, <2>1 DEF RegisterTypeOK
  <2> QED
      BY <1>2, <1>6, <2>2 DEF RegisterTypeOK, Runs
<1>8. AliasesMerged'
    BY <1>2 DEF AliasesMerged, MergedInto
<1>9. VocabularyMerged'
    BY <1>2, <1>5, MergedGrows DEF VocabularyMerged
<1>10. ReadFollows'
    BY <1>2, <1>5, LeadsGrows DEF ReadFollows
<1>11. OwnerFollowsNames'
  <2> SUFFICES ASSUME NEW j \in Listings, NEW q, q = owner'[j], q # NoProducer
               PROVE  \E n \in ToSet(NamesIn[j]) : MergedInto(n, q)'
      BY DEF OwnerFollowsNames
  <2>1. q = owner[j] \/ (j = l /\ q = run[k].was[l]) \/ (j = l /\ q = p)
      BY <1>1 DEF RegisterTypeOK
  <2>2. \E n \in ToSet(NamesIn[j]) : MergedInto(n, q)
      BY <1>4, <2>1 DEF OwnerFollowsNames, ReadFollows, LeadsTo
  <2> QED
      BY <1>2, <2>2, MergedGrows
<1> QED
    BY <1>7, <1>8, <1>9, <1>10, <1>11

(* A run takes in the register as it is.                                   *)
LEMMA LoadKeeps ==
    ASSUME RegisterInv, NEW k \in RunKeys, LoadVocabulary(k) \/ SelectRows(k)
    PROVE  RegisterInv'
<1> USE RegisterAssumption DEF RegisterInv
<1>1. UNCHANGED <<status, applied, aliases, owner, asked, merges, decisions, runFaults>>
    BY DEF LoadVocabulary, SelectRows
<1>2. AliasesMerged' /\ OwnerFollowsNames'
    BY <1>1 DEF AliasesMerged, OwnerFollowsNames, MergedInto
<1>3. CASE LoadVocabulary(k)
  <2>1. Vocabulary \subseteq Producers \X Producers
      BY DEF Vocabulary, RegisterTypeOK
  <2>2. \A v \in Vocabulary : MergedInto(v[1], v[2])
    <3> SUFFICES ASSUME NEW v \in Vocabulary PROVE MergedInto(v[1], v[2])
        OBVIOUS
    <3>1. CASE v \in aliases
        BY <3>1 DEF AliasesMerged
    <3>2. CASE v \notin aliases
      <4>1. PICK p \in Producers : v = <<p, p>>
          BY <3>2 DEF Vocabulary
      <4> QED
          BY <4>1, MergedReflexive
    <3> QED
        BY <3>1, <3>2
  <2>3. PICK rec \in Runs :
            /\ run' = [run EXCEPT ![k] = rec]
            /\ rec.vocab \in {Vocabulary, {}}
            /\ rec.was \in {run[k].was, [l \in Listings |-> NoProducer]}
    <3>1. run[k] \in Runs /\ run \in [RunKeys -> Runs]
        BY DEF RegisterTypeOK, Runs
    <3>2. CASE Vocabulary = {}
        BY <1>3, <3>2 DEF LoadVocabulary, NoRun, Runs
    <3>3. CASE Vocabulary # {}
      <4> DEFINE rec == [run[k] EXCEPT !.at = "loaded", !.vocab = Vocabulary]
      <4>1. run' = [run EXCEPT ![k] = rec]
          BY <1>3, <3>1, <3>3 DEF LoadVocabulary
      <4>2. rec \in Runs /\ rec.vocab = Vocabulary /\ rec.was = run[k].was
          BY <2>1, <3>1 DEF Runs
      <4> QED
          BY <4>1, <4>2
    <3> QED
        BY <3>2, <3>3
  <2>4. \A j \in RunKeys :
           /\ run'[j].vocab \in {run[j].vocab, Vocabulary, {}}
           /\ run'[j].was \in {run[j].was, [l \in Listings |-> NoProducer]}
      BY <2>3 DEF RegisterTypeOK
  <2>5. RegisterTypeOK'
    <3>1. job' \in [RunKeys -> {"none", "waiting", "running"}]
        BY <1>3 DEF LoadVocabulary, RegisterTypeOK
    <3>2. run' \in [RunKeys -> Runs]
        BY <2>3 DEF RegisterTypeOK, Runs
    <3> QED
        BY <1>1, <3>1, <3>2 DEF RegisterTypeOK, Runs
  <2>6. VocabularyMerged'
      BY <1>1, <2>2, <2>4, MergedGrows DEF VocabularyMerged
  <2>7. ReadFollows'
      BY <1>1, <2>4, LeadsGrows DEF ReadFollows
  <2> QED
      BY <1>2, <2>5, <2>6, <2>7
<1>4. CASE SelectRows(k)
  <2>1. RowsFor(k) \subseteq Listings
      BY DEF RowsFor
  <2>2. RegisterTypeOK'
    <3> DEFINE rec == [run[k] EXCEPT !.at = "rows", !.rows = RowsFor(k), !.was = owner]
    <3>1. run[k] \in Runs /\ run \in [RunKeys -> Runs]
        BY DEF RegisterTypeOK, Runs
    <3>2. run' = [run EXCEPT ![k] = rec]
        BY <1>4, <3>1 DEF SelectRows
    <3>3. rec \in Runs
        BY <2>1, <3>1 DEF Runs, RegisterTypeOK
    <3> HIDE DEF rec
    <3>4. run' \in [RunKeys -> Runs] /\ job' = job
        BY <1>4, <3>1, <3>2, <3>3 DEF SelectRows
    <3> QED
        BY <1>1, <3>4 DEF RegisterTypeOK, Runs
  <2>3. \A j \in RunKeys : /\ run'[j].vocab = run[j].vocab
                           /\ run'[j].was = run[j].was \/ run'[j].was = owner
      BY <1>4 DEF SelectRows, RegisterTypeOK
  <2>4. VocabularyMerged'
      BY <1>1, <2>3, MergedGrows DEF VocabularyMerged
  <2>5. \A l \in Listings : owner[l] # NoProducer => LeadsTo(l, owner[l])
      BY DEF OwnerFollowsNames, LeadsTo
  <2>6. ReadFollows'
      BY <1>1, <2>3, <2>5, LeadsGrows DEF ReadFollows
  <2> QED
      BY <1>2, <2>2, <2>4, <2>6
<1> QED
    BY <1>3, <1>4

(* The other steps touch neither names, nor aliases, nor owners.           *)
LEMMA DecideKeepsType ==
    ASSUME RegisterTypeOK, NEW m \in Managers,
           Ask(m) \/ Approve(m) \/ Reject(m) \/ Revoke(m)
    PROVE  RegisterTypeOK' /\ UNCHANGED <<aliases, owner, merges, run>>
<1> USE RegisterAssumption
<1>1. UNCHANGED <<aliases, owner, merges, run, applied, runFaults>>
    BY DEF Ask, Approve, Reject, Revoke
<1>2. CASE Ask(m)
    BY <1>1, <1>2 DEF Ask, RegisterTypeOK
<1>3. CASE Approve(m) \/ Reject(m) \/ Revoke(m)
  <2>1. asked[m] \in Request
      BY <1>3 DEF Approve, Reject, Revoke, RegisterTypeOK, NoRequest
  <2>2. asked[m].keep \in Producers
      BY <2>1 DEF Request
  <2>3. asked' \in [Managers -> Request \cup {NoRequest}]
      BY <1>3 DEF Approve, Reject, Revoke, Answered, RegisterTypeOK
  <2>4. status' \in [Producers -> {"proposed", "active", "retired", "merged"}]
      BY <1>3, <2>2 DEF Approve, Reject, Revoke, RegisterTypeOK
  <2>5. job' \in [RunKeys -> {"none", "waiting", "running"}]
      BY <1>3 DEF Approve, Reject, Revoke, Enqueued, RegisterTypeOK, RunKeys
  <2>6. UNCHANGED decisions
      BY <1>3 DEF Approve, Reject, Revoke
  <2> QED
      BY <1>1, <2>3, <2>4, <2>5, <2>6 DEF RegisterTypeOK
<1> QED
    BY <1>1, <1>2, <1>3

LEMMA RunKeepsType ==
    ASSUME RegisterTypeOK, NEW k \in RunKeys,
           \/ Apply(k) \/ StartRun(k) \/ StampApplied(k) \/ CheckTail(k)
           \/ EndRun(k) \/ FailRun(k)
    PROVE  /\ RegisterTypeOK' /\ UNCHANGED <<aliases, owner, merges>>
           /\ \A j \in RunKeys :
                /\ run'[j].vocab \in {run[j].vocab, {}}
                /\ run'[j].was \in {run[j].was, [l \in Listings |-> NoProducer]}
<1> USE RegisterAssumption
<1>1. UNCHANGED <<status, aliases, owner, asked, merges>>
    BY DEF Apply, StartRun, StampApplied, CheckTail, EndRun, FailRun
<1>2. ASSUME NEW rec \in Runs,
             rec.vocab \in {run[k].vocab, {}},
             rec.was \in {run[k].was, [l \in Listings |-> NoProducer]},
             run' = [run EXCEPT ![k] = rec] \/ run' = run
      PROVE  /\ run' \in [RunKeys -> Runs]
             /\ \A j \in RunKeys :
                  /\ run'[j].vocab \in {run[j].vocab, {}}
                  /\ run'[j].was \in {run[j].was, [l \in Listings |-> NoProducer]}
  <2>1. run \in [RunKeys -> Runs]
      BY DEF RegisterTypeOK, Runs
  <2>2. \A j \in RunKeys : run'[j] = run[j] \/ (j = k /\ run'[j] = rec)
      BY <1>2, <2>1
  <2>3. run' \in [RunKeys -> Runs]
      BY <1>2, <2>1
  <2> QED
      BY <1>2, <2>2, <2>3
<1>3. run[k] \in Runs /\ run \in [RunKeys -> Runs]
    BY DEF RegisterTypeOK, Runs
<1>4. PICK rec \in Runs :
          /\ rec.vocab \in {run[k].vocab, {}}
          /\ rec.was \in {run[k].was, [l \in Listings |-> NoProducer]}
          /\ run' = [run EXCEPT ![k] = rec] \/ run' = run
  <2>1. CASE UNCHANGED run
      BY <1>3, <2>1
  <2>2. CASE run' = [run EXCEPT ![k] = NoRun]
      BY <2>2 DEF NoRun, Runs
  <2>3. ASSUME NEW at \in {"scoped", "tail", "done"}, NEW scope \in SUBSET Producers,
               run' = [run EXCEPT ![k].at = at, ![k].scope = scope]
        PROVE  \E rec \in Runs :
                  /\ rec.vocab \in {run[k].vocab, {}}
                  /\ rec.was \in {run[k].was, [l \in Listings |-> NoProducer]}
                  /\ run' = [run EXCEPT ![k] = rec] \/ run' = run
    <3> DEFINE rec == [run[k] EXCEPT !.at = at, !.scope = scope]
    <3>1. run' = [run EXCEPT ![k] = rec]
        BY <1>3, <2>3
    <3>2. rec \in Runs /\ rec.vocab = run[k].vocab /\ rec.was = run[k].was
        BY <1>3 DEF Runs
    <3> QED
        BY <3>1, <3>2
  <2>4. CASE StartRun(k)
    <3>1. CASE UNCHANGED run
        BY <2>1, <3>1
    <3>2. CASE ~UNCHANGED run
      <4> DEFINE scope == IF PendingOnly(k) THEN Unapplied ELSE {}
      <4>1. scope \in SUBSET Producers
          BY DEF Unapplied
      <4>2. run' = [run EXCEPT ![k].at = "scoped", ![k].scope = scope]
          BY <2>4, <3>2 DEF StartRun
      <4> HIDE DEF scope
      <4> QED
          BY <2>3, <4>1, <4>2
    <3> QED
        BY <3>1, <3>2
  <2>5. CASE StampApplied(k) \/ CheckTail(k)
    <3>1. PICK at \in {"tail", "done"} : run' = [run EXCEPT ![k].at = at]
        BY <2>5 DEF StampApplied, CheckTail
    <3>2. run' = [run EXCEPT ![k].at = at, ![k].scope = run[k].scope]
        BY <1>3, <3>1 DEF Runs
    <3>3. run[k].scope \in SUBSET Producers
        BY <1>3 DEF Runs
    <3> QED
        BY <2>3, <3>2, <3>3
  <2> QED
      BY <2>1, <2>2, <2>4, <2>5 DEF Apply, EndRun, FailRun
<1>5. /\ run' \in [RunKeys -> Runs]
      /\ \A j \in RunKeys :
           /\ run'[j].vocab \in {run[j].vocab, {}}
           /\ run'[j].was \in {run[j].was, [l \in Listings |-> NoProducer]}
    BY <1>2, <1>4
<1>6. job' \in [RunKeys -> {"none", "waiting", "running"}]
    BY DEF Apply, StartRun, StampApplied, CheckTail, EndRun, FailRun, Enqueued,
           RegisterTypeOK, RunKeys
<1>7. applied' \subseteq Producers
    BY DEF Apply, StartRun, StampApplied, CheckTail, EndRun, FailRun, Stamped,
           RegisterTypeOK
<1>8. decisions' \in 0..MaxDecisions /\ runFaults' \in 0..MaxRunFaults
    BY DEF Apply, StartRun, StampApplied, CheckTail, EndRun, FailRun, RegisterTypeOK
<1> QED
    BY <1>1, <1>5, <1>6, <1>7, <1>8 DEF RegisterTypeOK, Runs

-----------------------------------------------------------------------------
LEMMA NextRegisterInv ==
    ASSUME RegisterInv, [RegisterNext]_registerVars
    PROVE  RegisterInv'
<1>1. CASE \E m \in Managers : MergeProducers(m)
    BY <1>1, MergeKeeps
<1>2. CASE \E k \in RunKeys, l \in Listings : ProcessRow(k, l)
    BY <1>2, ProcessKeeps
<1>3. CASE \E k \in RunKeys : LoadVocabulary(k) \/ SelectRows(k)
    BY <1>3, LoadKeeps
<1>4. ASSUME RegisterTypeOK', UNCHANGED <<aliases, owner, merges>>,
             \A j \in RunKeys :
                /\ run'[j].vocab \in {run[j].vocab, {}}
                /\ run'[j].was \in {run[j].was, [l \in Listings |-> NoProducer]}
      PROVE  RegisterInv'
  <2>1. AliasesMerged' /\ OwnerFollowsNames'
      BY <1>4 DEF RegisterInv, AliasesMerged, OwnerFollowsNames, MergedInto
  <2>2. VocabularyMerged'
      BY <1>4, MergedGrows DEF RegisterInv, VocabularyMerged
  <2>3. ReadFollows'
      BY <1>4, LeadsGrows DEF RegisterInv, ReadFollows
  <2> QED
      BY <1>4, <2>1, <2>2, <2>3 DEF RegisterInv
<1>5. CASE \E m \in Managers : Ask(m) \/ Approve(m) \/ Reject(m) \/ Revoke(m)
  <2>1. RegisterTypeOK' /\ UNCHANGED <<aliases, owner, merges, run>>
      BY <1>5, DecideKeepsType DEF RegisterInv
  <2>2. \A j \in RunKeys : run'[j].vocab = run[j].vocab /\ run'[j].was = run[j].was
      BY <2>1
  <2> QED
      BY <1>4, <2>1, <2>2
<1>6. CASE \E k \in RunKeys : \/ Apply(k) \/ StartRun(k) \/ StampApplied(k) \/ CheckTail(k)
                              \/ EndRun(k) \/ FailRun(k)
  <2>1. /\ RegisterTypeOK' /\ UNCHANGED <<aliases, owner, merges>>
        /\ \A j \in RunKeys :
              /\ run'[j].vocab \in {run[j].vocab, {}}
              /\ run'[j].was \in {run[j].was, [l \in Listings |-> NoProducer]}
      BY <1>6, RunKeepsType DEF RegisterInv
  <2> QED
      BY <1>4, <2>1
<1>7. CASE UNCHANGED registerVars
  <2>1. RegisterTypeOK'
      BY <1>7 DEF registerVars, RegisterInv, RegisterTypeOK
  <2>2. UNCHANGED <<aliases, owner, merges, run>>
      BY <1>7 DEF registerVars
  <2>3. \A j \in RunKeys : run'[j].vocab = run[j].vocab /\ run'[j].was = run[j].was
      BY <2>2
  <2> QED
      BY <1>4, <2>1, <2>2, <2>3
<1> QED
    BY <1>1, <1>2, <1>3, <1>5, <1>6, <1>7 DEF RegisterNext, Decide, Reextract

(* Merges, approvals and re-extractions overlap as they like: no listing   *)
(* is given to a producer that neither its name nor a merge leads to.      *)
THEOREM OwnersFollowNames == RegisterSpec => [](RegisterTypeOK /\ OwnerFollowsNames)
<1>1. RegisterInv => RegisterTypeOK /\ OwnerFollowsNames
    BY DEF RegisterInv
<1> QED
    BY <1>1, InitRegisterInv, NextRegisterInv, PTL DEF RegisterSpec

=============================================================================
