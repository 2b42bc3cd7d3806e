-------------------------- MODULE PublicationProofs --------------------------
(***************************************************************************)
(* For any number of variants, shops, slots and generations: the types, at *)
(* most one published generation, nothing half-built is ever visible, what *)
(* is quarantined is not shown fresh, and - as long as the cleanup DELETE  *)
(* does not fail - readers see a PublishedMarket.                          *)
(***************************************************************************)
EXTENDS Publication, FiniteSetTheorems, TLAPS

Building(b) == build[b].pc \in {"select", "insert", "gate", "decide", "commit"}

(* A slot that builds owns a generation in 'building' that no other owns. *)
Owned ==
    /\ \A b \in Slots : Building(b) =>
         build[b].gen \in Generations /\ gen[build[b].gen].status = "building"
    /\ \A b1, b2 \in Slots : Building(b1) /\ Building(b2) /\ build[b1].gen = build[b2].gen
         => b1 = b2

(* The generation of a slot that cleans up is built for good. *)
Swapped ==
    \A b \in Slots : build[b].pc = "cleanup" =>
      /\ build[b].gen \in Generations /\ build[b].gen <= clock
      /\ gen[build[b].gen].status # "building"

Fresh == \A g \in Generations : g > clock => gen[g].status = "absent"

(* Offers of one SELECT: a pair occurs once. *)
OncePerPair(rows) ==
    \A o1, o2 \in rows : o1.variant = o2.variant /\ o1.shop = o2.shop => o1 = o2

(* What a slot has inserted, and what it has still to insert. *)
Progress(b) ==
    LET g == gen[build[b].gen] IN
    /\ build[b].pc = "select" => g.offers = {}
    /\ build[b].pc = "insert" => /\ PairsOf(g.offers \cup build[b].todo) = g.want
                                 /\ OncePerPair(g.offers \cup build[b].todo)
    /\ build[b].pc \in {"gate", "decide", "commit"} => Whole(g)
    /\ build[b].pc # "select" => g.want \in past

Content ==
    /\ \A b \in Slots : Building(b) => Progress(b)
    /\ \A g \in Published : Whole(gen[g]) /\ gen[g].want \in past

PresentIsPast == verified \in past

PubInv == TypeOK /\ PresentIsPast /\ OnePublished /\ Owned /\ Swapped /\ Fresh /\ Content

-----------------------------------------------------------------------------
LEMMA UnreadType ==
    ASSUME NEW status \in {"absent", "quarantined", "superseded", "failed"}
    PROVE  Unread(status) \in GenRow /\ Unread(status).status = status
BY DEF Unread, GenRow

LEMMA IdleSlotType == IdleSlot \in SlotRow
BY PublicationAssumption DEF IdleSlot, SlotRow, Keys

LEMMA JobRows ==
    /\ NoJob \in JobRow
    /\ \A j \in JobRow : /\ Scheduled(j) \in JobRow /\ AfterThrow(j) \in JobRow
                        /\ [j EXCEPT !.state = "active"] \in JobRow
                        /\ [j EXCEPT !.state = "waiting"] \in JobRow
<1>1. NoJob \in JobRow /\ FreshJob \in JobRow
  BY PublicationAssumption DEF NoJob, FreshJob, JobRow
<1>2. ASSUME NEW j \in JobRow PROVE AfterThrow(j) \in JobRow
  <2>1. j.tries + 1 < MaxAttempts => j.tries + 1 \in 0..(MaxAttempts - 1)
    BY PublicationAssumption DEF JobRow
  <2> QED BY <1>1, <2>1 DEF AfterThrow, JobRow
<1> QED BY <1>1, <1>2 DEF Scheduled, JobRow

LEMMA SelectedType ==
    ASSUME TypeOK
    PROVE  /\ Selected \in SUBSET Offers
           /\ PairsOf(Selected) = verified
           /\ OncePerPair(Selected)
<1>1. \A v \in Variants : Denominator(v) \in Nat
  BY PublicationAssumption, FS_Subset, FS_CardinalityType DEF Denominator
<1> DEFINE row(p) == [variant |-> p[1], shop |-> p[2], stale |-> p[2] \in old,
                      denominator |-> IF p[2] \in old THEN 0 ELSE Denominator(p[1])]
<1>2. Selected = {row(p) : p \in verified}
  BY DEF Selected
<1>3. \A p \in verified : p[1] \in Variants /\ p[2] \in Shops /\ p = <<p[1], p[2]>>
  BY DEF TypeOK, Pairs
<1>4. \A p \in verified : row(p) \in Offers /\ row(p).variant = p[1] /\ row(p).shop = p[2]
  BY <1>1, <1>3 DEF Offers
<1> HIDE DEF row
<1>5. Selected \in SUBSET Offers
  BY <1>2, <1>4
<1>6. PairsOf(Selected) = verified
  BY <1>2, <1>3, <1>4 DEF PairsOf
<1>7. OncePerPair(Selected)
  BY <1>2, <1>3, <1>4 DEF OncePerPair
<1> QED BY <1>5, <1>6, <1>7

LEMMA MarkedKeeps ==
    ASSUME NEW o \in Offers
    PROVE  /\ Marked(o) \in Offers
           /\ Marked(o).variant = o.variant /\ Marked(o).shop = o.shop
BY DEF Marked, Offers

LEMMA InitPubInv == Init => PubInv
<1> SUFFICES ASSUME Init PROVE PubInv
  OBVIOUS
<1>1. Absent \in GenRow /\ Absent.status = "absent"
  BY UnreadType DEF Absent
<1>2. IdleSlot \in SlotRow /\ NoJob \in JobRow /\ 1 \in 1..MaxBucket
  BY IdleSlotType, JobRows, PublicationAssumption
<1>3. 0 \in 0..MaxGeneration /\ 0 \in 0..MaxChanges /\ 0 \in 0..MaxFaults
  BY PublicationAssumption
<1>4. TypeOK
  BY <1>1, <1>2, <1>3 DEF Init, TypeOK
<1>5. PresentIsPast /\ OnePublished /\ Owned /\ Swapped /\ Fresh /\ Content
  BY <1>1 DEF Init, PresentIsPast, OnePublished, Published, Owned, Swapped, Fresh, Content, Building, IdleSlot
<1> QED BY <1>4, <1>5 DEF PubInv

-----------------------------------------------------------------------------
(* Steps that touch neither a generation nor what a slot builds. *)
LEMMA GenerationsKept ==
    ASSUME PubInv, UNCHANGED <<gen, clock>>, past \subseteq past',
           \A b \in Slots : build'[b].pc \in {"idle", "begin"} \/ build'[b] = build[b]
    PROVE  OnePublished' /\ Owned' /\ Swapped' /\ Fresh' /\ Content'
<1>1. \A b \in Slots : Building(b)' => Building(b) /\ build'[b] = build[b]
  BY DEF Building
<1>2. Published' = Published
  BY DEF Published
<1>3. OnePublished' /\ Owned' /\ Fresh'
  BY <1>1, <1>2 DEF PubInv, OnePublished, Owned, Fresh
<1>6. Swapped'
  BY DEF PubInv, Swapped
<1>4. ASSUME NEW b \in Slots, Building(b)' PROVE Progress(b)'
  <2>1. Progress(b)
    BY <1>1, <1>4 DEF PubInv, Content
  <2> QED BY <1>1, <1>4, <2>1 DEF Progress
<1>5. \A g \in Published' : Whole(gen'[g]) /\ gen'[g].want \in past'
  BY <1>2 DEF PubInv, Content
<1> QED BY <1>3, <1>4, <1>5, <1>6 DEF Content

LEMMA ProgressKept ==
    ASSUME NEW c \in Slots, Progress(c), build'[c] = build[c],
           gen'[build[c].gen] = gen[build[c].gen], UNCHANGED past
    PROVE  Progress(c)'
BY DEF Progress, Whole

(* A slot works on its own generation, which stays 'building'. *)
LEMMA OwnStep ==
    ASSUME PubInv, NEW b \in Slots, Building(b), UNCHANGED <<clock, past>>,
           NEW row, row.status = "building", gen' = [gen EXCEPT ![build[b].gen] = row],
           NEW slot, slot.gen = build[b].gen, build' = [build EXCEPT ![b] = slot],
           Building(b)', Progress(b)'
    PROVE  OnePublished' /\ Owned' /\ Swapped' /\ Fresh' /\ Content'
<1> DEFINE n == build[b].gen
<1>1. n \in Generations /\ gen[n].status = "building"
  BY DEF PubInv, Owned
<1>2. gen'[n] = row /\ \A g \in Generations : g # n => gen'[g] = gen[g]
  BY <1>1 DEF PubInv, TypeOK
<1>3. build'[b] = slot /\ \A c \in Slots : c # b => build'[c] = build[c]
  BY DEF PubInv, TypeOK
<1>4. \A c \in Slots : c # b => (Building(c)' <=> Building(c))
  BY <1>3 DEF Building
<1>5. \A c \in Slots : c # b /\ Building(c) => build[c].gen \in Generations /\ build[c].gen # n
  BY DEF PubInv, Owned
<1>6. Published' = Published /\ n \notin Published
  BY <1>1, <1>2 DEF Published
<1>7. OnePublished'
  BY <1>6 DEF PubInv, OnePublished
<1>8. Owned'
  BY <1>1, <1>2, <1>3, <1>4, <1>5 DEF PubInv, Owned
<1>9. Fresh'
  BY <1>1, <1>2 DEF PubInv, Fresh
<1>10. ASSUME NEW c \in Slots, Building(c)', c # b PROVE Progress(c)'
  <2>1. Progress(c) /\ build'[c] = build[c] /\ gen'[build[c].gen] = gen[build[c].gen]
    BY <1>2, <1>3, <1>4, <1>5, <1>10 DEF PubInv, Content
  <2> QED BY <2>1 DEF Progress
<1>11. \A g \in Published' : Whole(gen'[g]) /\ gen'[g].want \in past'
  BY <1>2, <1>6 DEF PubInv, Content, Published
<1>12. Swapped'
  <2>1. \A c \in Slots : build'[c].pc = "cleanup" => build[c].pc = "cleanup" /\ c # b
    BY <1>3 DEF Building
  <2> QED BY <1>1, <1>2, <1>3, <2>1 DEF PubInv, Swapped
<1> QED BY <1>7, <1>8, <1>9, <1>10, <1>11, <1>12 DEF Content

(* A slot lets go of its generation; statuses only turn unread. *)
LEMMA OwnEnd ==
    ASSUME PubInv, NEW b \in Slots, UNCHANGED <<clock, past>>,
           build' = [build EXCEPT ![b] = IdleSlot],
           \A g \in Generations :
              \/ gen'[g] = gen[g]
              \/ /\ \A c \in Slots : c # b /\ Building(c) => build[c].gen # g
                 /\ g <= clock
                 /\ gen'[g].status \notin {"published", "building"}
    PROVE  OnePublished' /\ Owned' /\ Swapped' /\ Fresh' /\ Content'
<1>1. ~Building(b)' /\ \A c \in Slots : c # b => build'[c] = build[c]
  BY DEF PubInv, TypeOK, Building, IdleSlot
<1>2. \A c \in Slots : Building(c)' => c # b /\ Building(c)
  BY <1>1 DEF Building
<1>3. \A c \in Slots : c # b /\ Building(c)
        => build[c].gen \in Generations /\ gen'[build[c].gen] = gen[build[c].gen]
  BY DEF PubInv, Owned
<1>4. Published' \subseteq Published /\ \A g \in Published' : gen'[g] = gen[g]
  BY DEF Published
<1>5. OnePublished' /\ Owned'
  BY <1>1, <1>2, <1>3, <1>4 DEF PubInv, OnePublished, Owned
<1>6. Fresh'
  <2> SUFFICES ASSUME NEW g \in Generations, g > clock PROVE gen'[g].status = "absent"
    BY DEF Fresh
  <2>1. ~(g <= clock)
    BY DEF PubInv, TypeOK, Generations
  <2> QED BY <2>1 DEF PubInv, Fresh
<1>7. ASSUME NEW c \in Slots, Building(c)' PROVE Progress(c)'
  <2>1. Progress(c) /\ build'[c] = build[c] /\ gen'[build[c].gen] = gen[build[c].gen]
    BY <1>1, <1>2, <1>3, <1>7 DEF PubInv, Content
  <2> QED BY <2>1, ProgressKept
<1>8. \A g \in Published' : Whole(gen'[g]) /\ gen'[g].want \in past'
  BY <1>4 DEF PubInv, Content
<1>9. Swapped'
  <2>1. \A c \in Slots : build'[c].pc = "cleanup" => build[c].pc = "cleanup" /\ c # b
    BY <1>1 DEF PubInv, TypeOK, IdleSlot
  <2> QED BY <1>1, <2>1 DEF PubInv, Swapped
<1> QED BY <1>5, <1>6, <1>7, <1>8, <1>9 DEF Content

-----------------------------------------------------------------------------
(* rebuildAndPublish, step by step. *)

LEMMA BuildingTypes ==
    ASSUME PubInv, NEW b \in Slots, Building(b)
    PROVE  /\ build[b] \in SlotRow /\ build[b].gen \in Generations
           /\ gen[build[b].gen] \in GenRow /\ gen[build[b].gen].status = "building"
           /\ build[b].gen <= clock /\ Progress(b)
<1>1. build[b] \in SlotRow /\ build[b].gen \in Generations
      /\ gen[build[b].gen] \in GenRow /\ gen[build[b].gen].status = "building"
  BY DEF PubInv, TypeOK, Owned
<1>2. build[b].gen <= clock
  BY <1>1 DEF PubInv, Fresh, TypeOK, Generations
<1> QED BY <1>1, <1>2 DEF PubInv, Content

LEMMA BeginInv == ASSUME PubInv, NEW b \in Slots, Begin(b) PROVE PubInv'
<1> DEFINE n == clock + 1
           row == [status |-> "building", offers |-> {}, summary |-> {}, want |-> {},
                   steady |-> bad]
           slot == [build[b] EXCEPT !.pc = "select", !.gen = n]
<1>1. n \in Generations /\ n \in 0..MaxGeneration /\ n > clock
  BY PublicationAssumption DEF Begin, PubInv, TypeOK, Generations
<1>2. row \in GenRow /\ row.status = "building" /\ row.offers = {}
  BY DEF PubInv, TypeOK, GenRow
<1>3. build[b] \in SlotRow /\ slot \in SlotRow /\ slot.pc = "select" /\ slot.gen = n
  BY <1>1 DEF PubInv, TypeOK, SlotRow
<1>4. gen' = [gen EXCEPT ![n] = row] /\ clock' = n
  BY DEF Begin
<1>5. build' = [build EXCEPT ![b] = slot]
  BY DEF Begin, PubInv, TypeOK
<1>6. UNCHANGED <<past, source, queue, faults>>
  BY DEF Begin, source
<1> HIDE DEF row, slot
<1>7. gen' \in [Generations -> GenRow] /\ gen'[n] = row
      /\ \A g \in Generations : g # n => gen'[g] = gen[g]
  BY <1>1, <1>2, <1>4 DEF PubInv, TypeOK
<1>8. build' \in [Slots -> SlotRow] /\ build'[b] = slot
      /\ \A c \in Slots : c # b => build'[c] = build[c]
  BY <1>3, <1>5 DEF PubInv, TypeOK
<1>9. TypeOK' /\ PresentIsPast'
  BY <1>1, <1>4, <1>6, <1>7, <1>8 DEF PubInv, TypeOK, PresentIsPast, source, queue
<1>10. gen[n].status = "absent"
  BY <1>1 DEF PubInv, Fresh
<1>11. Published' = Published /\ n \notin Published
  BY <1>2, <1>7, <1>10 DEF Published
<1>12. \A c \in Slots : c # b /\ Building(c)' => Building(c) /\ build[c].gen # n
  BY <1>8, <1>10 DEF Building, PubInv, Owned
<1>13. OnePublished' /\ Owned'
  <2>1. OnePublished'
    BY <1>11 DEF PubInv, OnePublished
  <2>2. \A c \in Slots : c # b /\ Building(c)
            => build[c].gen \in Generations /\ gen[build[c].gen].status = "building"
    BY DEF PubInv, Owned
  <2>3. \A c, d \in Slots : Building(c) /\ Building(d) /\ build[c].gen = build[d].gen => c = d
    BY DEF PubInv, Owned
  <2> QED BY <1>1, <1>2, <1>3, <1>7, <1>8, <1>12, <2>1, <2>2, <2>3 DEF Owned
<1>14. Fresh'
  BY <1>1, <1>4, <1>7 DEF PubInv, Fresh, TypeOK, Generations
<1>15. ASSUME NEW c \in Slots, Building(c)' PROVE Progress(c)'
  <2>1. CASE c = b
    BY <1>2, <1>3, <1>7, <1>8, <2>1 DEF Progress
  <2>2. CASE c # b
    <3>1. Progress(c) /\ gen'[build[c].gen] = gen[build[c].gen]
      BY <1>7, <1>12, <1>15, <2>2 DEF PubInv, Content, Owned
    <3> QED BY <1>6, <1>8, <2>2, <3>1, ProgressKept
  <2> QED BY <2>1, <2>2
<1>16. \A g \in Published' : Whole(gen'[g]) /\ gen'[g].want \in past'
  BY <1>6, <1>7, <1>11 DEF PubInv, Content, Published
<1>17. Swapped'
  <2>1. \A c \in Slots : build'[c].pc = "cleanup" => build[c].pc = "cleanup" /\ c # b
    BY <1>3, <1>8
  <2>2. \A c \in Slots : build[c].pc = "cleanup"
          => /\ build[c].gen \in Generations /\ build[c].gen <= clock
             /\ build[c].gen # n /\ build[c].gen <= clock'
             /\ gen[build[c].gen].status # "building"
    BY <1>1, <1>4 DEF PubInv, Swapped, TypeOK, Generations
  <2> QED BY <1>7, <1>8, <2>1, <2>2 DEF Swapped
<1> QED BY <1>9, <1>13, <1>14, <1>15, <1>16, <1>17 DEF PubInv, Content

(* The type half of a step inside 'building'. *)
LEMMA OwnType ==
    ASSUME PubInv, NEW b \in Slots, Building(b),
           NEW row \in GenRow, gen' = [gen EXCEPT ![build[b].gen] = row],
           NEW slot \in SlotRow, build' = [build EXCEPT ![b] = slot],
           UNCHANGED <<source, clock, queue, faults>>
    PROVE  TypeOK' /\ PresentIsPast' /\ build'[b] = slot /\ gen'[build[b].gen] = row
BY BuildingTypes DEF PubInv, TypeOK, PresentIsPast, source, queue

LEMMA SelectInv == ASSUME PubInv, NEW b \in Slots, Select(b) PROVE PubInv'
<1> DEFINE n == build[b].gen
           row == [gen[n] EXCEPT !.want = verified]
           slot == [build[b] EXCEPT !.pc = "insert", !.todo = Selected]
<1>1. Building(b)
  BY DEF Select, Building
<1>2. /\ row \in GenRow /\ row.status = "building" /\ row.want = verified
      /\ row.offers = {}
  BY <1>1, BuildingTypes DEF Select, Progress, GenRow, PubInv, TypeOK
<1>3. slot \in SlotRow /\ slot.gen = n /\ slot.pc = "insert" /\ slot.todo = Selected
  BY <1>1, BuildingTypes, SelectedType DEF SlotRow, PubInv
<1>4. gen' = [gen EXCEPT ![n] = row] /\ build' = [build EXCEPT ![b] = slot]
  BY <1>1 DEF Select, PubInv, TypeOK
<1>5. UNCHANGED <<source, clock, queue, faults>> /\ past' = past
  BY DEF Select, source
<1> HIDE DEF row, slot
<1>6. TypeOK' /\ PresentIsPast' /\ build'[b] = slot /\ gen'[n] = row
  BY <1>1, <1>2, <1>3, <1>4, <1>5, OwnType
<1>7. Building(b)'
  BY <1>3, <1>6 DEF Building
<1>8. verified \in past
  BY DEF PubInv, PresentIsPast
<1>9. Progress(b)'
  BY <1>2, <1>3, <1>5, <1>6, <1>8, SelectedType DEF Progress, PubInv
<1> QED BY <1>1, <1>2, <1>3, <1>4, <1>5, <1>6, <1>7, <1>9, OwnStep DEF PubInv

LEMMA InsertOffersInv == ASSUME PubInv, NEW b \in Slots, InsertOffers(b) PROVE PubInv'
<1> DEFINE n == build[b].gen
<1>1. Building(b) /\ build[b].pc = "insert"
  BY DEF InsertOffers, Building
<1>2. PICK chunk \in SUBSET build[b].todo :
        /\ gen' = [gen EXCEPT ![n].offers = @ \cup chunk]
        /\ build' = [build EXCEPT ![b].todo = @ \ chunk]
  BY DEF InsertOffers
<1> DEFINE row == [gen[n] EXCEPT !.offers = gen[n].offers \cup chunk]
           slot == [build[b] EXCEPT !.todo = build[b].todo \ chunk]
<1>3. /\ row \in GenRow /\ row.status = "building" /\ row.want = gen[n].want
      /\ row.offers = gen[n].offers \cup chunk
  BY <1>1, <1>2, BuildingTypes DEF GenRow, SlotRow
<1>4. /\ slot \in SlotRow /\ slot.gen = n /\ slot.pc = "insert"
      /\ slot.todo = build[b].todo \ chunk
  BY <1>1, BuildingTypes DEF SlotRow
<1>5. gen' = [gen EXCEPT ![n] = row] /\ build' = [build EXCEPT ![b] = slot]
  BY <1>1, <1>2 DEF PubInv, TypeOK
<1>6. UNCHANGED <<source, clock, queue, faults>> /\ past' = past
  BY DEF InsertOffers, source
<1> HIDE DEF row, slot
<1>7. TypeOK' /\ PresentIsPast' /\ build'[b] = slot /\ gen'[n] = row
  BY <1>1, <1>3, <1>4, <1>5, <1>6, OwnType
<1>8. Building(b)'
  BY <1>4, <1>7 DEF Building
<1>9. gen[n].offers \cup build[b].todo = row.offers \cup slot.todo
  BY <1>2, <1>3, <1>4
<1>10. Progress(b)'
  BY <1>1, <1>3, <1>4, <1>6, <1>7, <1>9, BuildingTypes DEF Progress
<1> QED BY <1>1, <1>3, <1>4, <1>5, <1>6, <1>7, <1>8, <1>10, OwnStep DEF PubInv

LEMMA InsertSummaryInv == ASSUME PubInv, NEW b \in Slots, InsertSummary(b) PROVE PubInv'
<1> DEFINE n == build[b].gen
           row == [gen[n] EXCEPT !.summary = {p[1] : p \in gen[n].want}]
           slot == [build[b] EXCEPT !.pc = "gate"]
<1>1. Building(b) /\ build[b].pc = "insert" /\ build[b].todo = {}
  BY DEF InsertSummary, Building, AllInserted
<1>2. gen[n] \in GenRow /\ {p[1] : p \in gen[n].want} \in SUBSET Variants
  BY <1>1, BuildingTypes DEF GenRow, Pairs
<1>3. /\ row \in GenRow /\ row.status = "building" /\ row.want = gen[n].want
      /\ row.offers = gen[n].offers /\ row.summary = {p[1] : p \in row.want}
  BY <1>1, <1>2, BuildingTypes DEF GenRow
<1>4. slot \in SlotRow /\ slot.gen = n /\ slot.pc = "gate"
  BY <1>1, BuildingTypes DEF SlotRow
<1>5. gen' = [gen EXCEPT ![n] = row] /\ build' = [build EXCEPT ![b] = slot]
  BY <1>1 DEF InsertSummary, Goto, PubInv, TypeOK
<1>6. UNCHANGED <<source, clock, queue, faults>> /\ past' = past
  BY DEF InsertSummary, source
<1>7. gen[n].offers \cup build[b].todo = gen[n].offers
  BY <1>1
<1>8. Progress(b)
  BY <1>1, BuildingTypes
<1>9. Whole(row)
  BY <1>1, <1>3, <1>7, <1>8 DEF Progress, Whole, OncePerPair
<1> HIDE DEF row, slot
<1>10. TypeOK' /\ PresentIsPast' /\ build'[b] = slot /\ gen'[n] = row
  BY <1>1, <1>3, <1>4, <1>5, <1>6, OwnType
<1>11. Building(b)'
  BY <1>4, <1>10 DEF Building
<1>12. Progress(b)'
  BY <1>1, <1>3, <1>4, <1>6, <1>8, <1>9, <1>10 DEF Progress
<1> QED BY <1>1, <1>3, <1>4, <1>5, <1>6, <1>10, <1>11, <1>12, OwnStep DEF PubInv

LEMMA CheckGateInv == ASSUME PubInv, NEW b \in Slots, CheckGate(b) PROVE PubInv'
<1> DEFINE n == build[b].gen
           rows == gen[n].offers
           row == [gen[n] EXCEPT !.offers = {Marked(o) : o \in rows}]
           slot == [build[b] EXCEPT !.pc = "decide", !.passed = DenominatorsMatch(rows)]
<1>1. Building(b) /\ build[b].pc = "gate"
  BY DEF CheckGate, Building
<1>2. rows \in SUBSET Offers
  BY <1>1, BuildingTypes DEF GenRow
<1>3. /\ row \in GenRow /\ row.status = "building" /\ row.want = gen[n].want
      /\ row.offers = {Marked(o) : o \in rows} /\ row.summary = gen[n].summary
  BY <1>1, <1>2, BuildingTypes, MarkedKeeps DEF GenRow
<1>4. DenominatorsMatch(rows) \in BOOLEAN
  BY DEF DenominatorsMatch
<1>5. slot \in SlotRow /\ slot.gen = n /\ slot.pc = "decide"
  BY <1>1, <1>4, BuildingTypes DEF SlotRow
<1>6. gen' = [gen EXCEPT ![n] = row] /\ build' = [build EXCEPT ![b] = slot]
  BY <1>1 DEF CheckGate, PubInv, TypeOK
<1>7. UNCHANGED <<source, clock, queue, faults>> /\ past' = past
  BY DEF CheckGate, source
<1>8. Whole(gen[n]) /\ gen[n].want \in past
  BY <1>1, BuildingTypes DEF Progress
<1>9. Whole(row)
  <2>1. PairsOf(row.offers) = PairsOf(rows)
    BY <1>2, <1>3, MarkedKeeps DEF PairsOf
  <2>2. \A o1, o2 \in row.offers : o1.variant = o2.variant /\ o1.shop = o2.shop => o1 = o2
    BY <1>2, <1>3, <1>8, MarkedKeeps DEF Whole
  <2> QED BY <1>3, <1>8, <2>1, <2>2 DEF Whole
<1> HIDE DEF row, slot
<1>10. TypeOK' /\ PresentIsPast' /\ build'[b] = slot /\ gen'[n] = row
  BY <1>1, <1>3, <1>5, <1>6, <1>7, OwnType
<1>11. Building(b)'
  BY <1>5, <1>10 DEF Building
<1>12. Progress(b)'
  BY <1>3, <1>5, <1>7, <1>8, <1>9, <1>10 DEF Progress
<1> QED BY <1>1, <1>3, <1>5, <1>6, <1>7, <1>10, <1>11, <1>12, OwnStep DEF PubInv

LEMMA SupersedeInv == ASSUME PubInv, NEW b \in Slots, Supersede(b) PROVE PubInv'
<1> DEFINE n == build[b].gen
           row == gen[n]
           slot == [build[b] EXCEPT !.pc = "commit", !.seen = Current]
<1>1. Building(b) /\ build[b].pc = "decide"
  BY DEF Supersede, Publishable, Building
<1>2. Current \in 0..MaxGeneration
  BY PublicationAssumption DEF Current, Published, Generations
<1>3. slot \in SlotRow /\ slot.gen = n /\ slot.pc = "commit"
  BY <1>1, <1>2, BuildingTypes DEF SlotRow
<1>4. row \in GenRow /\ row.status = "building"
  BY <1>1, BuildingTypes
<1>5. gen' = [gen EXCEPT ![n] = row] /\ build' = [build EXCEPT ![b] = slot]
  BY <1>1 DEF Supersede, PubInv, TypeOK
<1>6. UNCHANGED <<source, clock, queue, faults>> /\ past' = past
  BY DEF Supersede, source
<1> HIDE DEF row, slot
<1>7. TypeOK' /\ PresentIsPast' /\ build'[b] = slot /\ gen'[n] = row
  BY <1>1, <1>3, <1>4, <1>5, <1>6, OwnType
<1>8. Building(b)'
  BY <1>3, <1>7 DEF Building
<1>9. Progress(b)'
  BY <1>1, <1>3, <1>6, <1>7, BuildingTypes DEF Progress, row
<1> QED BY <1>1, <1>3, <1>4, <1>5, <1>6, <1>7, <1>8, <1>9, OwnStep DEF PubInv

LEMMA CommitInv == ASSUME PubInv, NEW b \in Slots, Commit(b) PROVE PubInv'
<1> DEFINE n == build[b].gen
           slot == [build[b] EXCEPT !.pc = "cleanup"]
<1>1. Building(b) /\ build[b].pc = "commit"
  BY DEF Commit, Building
<1>2. slot \in SlotRow /\ slot.pc = "cleanup"
  BY <1>1, BuildingTypes DEF SlotRow
<1>3. build' = [build EXCEPT ![b] = slot]
  BY <1>1 DEF Commit, Goto, PubInv, TypeOK
<1>4. build' \in [Slots -> SlotRow] /\ build'[b] = slot
      /\ \A c \in Slots : c # b => build'[c] = build[c]
  BY <1>2, <1>3 DEF PubInv, TypeOK
<1> HIDE DEF slot
<1>5. \A g \in Published : g = build[b].seen
  BY DEF Commit, Refused
<1>6. /\ n \in Generations /\ gen'[n] = [gen[n] EXCEPT !.status = "published"]
      /\ gen[n].status = "building" /\ gen[n] \in GenRow /\ n <= clock
      /\ Whole(gen[n]) /\ gen[n].want \in past
  BY <1>1, BuildingTypes DEF Commit, Progress
<1>7. \A g \in Generations : g # n =>
        \/ g \in Published /\ gen'[g] = Unread("superseded")
        \/ g \notin Published /\ gen'[g] = gen[g]
  BY <1>5 DEF Commit, Published
<1>8. Published' = {n}
  BY <1>6, <1>7, UnreadType DEF Published, GenRow
<1>9. UNCHANGED <<source, clock, queue, faults>> /\ past' = past
  BY DEF Commit, source
<1>10. TypeOK' /\ PresentIsPast'
  <2>1. gen'[n] \in GenRow
    BY <1>6 DEF GenRow
  <2>2. \A g \in Generations : gen'[g] \in GenRow
    BY <1>7, <2>1, UnreadType DEF PubInv, TypeOK
  <2>3. gen' \in [Generations -> GenRow]
    BY <2>2 DEF Commit
  <2> QED BY <1>4, <1>9, <2>3 DEF PubInv, TypeOK, PresentIsPast, source, queue
<1>11. OnePublished'
  BY <1>8 DEF OnePublished
<1>12. \A c \in Slots : Building(c)' => c # b /\ Building(c)
  BY <1>2, <1>4 DEF Building
<1>13. \A c \in Slots : c # b /\ Building(c)
         => /\ build[c].gen \in Generations /\ build[c].gen # n
            /\ gen'[build[c].gen] = gen[build[c].gen]
  BY <1>1, <1>7 DEF PubInv, Owned, Published
<1>14. Owned'
  BY <1>4, <1>12, <1>13 DEF PubInv, Owned
<1>15. Fresh'
  <2> SUFFICES ASSUME NEW g \in Generations, g > clock PROVE gen'[g].status = "absent"
    BY <1>9 DEF Fresh
  <2>1. gen[g].status = "absent" /\ g # n
    BY <1>6 DEF PubInv, Fresh
  <2> QED BY <1>7, <2>1 DEF Published
<1>16. ASSUME NEW c \in Slots, Building(c)' PROVE Progress(c)'
  <2>1. Progress(c) /\ build'[c] = build[c] /\ gen'[build[c].gen] = gen[build[c].gen]
    BY <1>4, <1>12, <1>13, <1>16 DEF PubInv, Content
  <2> QED BY <1>9, <2>1, ProgressKept
<1>17. \A g \in Published' : Whole(gen'[g]) /\ gen'[g].want \in past'
  BY <1>6, <1>8, <1>9 DEF Whole, GenRow
<1>18. Swapped'
  <2>1. \A c \in Slots : build'[c].pc = "cleanup" => c = b \/ build[c].pc = "cleanup"
    BY <1>4
  <2>2. gen'[n].status = "published"
    BY <1>6 DEF GenRow
  <2>3. \A c \in Slots : build[c].pc = "cleanup"
          => /\ build[c].gen \in Generations /\ build[c].gen <= clock
             /\ gen'[build[c].gen].status # "building"
    BY <1>7, <2>2, UnreadType DEF PubInv, Swapped
  <2>4. build'[b].gen = n
    BY <1>1, <1>4, BuildingTypes DEF SlotRow, slot
  <2> QED BY <1>1, <1>4, <1>6, <1>9, <2>1, <2>2, <2>3, <2>4 DEF Swapped
<1> QED BY <1>10, <1>11, <1>14, <1>15, <1>16, <1>17, <1>18 DEF PubInv, Content

(* The type half of a step that ends the work of a slot. *)
LEMMA EndType ==
    ASSUME PubInv, NEW b \in Slots, build' = [build EXCEPT ![b] = IdleSlot],
           gen' \in [Generations -> GenRow], job' \in [Keys -> JobRow],
           faults' \in 0..MaxFaults, UNCHANGED <<source, clock, bucket, owed>>
    PROVE  TypeOK' /\ PresentIsPast'
BY IdleSlotType DEF PubInv, TypeOK, PresentIsPast, source

LEMMA ReturnThrow ==
    ASSUME PubInv, NEW b \in Slots, build[b].pc # "idle", Return(b) \/ Throw(b)
    PROVE  build' = [build EXCEPT ![b] = IdleSlot] /\ job' \in [Keys -> JobRow]
<1>1. build[b].key \in Keys
  BY DEF PubInv, TypeOK, SlotRow
<1>2. job[build[b].key] \in JobRow
  BY <1>1 DEF PubInv, TypeOK
<1>3. AfterThrow(job[build[b].key]) \in JobRow /\ NoJob \in JobRow
  BY <1>2, JobRows
<1> QED BY <1>1, <1>3 DEF Return, Throw, PubInv, TypeOK

(* A slot that builds turns its generation into an unread one, and lets go. *)
LEMMA AbandonInv ==
    ASSUME PubInv, NEW b \in Slots, Building(b),
           NEW status \in {"quarantined", "failed"},
           gen' = [gen EXCEPT ![build[b].gen] = Unread(status)],
           Return(b) \/ Throw(b), faults' \in 0..MaxFaults,
           UNCHANGED <<source, clock, bucket, owed>>
    PROVE  PubInv'
<1> DEFINE n == build[b].gen
<1>1. n \in Generations /\ n <= clock
  BY BuildingTypes
<1>2. Unread(status) \in GenRow /\ Unread(status).status = status
  BY UnreadType
<1>3. gen' \in [Generations -> GenRow] /\ gen'[n].status = status
      /\ \A g \in Generations : g # n => gen'[g] = gen[g]
  BY <1>1, <1>2 DEF PubInv, TypeOK
<1>4. build' = [build EXCEPT ![b] = IdleSlot] /\ job' \in [Keys -> JobRow]
  BY ReturnThrow DEF Building
<1>5. TypeOK' /\ PresentIsPast'
  BY <1>3, <1>4, EndType
<1>6. \A c \in Slots : c # b /\ Building(c) => build[c].gen # n
  BY DEF PubInv, Owned
<1>7. UNCHANGED <<clock, past>>
  BY DEF source
<1>8. \A g \in Generations :
        \/ gen'[g] = gen[g]
        \/ /\ \A c \in Slots : c # b /\ Building(c) => build[c].gen # g
           /\ g <= clock
           /\ gen'[g].status \notin {"published", "building"}
  BY <1>1, <1>3, <1>6
<1>9. OnePublished' /\ Owned' /\ Swapped' /\ Fresh' /\ Content'
  BY <1>4, <1>7, <1>8, OwnEnd
<1> QED BY <1>5, <1>9 DEF PubInv

LEMMA QuarantineInv == ASSUME PubInv, NEW b \in Slots, Quarantine(b) PROVE PubInv'
<1>1. Building(b)
  BY DEF Quarantine, Building
<1>2. faults' \in 0..MaxFaults
  BY DEF Quarantine, PubInv, TypeOK
<1> QED BY <1>1, <1>2, AbandonInv DEF Quarantine

LEMMA CommitRefusedInv == ASSUME PubInv, NEW b \in Slots, CommitRefused(b) PROVE PubInv'
<1>1. Building(b)
  BY DEF CommitRefused, Building
<1>2. faults' \in 0..MaxFaults
  BY DEF CommitRefused, PubInv, TypeOK
<1> QED BY <1>1, <1>2, AbandonInv DEF CommitRefused

LEMMA CleanupInv == ASSUME PubInv, NEW b \in Slots, Cleanup(b) PROVE PubInv'
<1>1. build' = [build EXCEPT ![b] = IdleSlot] /\ job' \in [Keys -> JobRow]
  BY ReturnThrow DEF Cleanup
<1>2. Absent \in GenRow /\ Absent.status = "absent"
  BY UnreadType DEF Absent
<1>3. gen' \in [Generations -> GenRow]
  BY <1>2 DEF Cleanup, PubInv, TypeOK
<1>4. \A g \in Generations :
        \/ gen'[g] = gen[g]
        \/ gen[g].status = "superseded" /\ gen'[g].status = "absent"
  BY <1>2 DEF Cleanup, Expired, Superseded
<1>5. faults' \in 0..MaxFaults /\ UNCHANGED <<source, clock, bucket, owed, past>>
  BY DEF Cleanup, PubInv, TypeOK, source
<1>6. TypeOK' /\ PresentIsPast'
  BY <1>1, <1>3, <1>5, EndType
<1>7. \A g \in Generations : gen[g].status = "superseded" =>
        g <= clock /\ \A c \in Slots : Building(c) => build[c].gen # g
  BY DEF PubInv, Owned, Fresh, TypeOK, Generations
<1>8. OnePublished' /\ Owned' /\ Swapped' /\ Fresh' /\ Content'
  BY <1>1, <1>4, <1>5, <1>7, OwnEnd
<1> QED BY <1>6, <1>8 DEF PubInv

LEMMA FailInv == ASSUME PubInv, NEW b \in Slots, Fail(b) PROVE PubInv'
<1> DEFINE n == build[b].gen
<1>1. build' = [build EXCEPT ![b] = IdleSlot] /\ job' \in [Keys -> JobRow]
  BY ReturnThrow DEF Fail
<1>2. faults' \in 0..MaxFaults /\ UNCHANGED <<source, clock, bucket, owed, past>>
  BY PublicationAssumption DEF Fail, PubInv, TypeOK, source
<1>3. CASE Building(b) /\ gen' = [gen EXCEPT ![n] = Unread("failed")]
  BY <1>2, <1>3, AbandonInv DEF Fail
<1>4. CASE UNCHANGED gen
  <2>1. TypeOK' /\ PresentIsPast'
    BY <1>1, <1>2, <1>4, EndType DEF PubInv, TypeOK
  <2> QED BY <1>1, <1>2, <1>4, <2>1, OwnEnd DEF PubInv
<1>5. CASE ~Building(b) /\ gen' = [gen EXCEPT ![n] = Unread("failed")]
  <2>1. build[b] \in SlotRow
    BY DEF PubInv, TypeOK
  <2>2. build[b].pc = "cleanup"
    BY <1>5, <2>1 DEF Fail, Building, SlotRow
  <2>3. n \in Generations /\ n <= clock /\ gen[n].status # "building"
    BY <2>2 DEF PubInv, Swapped
  <2>4. gen' \in [Generations -> GenRow] /\ gen'[n].status = "failed"
        /\ \A g \in Generations : g # n => gen'[g] = gen[g]
    BY <1>5, <2>3, UnreadType DEF PubInv, TypeOK
  <2>5. \A c \in Slots : Building(c) => build[c].gen # n
    BY <2>3 DEF PubInv, Owned
  <2>6. TypeOK' /\ PresentIsPast'
    BY <1>1, <1>2, <2>4, EndType
  <2>7. \A g \in Generations :
          \/ gen'[g] = gen[g]
          \/ /\ \A c \in Slots : c # b /\ Building(c) => build[c].gen # g
             /\ g <= clock
             /\ gen'[g].status \notin {"published", "building"}
    BY <2>3, <2>4, <2>5
  <2>8. OnePublished' /\ Owned' /\ Swapped' /\ Fresh' /\ Content'
    BY <1>1, <1>2, <2>7, OwnEnd
  <2> QED BY <2>6, <2>8 DEF PubInv
<1> QED BY <1>3, <1>4, <1>5 DEF Fail

LEMMA CrashInv == ASSUME PubInv, NEW b \in Slots, Crash(b) PROVE PubInv'
<1>1. build' = [build EXCEPT ![b] = IdleSlot] /\ UNCHANGED <<source, gen, clock, queue, past>>
  BY DEF Crash, source
<1>2. faults' \in 0..MaxFaults
  BY PublicationAssumption DEF Crash, PubInv, TypeOK
<1>3. TypeOK' /\ PresentIsPast'
  BY <1>1, <1>2, EndType DEF PubInv, TypeOK, queue
<1> QED BY <1>1, <1>3, OwnEnd DEF PubInv

-----------------------------------------------------------------------------
(* The queue and the source. *)

LEMMA QueueInv ==
    ASSUME PubInv,
           ScheduleRebuild \/ RequestRebuild \/ RequestLost
             \/ \E k \in Keys : StalledCheck(k)
    PROVE  PubInv'
<1>1. UNCHANGED <<source, gen, clock, build, past>>
  BY DEF ScheduleRebuild, RequestRebuild, RequestLost, StalledCheck, source
<1>2. 0 \in Keys /\ bucket \in Keys
  BY PublicationAssumption DEF PubInv, TypeOK, Keys
<1>3. job' \in [Keys -> JobRow]
  <2>1. \A k \in Keys : /\ Scheduled(job[k]) \in JobRow
                       /\ [job[k] EXCEPT !.state = "waiting"] \in JobRow
    BY JobRows DEF PubInv, TypeOK
  <2>2. ASSUME NEW k \in Keys, StalledCheck(k) PROVE job' \in [Keys -> JobRow]
    <3>1. job' = [job EXCEPT ![k] = [job[k] EXCEPT !.state = "waiting"]]
      BY <2>2 DEF StalledCheck, PubInv, TypeOK
    <3> QED BY <2>1, <3>1 DEF PubInv, TypeOK
  <2> QED BY <1>2, <2>1, <2>2
        DEF ScheduleRebuild, RequestRebuild, RequestLost, PubInv, TypeOK
<1>4. bucket' \in 1..MaxBucket /\ owed' \in BOOLEAN /\ faults' \in 0..MaxFaults
  <2>1. bucket' = bucket \/ bucket' \in bucket..MaxBucket
    BY DEF ScheduleRebuild, RequestRebuild, RequestLost, StalledCheck
  <2>2. owed' = owed \/ owed' = FALSE
    BY DEF ScheduleRebuild, RequestRebuild, RequestLost, StalledCheck
  <2>3. faults' = faults \/ (faults < MaxFaults /\ faults' = faults + 1)
    BY DEF ScheduleRebuild, RequestRebuild, RequestLost, StalledCheck
  <2>4. bucket' \in 1..MaxBucket
    BY <2>1, PublicationAssumption DEF PubInv, TypeOK
  <2>5. faults' \in 0..MaxFaults
    BY <2>3, PublicationAssumption DEF PubInv, TypeOK
  <2> QED BY <2>2, <2>4, <2>5 DEF PubInv, TypeOK
<1>5. TypeOK' /\ PresentIsPast'
  BY <1>1, <1>3, <1>4 DEF PubInv, TypeOK, PresentIsPast, source
<1> QED BY <1>1, <1>5, GenerationsKept DEF PubInv

LEMMA TakeInv ==
    ASSUME PubInv, NEW b \in Slots, NEW k \in Keys, Take(b, k) PROVE PubInv'
<1> DEFINE slot == [IdleSlot EXCEPT !.pc = "begin", !.key = k]
<1>1. slot \in SlotRow /\ slot.pc = "begin"
  BY IdleSlotType DEF IdleSlot, SlotRow
<1>2. [job[k] EXCEPT !.state = "active"] \in JobRow
  BY JobRows DEF PubInv, TypeOK
<1>3. UNCHANGED <<source, gen, clock, bucket, owed, faults, past>>
  BY DEF Take, source
<1>4. build' = [build EXCEPT ![b] = slot]
  BY DEF Take
<1>5. job' = [job EXCEPT ![k] = [job[k] EXCEPT !.state = "active"]]
  BY DEF Take, PubInv, TypeOK
<1> HIDE DEF slot
<1>6. TypeOK' /\ PresentIsPast'
  BY <1>1, <1>2, <1>3, <1>4, <1>5 DEF PubInv, TypeOK, PresentIsPast, source
<1>7. \A c \in Slots : build'[c].pc \in {"idle", "begin"} \/ build'[c] = build[c]
  BY <1>1, <1>4 DEF PubInv, TypeOK
<1> QED BY <1>3, <1>6, <1>7, GenerationsKept DEF PubInv

LEMMA ReviewInv == ASSUME PubInv, NEW p \in Pairs, Review(p) PROVE PubInv'
<1>1. verified' \subseteq Pairs /\ verified' \in past' /\ past' = past \cup {verified'}
  BY DEF Review, PubInv, TypeOK
<1>2. changes' \in 0..MaxChanges
  BY PublicationAssumption DEF Review, Change, PubInv, TypeOK
<1>3. TypeOK' /\ PresentIsPast'
  BY <1>1, <1>2 DEF Review, PubInv, TypeOK, PresentIsPast
<1> QED BY <1>1, <1>3, GenerationsKept DEF PubInv, Review

LEMMA AgeInv == ASSUME PubInv, NEW s \in Shops, Age(s) PROVE PubInv'
<1>1. changes' \in 0..MaxChanges
  BY PublicationAssumption DEF Age, Change, PubInv, TypeOK
<1>2. TypeOK' /\ PresentIsPast'
  BY <1>1 DEF Age, PubInv, TypeOK, PresentIsPast, queue
<1> QED BY <1>2, GenerationsKept DEF PubInv, Age

LEMMA ShopGateInv == ASSUME PubInv, NEW s \in Shops, ShopGate(s) PROVE PubInv'
<1>1. changes' \in 0..MaxChanges
  BY PublicationAssumption DEF ShopGate, Change, PubInv, TypeOK
<1>2. UNCHANGED <<verified, past, clock, build, queue, old, faults>>
  BY DEF ShopGate
<1>3. \A g \in Generations :
        /\ gen'[g] \in GenRow /\ gen'[g].status = gen[g].status
        /\ gen'[g].offers = gen[g].offers /\ gen'[g].want = gen[g].want
        /\ gen'[g].summary = gen[g].summary
  <2> SUFFICES ASSUME NEW g \in Generations
               PROVE  /\ gen'[g] \in GenRow /\ gen'[g].status = gen[g].status
                      /\ gen'[g].offers = gen[g].offers /\ gen'[g].want = gen[g].want
                      /\ gen'[g].summary = gen[g].summary
    OBVIOUS
  <2>1. gen[g] \in GenRow
    BY DEF PubInv, TypeOK
  <2>2. gen'[g] = gen[g] \/ gen'[g] = [gen[g] EXCEPT !.steady = gen[g].steady \ {s}]
    BY DEF ShopGate
  <2> QED BY <2>1, <2>2 DEF GenRow
<1>4. TypeOK' /\ PresentIsPast'
  <2>1. gen' \in [Generations -> GenRow]
    BY <1>3 DEF ShopGate
  <2>2. bad' \subseteq Shops
    BY DEF ShopGate, PubInv, TypeOK
  <2> QED BY <1>1, <1>2, <2>1, <2>2 DEF PubInv, TypeOK, PresentIsPast, queue
<1>5. \A g \in Generations : Whole(gen[g]) => Whole(gen'[g])
  BY <1>3 DEF Whole
<1>6. Published' = Published
  BY <1>3 DEF Published
<1>7. \A b \in Slots : Building(b)' <=> Building(b)
  BY <1>2 DEF Building
<1>8. OnePublished' /\ Owned' /\ Swapped' /\ Fresh'
  BY <1>2, <1>3, <1>6, <1>7 DEF PubInv, OnePublished, Owned, Swapped, Fresh
<1>9. ASSUME NEW b \in Slots, Building(b)' PROVE Progress(b)'
  <2>1. Progress(b) /\ build[b].gen \in Generations
    BY <1>7, <1>9 DEF PubInv, Content, Owned
  <2> QED BY <1>2, <1>3, <1>5, <2>1 DEF Progress
<1>10. \A g \in Published' : Whole(gen'[g]) /\ gen'[g].want \in past'
  BY <1>2, <1>3, <1>5, <1>6 DEF PubInv, Content, Published
<1> QED BY <1>4, <1>8, <1>9, <1>10 DEF PubInv, Content

LEMMA UnchangedInv == ASSUME PubInv, UNCHANGED vars PROVE PubInv'
<1>1. UNCHANGED <<source, gen, clock, build, queue, faults, past>>
  BY DEF vars, source
<1>2. TypeOK' /\ PresentIsPast'
  BY <1>1 DEF PubInv, TypeOK, PresentIsPast, source, queue
<1> QED BY <1>1, <1>2, GenerationsKept DEF PubInv

LEMMA NextPubInv == PubInv /\ [Next]_vars => PubInv'
<1> SUFFICES ASSUME PubInv, [Next]_vars PROVE PubInv'
  OBVIOUS
<1>1. CASE \E p \in Pairs : Review(p)
  BY <1>1, ReviewInv
<1>2. CASE \E s \in Shops : Age(s) \/ ShopGate(s)
  BY <1>2, AgeInv, ShopGateInv
<1>3. CASE ScheduleRebuild \/ RequestRebuild \/ RequestLost
             \/ \E k \in Keys : StalledCheck(k)
  BY <1>3, QueueInv
<1>4. CASE \E b \in Slots, k \in Keys : Take(b, k)
  BY <1>4, TakeInv
<1>5. CASE \E b \in Slots : Rebuild(b)
  BY <1>5, BeginInv, SelectInv, InsertOffersInv, InsertSummaryInv, CheckGateInv,
     QuarantineInv, SupersedeInv, CommitInv, CommitRefusedInv, CleanupInv, FailInv, CrashInv
     DEF Rebuild
<1>6. CASE UNCHANGED vars
  BY <1>6, UnchangedInv
<1> QED BY <1>1, <1>2, <1>3, <1>4, <1>5, <1>6 DEF Next

(* The inductive invariant of rebuildAndPublish: who owns a generation in  *)
(* 'building', what it holds so far, and that only one is published.       *)
THEOREM Inductive == Spec => []PubInv
BY InitPubInv, NextPubInv, PTL DEF Spec

-----------------------------------------------------------------------------
(* The variables keep their types: in particular no rebuild is tried more  *)
(* often than the queue's attempts allow.                                  *)
THEOREM TypeCorrect == Spec => []TypeOK
<1>1. PubInv => TypeOK
  BY DEF PubInv
<1> QED BY <1>1, Inductive, PTL

(* Two rebuilds never publish at the same time, however their statements   *)
(* interleave, fail or crash.                                              *)
THEOREM SinglePublication == Spec => []OnePublished
<1>1. PubInv => OnePublished
  BY DEF PubInv
<1> QED BY <1>1, Inductive, PTL

(* No half-built generation is ever visible.                               *)
THEOREM NothingHalfBuilt == Spec => []PublishedWhole
<1>1. PubInv => PublishedWhole
  BY DEF PubInv, Content, PublishedWhole
<1> QED BY <1>1, Inductive, PTL

(* A reader finds one generation at most, and that one is whole.           *)
THEOREM OneWholeAlways == Spec => []OneWholePublished
<1>1. OnePublished /\ PublishedWhole => OneWholePublished
  BY DEF OneWholePublished
<1> QED BY <1>1, SinglePublication, NothingHalfBuilt, PTL

-----------------------------------------------------------------------------
(* What a reader sees changes only by a swap. *)

LEMMA ShownKept ==
    ASSUME PubInv, PubInv', Published' = Published,
           \A g \in Published : gen'[g].offers = gen[g].offers
    PROVE  Shown' = Shown
<1>1. CASE Published = {}
  BY <1>1 DEF Shown
<1>2. CASE Published # {}
  <2>1. PICK g \in Published : TRUE
    BY <1>2
  <2>2. Current = g
    BY <2>1 DEF PubInv, OnePublished, Current
  <2>3. Current' = g
    BY <2>1 DEF PubInv, OnePublished, Current
  <2> QED BY <2>1, <2>2, <2>3 DEF Shown
<1> QED BY <1>1, <1>2

(* Steps that change no generation which is, or comes to be, published. *)
LEMMA OthersStutter ==
    ASSUME PubInv, PubInv', UNCHANGED <<verified, past>>,
           \A g \in Generations :
             \/ gen'[g].status = gen[g].status /\ gen'[g].offers = gen[g].offers
             \/ gen[g].status # "published" /\ gen'[g].status # "published"
    PROVE  UNCHANGED <<verified, past, Shown>>
<1>1. Published' = Published /\ \A g \in Published : gen'[g].offers = gen[g].offers
  BY DEF Published
<1> QED BY <1>1, ShownKept

(* Only the generation a slot is building changes, and not to 'published'. *)
LEMMA OwnStutter ==
    ASSUME PubInv, PubInv', NEW b \in Slots, Building(b), UNCHANGED source,
           NEW row, row.status # "published", gen' = [gen EXCEPT ![build[b].gen] = row]
    PROVE  UNCHANGED <<verified, past, Shown>>
<1>1. build[b].gen \in Generations /\ gen[build[b].gen].status = "building"
  BY BuildingTypes
<1>2. \A g \in Generations :
        \/ gen'[g].status = gen[g].status /\ gen'[g].offers = gen[g].offers
        \/ gen[g].status # "published" /\ gen'[g].status # "published"
  BY <1>1 DEF PubInv, TypeOK
<1> QED BY <1>2, OthersStutter DEF source

LEMMA CommitPublishes ==
    ASSUME PubInv, PubInv', NEW b \in Slots, Commit(b)
    PROVE  Market!Publish
<1> DEFINE n == build[b].gen
<1>1. Building(b) /\ build[b].pc = "commit"
  BY DEF Commit, Building
<1>2. /\ n \in Generations /\ gen'[n] = [gen[n] EXCEPT !.status = "published"]
      /\ gen[n] \in GenRow /\ Whole(gen[n]) /\ gen[n].want \in past
  BY <1>1, BuildingTypes DEF Commit, Progress
<1>3. n \in Published'
  BY <1>2 DEF Published, GenRow
<1>4. Current' = n
  BY <1>3 DEF PubInv, OnePublished, Current
<1>5. gen'[n].offers = gen[n].offers
  BY <1>2 DEF GenRow
<1>6. Shown' = PairsOf(gen'[n].offers)
  BY <1>3, <1>4 DEF Shown
<1>7. Shown' \in past
  BY <1>2, <1>5, <1>6 DEF Whole
<1> QED BY <1>7 DEF Market!Publish, Commit, source

LEMMA RebuildStep ==
    ASSUME ~CleanupFaults, PubInv, PubInv', NEW b \in Slots, Rebuild(b)
    PROVE  Market!Publish \/ UNCHANGED <<verified, past, Shown>>
<1>1. CASE Begin(b)
  <2>1. gen[clock + 1].status = "absent" /\ clock + 1 \in Generations
    BY <1>1, PublicationAssumption DEF PubInv, Fresh, TypeOK, Generations, Begin
  <2>2. \A g \in Generations :
          \/ gen'[g].status = gen[g].status /\ gen'[g].offers = gen[g].offers
          \/ gen[g].status # "published" /\ gen'[g].status # "published"
    BY <1>1, <2>1 DEF Begin, PubInv, TypeOK
  <2> QED BY <1>1, <2>2, OthersStutter DEF Begin, source
<1>2. CASE Select(b) \/ InsertOffers(b) \/ InsertSummary(b) \/ CheckGate(b)
  <2>1. Building(b) /\ UNCHANGED source
    BY <1>2 DEF Select, InsertOffers, InsertSummary, CheckGate, Building
  <2>2. build[b].gen \in Generations /\ gen[build[b].gen] \in GenRow
        /\ gen[build[b].gen].status = "building"
    BY <2>1, BuildingTypes
  <2> DEFINE Kept == gen'[build[b].gen].status = "building"
                     /\ \A g \in Generations : g # build[b].gen => gen'[g] = gen[g]
  <2>3. CASE Select(b)
    <3>1. Kept
      BY <2>2, <2>3 DEF Select, PubInv, TypeOK, GenRow
    <3> QED BY <2>1, <2>2, <3>1, OthersStutter DEF source
  <2>4. CASE InsertOffers(b)
    <3>1. Kept
      BY <2>2, <2>4 DEF InsertOffers, PubInv, TypeOK, GenRow
    <3> QED BY <2>1, <2>2, <3>1, OthersStutter DEF source
  <2>5. CASE InsertSummary(b)
    <3>1. Kept
      BY <2>2, <2>5 DEF InsertSummary, PubInv, TypeOK, GenRow
    <3> QED BY <2>1, <2>2, <3>1, OthersStutter DEF source
  <2>6. CASE CheckGate(b)
    <3>1. Kept
      BY <2>2, <2>6 DEF CheckGate, PubInv, TypeOK, GenRow
    <3> QED BY <2>1, <2>2, <3>1, OthersStutter DEF source
  <2> QED BY <1>2, <2>3, <2>4, <2>5, <2>6
<1>3. CASE Quarantine(b) \/ CommitRefused(b)
  <2>1. Building(b) /\ UNCHANGED source
    BY <1>3 DEF Quarantine, CommitRefused, Building
  <2>2. PICK status \in {"quarantined", "failed"} :
          gen' = [gen EXCEPT ![build[b].gen] = Unread(status)]
    BY <1>3 DEF Quarantine, CommitRefused
  <2> QED BY <2>1, <2>2, UnreadType, OwnStutter
<1>4. CASE Supersede(b) \/ Crash(b)
  BY <1>4, OthersStutter DEF Supersede, Crash, source
<1>5. CASE Commit(b)
  BY <1>5, CommitPublishes
<1>6. CASE Cleanup(b)
  <2>1. \A g \in Generations :
          \/ gen'[g].status = gen[g].status /\ gen'[g].offers = gen[g].offers
          \/ gen[g].status # "published" /\ gen'[g].status # "published"
    BY <1>6, UnreadType DEF Cleanup, Expired, Superseded, Absent
  <2> QED BY <1>6, <2>1, OthersStutter DEF Cleanup, source
<1>7. CASE Fail(b)
  <2>1. build[b] \in SlotRow
    BY DEF PubInv, TypeOK
  <2>2. Building(b)
    BY <1>7, <2>1 DEF Fail, Building, SlotRow
  <2>3. UNCHANGED source
    BY <1>7 DEF Fail
  <2>4. CASE UNCHANGED gen
    BY <2>3, <2>4, OthersStutter DEF source
  <2>5. CASE gen' = [gen EXCEPT ![build[b].gen] = Unread("failed")]
    BY <2>2, <2>3, <2>5, UnreadType, OwnStutter
  <2> QED BY <1>7, <2>4, <2>5 DEF Fail
<1> QED BY <1>1, <1>2, <1>3, <1>4, <1>5, <1>6, <1>7 DEF Rebuild

LEMMA MarketInit == Init => Market!Init
BY DEF Init, Market!Init, Shown, Published, Absent, Unread

LEMMA MarketStep ==
    ASSUME ~CleanupFaults, PubInv, PubInv', [Next]_vars
    PROVE  [Market!Next]_<<verified, past, Shown>>
<1>1. CASE \E p \in Pairs : Review(p)
  <2>1. verified' \in SUBSET Pairs /\ past' = past \cup {verified'} /\ UNCHANGED gen
    BY <1>1 DEF Review, PubInv, TypeOK
  <2>2. UNCHANGED Shown
    BY <2>1, ShownKept DEF Published
  <2> QED BY <2>1, <2>2 DEF Market!Next, Market!Change
<1>2. CASE \E s \in Shops : Age(s)
  BY <1>2, OthersStutter DEF Age
<1>3. CASE \E s \in Shops : ShopGate(s)
  <2>1. \A g \in Generations :
          gen'[g].status = gen[g].status /\ gen'[g].offers = gen[g].offers
    <3> SUFFICES ASSUME NEW g \in Generations, NEW s \in Shops, ShopGate(s)
                 PROVE  gen'[g].status = gen[g].status /\ gen'[g].offers = gen[g].offers
      BY <1>3
    <3>1. gen[g] \in GenRow
      BY DEF PubInv, TypeOK
    <3>2. gen'[g] = gen[g] \/ gen'[g] = [gen[g] EXCEPT !.steady = gen[g].steady \ {s}]
      BY DEF ShopGate
    <3> QED BY <3>1, <3>2 DEF GenRow
  <2> QED BY <1>3, <2>1, OthersStutter DEF ShopGate
<1>4. CASE \/ ScheduleRebuild \/ RequestRebuild \/ RequestLost
           \/ \E k \in Keys : StalledCheck(k)
           \/ \E b \in Slots, k \in Keys : Take(b, k)
  BY <1>4, OthersStutter
     DEF ScheduleRebuild, RequestRebuild, RequestLost, StalledCheck, Take, source
<1>5. CASE \E b \in Slots : Rebuild(b)
  BY <1>5, RebuildStep DEF Market!Next
<1>6. CASE UNCHANGED vars
  BY <1>6, OthersStutter DEF vars, source
<1> QED BY <1>1, <1>2, <1>3, <1>4, <1>5, <1>6 DEF Next

(* As long as the cleanup DELETE does not fail, rebuildAndPublish - with   *)
(* all its slots, crashes, retries and refused commits - implements the    *)
(* PublishedMarket its readers rely on.                                    *)
THEOREM ImplementsMarket == ASSUME ~CleanupFaults PROVE Spec => PublishesSnapshots
<1>1. Init => Market!Init
  BY MarketInit
<1>2. PubInv /\ PubInv' /\ [Next]_vars => [Market!Next]_<<verified, past, Shown>>
  BY MarketStep
<1> QED BY <1>1, <1>2, Inductive, PTL DEF Spec, PublishesSnapshots, Market!Spec

-----------------------------------------------------------------------------
(* What the gate is sure of.  The shops that have been quarantined ever    *)
(* since a generation was begun are quarantined now, so that the gate,     *)
(* which looks only at its own moment, marks every one of them.            *)
AllMarked(row) == \A o \in row.offers : o.shop \in row.steady => o.stale

Judged(b) == build[b].pc \in {"decide", "commit"}

GateIsSure ==
    /\ \A g \in Generations : gen[g].steady \subseteq bad
    /\ \A b \in Slots : Judged(b) => AllMarked(gen[build[b].gen])
    /\ \A g \in Published : AllMarked(gen[g])

LEMMA UnreadSure == \A status : AllMarked(Unread(status)) /\ Unread(status).steady = {}
BY DEF AllMarked, Unread

(* Steps that leave the quarantines alone: a generation stays as it is, is *)
(* all marked, or is one that nobody has judged.                           *)
LEMMA SureKept ==
    ASSUME GateIsSure, UNCHANGED bad,
           \A g \in Generations :
              \/ gen'[g].offers = gen[g].offers /\ gen'[g].steady = gen[g].steady
              \/ gen'[g].steady \subseteq bad /\ AllMarked(gen'[g])
              \/ /\ gen'[g].steady \subseteq bad /\ gen'[g].status # "published"
                 /\ \A b \in Slots : Judged(b)' => build'[b].gen # g,
           \A g \in Published' : g \in Published \/ AllMarked(gen'[g]),
           \A b \in Slots : Judged(b)' =>
              /\ build'[b].gen \in Generations
              /\ \/ Judged(b) /\ build'[b].gen = build[b].gen
                 \/ AllMarked(gen'[build'[b].gen])
    PROVE  GateIsSure'
<1>1. \A g \in Generations : gen'[g].steady \subseteq bad'
  BY DEF GateIsSure
<1>2. ASSUME NEW b \in Slots, Judged(b)' PROVE AllMarked(gen[build[b].gen])'
  BY <1>2 DEF GateIsSure, AllMarked
<1>3. ASSUME NEW g \in Published' PROVE AllMarked(gen'[g])
  <2>1. g \in Generations /\ gen'[g].status = "published"
    BY <1>3 DEF Published
  <2> QED BY <1>3, <2>1 DEF GateIsSure, AllMarked
<1> QED BY <1>1, <1>2, <1>3 DEF GateIsSure, AllMarked

(* A slot works on a generation that is not judged yet.                    *)
LEMMA UnjudgedSure ==
    ASSUME PubInv, PubInv', GateIsSure, NEW b \in Slots, UNCHANGED bad,
           Building(b)', ~Judged(b)',
           \A c \in Slots : c # b => build'[c] = build[c],
           \A g \in Generations : g # build'[b].gen => gen'[g] = gen[g],
           gen'[build'[b].gen].steady \subseteq bad
    PROVE  GateIsSure'
<1> DEFINE n == build'[b].gen
<1>1. n \in Generations /\ gen'[n].status = "building"
  BY DEF PubInv, Owned
<1>2. \A c \in Slots : Judged(c)' => /\ c # b /\ Building(c)' /\ Judged(c)
                                     /\ build'[c].gen = build[c].gen
  BY DEF Judged, Building
<1>3. \A c \in Slots : Judged(c)' => build'[c].gen \in Generations /\ build'[c].gen # n
  BY <1>2 DEF PubInv, Owned
<1>4. \A g \in Published' : g \in Published
  BY <1>1 DEF Published
<1> HIDE DEF n
<1> QED BY <1>1, <1>2, <1>3, <1>4, SureKept DEF n

(* A slot lets go, and generations turn unread.                            *)
LEMMA ReleaseSure ==
    ASSUME PubInv, PubInv', GateIsSure, NEW b \in Slots, UNCHANGED bad,
           build' = [build EXCEPT ![b] = IdleSlot],
           \A g \in Generations : gen'[g] = gen[g]
              \/ \E status \in {"absent", "failed", "quarantined", "superseded"} :
                     gen'[g] = Unread(status)
    PROVE  GateIsSure'
<1>1. \A c \in Slots : Judged(c)' => Judged(c) /\ build'[c].gen = build[c].gen
  BY DEF Judged, PubInv, TypeOK, IdleSlot
<1>2. \A c \in Slots : Judged(c) => build[c].gen \in Generations
  BY DEF Judged, Building, PubInv, Owned
<1>3. \A g \in Published' : g \in Published
  BY UnreadType DEF Published
<1>4. \A g \in Generations : gen'[g] = gen[g] \/ (gen'[g].steady = {} /\ AllMarked(gen'[g]))
  BY UnreadSure
<1> QED BY <1>1, <1>2, <1>3, <1>4, SureKept

LEMMA CheckGateSure ==
    ASSUME PubInv, PubInv', GateIsSure, NEW b \in Slots, CheckGate(b) PROVE GateIsSure'
<1> DEFINE n == build[b].gen
<1>1. Building(b) /\ UNCHANGED bad
  BY DEF CheckGate, Building, source
<1>2. n \in Generations /\ gen[n] \in GenRow /\ gen[n].status = "building" /\ build[b] \in SlotRow
  BY <1>1, BuildingTypes
<1>3. /\ gen'[n] = [gen[n] EXCEPT !.offers = {Marked(o) : o \in gen[n].offers}]
      /\ \A g \in Generations : g # n => gen'[g] = gen[g]
  BY <1>2 DEF CheckGate, PubInv, TypeOK
<1>4. /\ gen'[n].offers = {Marked(o) : o \in gen[n].offers}
      /\ gen'[n].steady = gen[n].steady /\ gen'[n].status = "building"
      /\ gen[n].steady \subseteq bad
  BY <1>2, <1>3 DEF GenRow, GateIsSure
<1>5. AllMarked(gen'[n])
  <2>1. gen[n].offers \in SUBSET Offers
    BY <1>2 DEF GenRow
  <2>2. \A o \in gen[n].offers : Marked(o).shop \in bad => Marked(o).stale
    BY <2>1 DEF Marked, Offers
  <2> QED BY <1>4, <2>2 DEF AllMarked
<1>6. build'[b].gen = n /\ \A c \in Slots : c # b => build'[c] = build[c]
  BY <1>2 DEF CheckGate, PubInv, TypeOK, SlotRow
<1>7. \A c \in Slots : Judged(c)' => Building(c)'
  BY DEF Judged, Building
<1>8. \A c \in Slots : Judged(c)' => build'[c].gen \in Generations
  BY <1>7 DEF PubInv, Owned
<1>9. \A c \in Slots : Judged(c)' => c = b \/ (Judged(c) /\ build'[c].gen = build[c].gen)
  BY <1>6 DEF Judged
<1>10. \A g \in Published' : g \in Published
  BY <1>2, <1>3, <1>4 DEF Published
<1> HIDE DEF n
<1> QED BY <1>1, <1>3, <1>4, <1>5, <1>6, <1>8, <1>9, <1>10, SureKept

LEMMA CommitSure ==
    ASSUME PubInv, PubInv', GateIsSure, NEW b \in Slots, Commit(b) PROVE GateIsSure'
<1> DEFINE n == build[b].gen
<1>1. Building(b) /\ Judged(b) /\ UNCHANGED bad
  BY DEF Commit, Building, Judged, source
<1>2. n \in Generations /\ gen[n] \in GenRow /\ build[b] \in SlotRow
  BY <1>1, BuildingTypes
<1>3. AllMarked(gen[n]) /\ gen[n].steady \subseteq bad
  BY <1>1, <1>2 DEF GateIsSure
<1>4. \A g \in Generations :
        \/ g = n /\ gen'[g] = [gen[n] EXCEPT !.status = "published"]
        \/ g # n /\ gen'[g] = Unread("superseded")
        \/ g # n /\ gen'[g] = gen[g]
  BY DEF Commit
<1>5. gen'[n].offers = gen[n].offers /\ gen'[n].steady = gen[n].steady
  BY <1>2, <1>4 DEF GenRow
<1>6. AllMarked(gen'[n])
  BY <1>3, <1>5 DEF AllMarked
<1>7. build'[b].pc = "cleanup" /\ \A c \in Slots : c # b => build'[c] = build[c]
  BY <1>2 DEF Commit, Goto, PubInv, TypeOK, SlotRow
<1>8. \A c \in Slots : Judged(c)' => /\ Judged(c) /\ build'[c].gen = build[c].gen
                                     /\ Building(c)
  BY <1>7 DEF Judged, Building
<1>9. \A c \in Slots : Judged(c)' => build'[c].gen \in Generations
  BY <1>8 DEF PubInv, Owned
<1>10. \A g \in Published' : g \in Published \/ AllMarked(gen'[g])
  BY <1>4, <1>6, UnreadSure DEF Published
<1>11. \A g \in Generations :
          \/ gen'[g].offers = gen[g].offers /\ gen'[g].steady = gen[g].steady
          \/ gen'[g].steady \subseteq bad /\ AllMarked(gen'[g])
  <2>1. Unread("superseded").steady = {} /\ AllMarked(Unread("superseded"))
    BY UnreadSure
  <2> QED BY <1>4, <1>5, <2>1
<1> HIDE DEF n
<1> QED BY <1>1, <1>8, <1>9, <1>10, <1>11, SureKept

LEMMA ShopGateSure ==
    ASSUME PubInv, PubInv', GateIsSure, NEW s \in Shops, ShopGate(s) PROVE GateIsSure'
<1>1. UNCHANGED build
  BY DEF ShopGate
<1>2. ASSUME NEW g \in Generations
      PROVE  /\ gen'[g].status = gen[g].status /\ gen'[g].offers = gen[g].offers
             /\ gen'[g].steady \subseteq gen[g].steady /\ gen'[g].steady \subseteq bad'
  <2>1. gen[g] \in GenRow /\ gen[g].steady \subseteq bad
    BY DEF PubInv, TypeOK, GateIsSure
  <2>2. CASE s \in bad
    <3>1. bad' = bad \ {s} /\ gen'[g] = [gen[g] EXCEPT !.steady = gen[g].steady \ {s}]
      BY <2>2 DEF ShopGate
    <3> QED BY <2>1, <3>1 DEF GenRow
  <2>3. CASE s \notin bad
    BY <2>1, <2>3 DEF ShopGate
  <2> QED BY <2>2, <2>3
<1>3. \A g \in Generations : AllMarked(gen[g]) => AllMarked(gen'[g])
  BY <1>2 DEF AllMarked
<1>4. Published' = Published
  BY <1>2 DEF Published
<1>5. \A b \in Slots : Judged(b)' => Judged(b) /\ build[b].gen \in Generations
  BY <1>1 DEF Judged, Building, PubInv, Owned
<1>6. \A b \in Slots : Judged(b)' => AllMarked(gen'[build'[b].gen])
  BY <1>1, <1>3, <1>5 DEF GateIsSure
<1>7. \A g \in Published' : AllMarked(gen'[g])
  BY <1>3, <1>4 DEF GateIsSure, Published
<1> QED BY <1>2, <1>6, <1>7 DEF GateIsSure, AllMarked

(* Steps that change no generation, and judge none.                        *)
LEMMA IdleSure ==
    ASSUME PubInv, GateIsSure, UNCHANGED <<gen, bad>>,
           \A b \in Slots : Judged(b)' => Judged(b) /\ build'[b].gen = build[b].gen
    PROVE  GateIsSure'
<1>1. \A b \in Slots : Judged(b)' => build'[b].gen \in Generations
  BY DEF Judged, Building, PubInv, Owned
<1>2. Published' = Published
  BY DEF Published
<1> QED BY <1>1, <1>2, SureKept

LEMMA RebuildSure ==
    ASSUME PubInv, PubInv', GateIsSure, NEW b \in Slots, Rebuild(b) PROVE GateIsSure'
<1>0. build \in [Slots -> SlotRow] /\ gen \in [Generations -> GenRow]
  BY DEF PubInv, TypeOK
<1>1. CASE Begin(b)
  <2> DEFINE n == clock + 1
  <2>1. n \in Generations /\ n \in 0..MaxGeneration
    BY <1>1, PublicationAssumption DEF Begin, PubInv, TypeOK, Generations
  <2>2. /\ build'[b].pc = "select" /\ build'[b].gen = n
        /\ \A c \in Slots : c # b => build'[c] = build[c]
    BY <1>0, <1>1, <2>1 DEF Begin, SlotRow
  <2>3. gen'[n].steady = bad /\ \A g \in Generations : g # n => gen'[g] = gen[g]
    BY <1>0, <1>1, <2>1 DEF Begin
  <2>4. UNCHANGED bad
    BY <1>1 DEF Begin, source
  <2> QED BY <2>2, <2>3, <2>4, UnjudgedSure DEF Building, Judged
<1>2. CASE Select(b) \/ InsertOffers(b) \/ InsertSummary(b)
  <2> DEFINE n == build[b].gen
  <2>1. Building(b) /\ UNCHANGED bad
    BY <1>2 DEF Select, InsertOffers, InsertSummary, Building, source
  <2>2. n \in Generations /\ gen[n].steady \subseteq bad
    BY <2>1, BuildingTypes DEF GateIsSure
  <2>3. /\ build'[b].pc \in {"insert", "gate"} /\ build'[b].gen = n
        /\ \A c \in Slots : c # b => build'[c] = build[c]
    <3>1. CASE Select(b)
      BY <1>0, <3>1 DEF Select, SlotRow
    <3>2. CASE InsertOffers(b)
      BY <1>0, <3>2 DEF InsertOffers, SlotRow
    <3>3. CASE InsertSummary(b)
      BY <1>0, <3>3 DEF InsertSummary, Goto, SlotRow
    <3> QED BY <1>2, <3>1, <3>2, <3>3
  <2>4. /\ gen'[n].steady = gen[n].steady
        /\ \A g \in Generations : g # n => gen'[g] = gen[g]
    <3>1. CASE Select(b)
      BY <1>0, <2>2, <3>1 DEF Select, GenRow
    <3>2. CASE InsertOffers(b)
      BY <1>0, <2>2, <3>2 DEF InsertOffers, GenRow
    <3>3. CASE InsertSummary(b)
      BY <1>0, <2>2, <3>3 DEF InsertSummary, GenRow
    <3> QED BY <1>2, <3>1, <3>2, <3>3
  <2> QED BY <2>1, <2>2, <2>3, <2>4, UnjudgedSure DEF Building, Judged
<1>3. CASE CheckGate(b)
  BY <1>3, CheckGateSure
<1>4. CASE Quarantine(b) \/ CommitRefused(b)
  <2>1. Building(b) /\ UNCHANGED bad
    BY <1>4 DEF Quarantine, CommitRefused, Building, source
  <2>2. build' = [build EXCEPT ![b] = IdleSlot]
    BY <1>4 DEF Quarantine, CommitRefused, Return, Throw
  <2>3. \A g \in Generations : gen'[g] = gen[g]
              \/ \E status \in {"absent", "failed", "quarantined", "superseded"} :
                     gen'[g] = Unread(status)
    BY <1>0, <1>4 DEF Quarantine, CommitRefused
  <2> QED BY <2>1, <2>2, <2>3, ReleaseSure
<1>5. CASE Supersede(b)
  <2>1. UNCHANGED <<gen, bad>> /\ build[b].pc = "decide"
    BY <1>5 DEF Supersede, Publishable, source
  <2>2. \A c \in Slots : Judged(c)' => Judged(c) /\ build'[c].gen = build[c].gen
    BY <1>0, <1>5, <2>1 DEF Supersede, Judged, SlotRow
  <2> QED BY <2>1, <2>2, IdleSure
<1>6. CASE Commit(b)
  BY <1>6, CommitSure
<1>7. CASE Cleanup(b)
  <2>1. UNCHANGED bad /\ build' = [build EXCEPT ![b] = IdleSlot]
    BY <1>7 DEF Cleanup, Return, source
  <2>2. \A g \in Generations : gen'[g] = gen[g] \/ gen'[g] = Unread("absent")
    BY <1>7 DEF Cleanup, Absent
  <2> QED BY <2>1, <2>2, ReleaseSure
<1>8. CASE Fail(b)
  <2>1. UNCHANGED bad /\ build' = [build EXCEPT ![b] = IdleSlot]
    BY <1>8 DEF Fail, Throw, source
  <2>2. \A g \in Generations : gen'[g] = gen[g] \/ gen'[g] = Unread("failed")
    BY <1>0, <1>8 DEF Fail
  <2> QED BY <2>1, <2>2, ReleaseSure
<1>9. CASE Crash(b)
  <2>1. UNCHANGED <<gen, bad>> /\ build' = [build EXCEPT ![b] = IdleSlot]
    BY <1>9 DEF Crash, source
  <2> QED BY <2>1, ReleaseSure
<1> QED BY <1>1, <1>2, <1>3, <1>4, <1>5, <1>6, <1>7, <1>8, <1>9 DEF Rebuild

LEMMA NextSure ==
    ASSUME PubInv, PubInv', GateIsSure, [Next]_vars PROVE GateIsSure'
<1>1. CASE \E s \in Shops : ShopGate(s)
  BY <1>1, ShopGateSure
<1>2. CASE \E b \in Slots : Rebuild(b)
  BY <1>2, RebuildSure
<1>3. CASE \E b \in Slots, k \in Keys : Take(b, k)
  <2>1. PICK b \in Slots, k \in Keys : Take(b, k)
    BY <1>3
  <2>2. UNCHANGED <<gen, bad>> /\ build' = [build EXCEPT ![b] = [IdleSlot EXCEPT !.pc = "begin", !.key = k]]
    BY <2>1 DEF Take, source
  <2>3. \A c \in Slots : Judged(c)' => Judged(c) /\ build'[c].gen = build[c].gen
    BY <2>2 DEF Judged, PubInv, TypeOK, IdleSlot
  <2> QED BY <2>2, <2>3, IdleSure
<1>4. CASE \/ \E p \in Pairs : Review(p)
           \/ \E s \in Shops : Age(s)
           \/ ScheduleRebuild \/ RequestRebuild \/ RequestLost
           \/ \E k \in Keys : StalledCheck(k)
           \/ UNCHANGED vars
  <2>1. UNCHANGED <<gen, bad, build>>
    BY <1>4 DEF Review, Age, ScheduleRebuild, RequestRebuild, RequestLost, StalledCheck,
                vars, source
  <2> QED BY <2>1, IdleSure DEF Judged
<1> QED BY <1>1, <1>2, <1>3, <1>4 DEF Next

LEMMA InitSure == Init => GateIsSure
<1>1. Init => \A g \in Generations : gen[g].steady = {} /\ gen[g].status = "absent"
  BY DEF Init, Absent, Unread
<1> QED BY <1>1 DEF Init, GateIsSure, Judged, IdleSlot, Published

(* A shop that has been quarantined during the whole build of a generation *)
(* is nowhere shown fresh by it, whenever the gate looked.                 *)
THEOREM QuarantinedAlwaysStale == Spec => []QuarantinedShownStale
<1>1. GateIsSure => QuarantinedShownStale
  BY DEF GateIsSure, QuarantinedShownStale, AllMarked
<1>2. PubInv /\ PubInv' /\ GateIsSure /\ [Next]_vars => GateIsSure'
  BY NextSure
<1> QED BY <1>1, <1>2, InitSure, Inductive, PTL DEF Spec
=============================================================================
