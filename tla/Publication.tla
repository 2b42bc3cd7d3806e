----------------------------- MODULE Publication -----------------------------
(***************************************************************************)
(* The market publication: rebuild jobs of two origins under idempotency   *)
(* keys, worker slots that run rebuildAndPublish statement by statement -  *)
(* build a generation, gate it, swap it in, delete old ones - and the      *)
(* decisions, crawls and quarantines that change the source meanwhile.     *)
(*                                                                         *)
(* Every SQL statement that commits on its own is a step; the publishing   *)
(* transaction is two, since Postgres runs it READ COMMITTED: what its     *)
(* first statement sees may be superseded before its second one.           *)
(***************************************************************************)
EXTENDS Integers, FiniteSets

CONSTANTS
    Variants, Shops,
    Slots,          \* concurrent aggregate-dashboard jobs (8 in the worker)
    MaxGeneration,  \* bound on the rebuilds of a behaviour
    MaxBucket,      \* bound on the 30 s windows of human rebuild requests
    Keep,           \* superseded generations that survive the cleanup (5)
    MaxAttempts,    \* BullMQ attempts of a rebuild (3)
    MaxChanges,     \* bound on the changes of the source
    MaxFaults,      \* bound on crashes, failed statements and lost requests
    AutoPublish,    \* values of the auto_publish flag
    NothingShown,   \* the market before the first publication
    CleanupFaults   \* whether the cleanup DELETE may fail

ASSUME PublicationAssumption ==
    /\ IsFiniteSet(Shops)
    /\ MaxGeneration \in Nat
    /\ MaxBucket \in Nat \ {0}
    /\ Keep \in Nat
    /\ MaxAttempts \in Nat \ {0}
    /\ MaxChanges \in Nat
    /\ MaxFaults \in Nat
    /\ AutoPublish \subseteq BOOLEAN
    /\ CleanupFaults \in BOOLEAN

Pairs       == Variants \X Shops
Generations == 1..MaxGeneration

(* Key 0 is 'aggregate:rebuild', shared by the scheduler, the refresh and  *)
(* the matching; key n is 'aggregate:rebuild:human:n'.                     *)
Keys == 0..MaxBucket

(* market_offers, with what the gate and the readers tell apart. *)
Offers == [variant : Variants, shop : Shops, stale : BOOLEAN, denominator : Nat]

VARIABLES
    verified, \* (variant, shop) pairs that have an offer the SELECT accepts
    old,      \* shops whose observations are older than freshnessMaxHours
    bad,      \* shops with a quarantined crawl run in the last two days
    gen,      \* market_publications with their market_offers and summary
    clock,    \* the generation number (Date.now()) handed out last
    build,    \* what a slot is doing
    job,      \* BullMQ: the job of a key, [state, tries]
    bucket,   \* the 30 s window of the last human request
    owed,     \* decisions committed whose rebuild is not requested yet
    past,     \* observation: every value of verified so far
    changes,  \* changes of the source so far
    faults    \* faults so far

source == <<verified, old, bad, past, changes>>
queue  == <<job, bucket, owed>>
vars   == <<source, gen, clock, build, queue, faults>>

(* A generation in a status nobody reads: its offers are left out. *)
Unread(status) == [status |-> status, offers |-> {}, summary |-> {}, want |-> {}, steady |-> {}]
Absent    == Unread("absent")
IdleSlot  == [pc |-> "idle", key |-> 0, gen |-> 0, todo |-> {}, passed |-> FALSE, seen |-> 0]
NoJob     == [state |-> "none", tries |-> 0]
FreshJob  == [state |-> "waiting", tries |-> 0]

GenRow == [status : {"absent", "building", "published", "quarantined", "superseded", "failed"},
           offers : SUBSET Offers, summary : SUBSET Variants,
           \* what its SELECT returned (in memory), and, an observation, the
           \* shops that have been quarantined ever since it was begun
           want : SUBSET Pairs, steady : SUBSET Shops]
SlotRow == [pc : {"idle", "begin", "select", "insert", "gate", "decide", "commit", "cleanup"},
            key : Keys, gen : 0..MaxGeneration, todo : SUBSET Offers,
            passed : BOOLEAN, seen : 0..MaxGeneration]
JobRow  == [state : {"none", "waiting", "active"}, tries : 0..(MaxAttempts - 1)]

(* Every variable keeps to its row type; a job keeps to its attempts. *)
TypeOK ==
    /\ verified \subseteq Pairs /\ old \subseteq Shops /\ bad \subseteq Shops
    /\ past \subseteq SUBSET Pairs
    /\ gen \in [Generations -> GenRow]
    /\ clock \in 0..MaxGeneration
    /\ build \in [Slots -> SlotRow]
    /\ job \in [Keys -> JobRow]
    /\ bucket \in 1..MaxBucket
    /\ owed \in BOOLEAN
    /\ changes \in 0..MaxChanges
    /\ faults \in 0..MaxFaults

(* Any source, nothing published yet. *)
Init ==
    /\ verified \in SUBSET Pairs /\ old \in SUBSET Shops /\ bad \in SUBSET Shops
    /\ past = {verified}
    /\ gen = [g \in Generations |-> Absent]
    /\ clock = 0
    /\ build = [b \in Slots |-> IdleSlot]
    /\ job = [k \in Keys |-> NoJob]
    /\ bucket = 1
    /\ owed = FALSE
    /\ changes = 0
    /\ faults = 0

Published == {g \in Generations : gen[g].status = "published"}

PairsOf(rows) == {<<o.variant, o.shop>> : o \in rows}

-----------------------------------------------------------------------------
(* The source.                                                             *)

Change == changes < MaxChanges /\ changes' = changes + 1

(* A reviewer's decision commits: the pair gains or loses its offer. *)
Review(p) ==
    /\ Change
    /\ verified' = IF p \in verified THEN verified \ {p} ELSE verified \cup {p}
    /\ past' = past \cup {verified'}
    /\ owed' = TRUE
    /\ UNCHANGED <<old, bad, gen, clock, build, job, bucket, faults>>

(* Observations grow old, or a crawl renews them. *)
Age(s) ==
    /\ Change
    /\ old' = IF s \in old THEN old \ {s} ELSE old \cup {s}
    /\ UNCHANGED <<verified, bad, past, gen, clock, build, queue, faults>>

(* The shop gate of a discovery fails, or two days pass since it did. *)
ShopGate(s) ==
    /\ Change
    /\ bad' = IF s \in bad THEN bad \ {s} ELSE bad \cup {s}
    /\ gen' = [g \in Generations |-> IF s \in bad THEN [gen[g] EXCEPT !.steady = @ \ {s}]
                                     ELSE gen[g]]
    /\ UNCHANGED <<verified, old, past, clock, build, queue, faults>>

-----------------------------------------------------------------------------
(* The queue.                                                              *)

Scheduled(j) == IF j.state \in {"waiting", "active"} THEN j ELSE FreshJob

(* Mutant: a failing rebuild is retried for ever. *)
AfterThrowForever(j) == [state |-> "waiting", tries |-> j.tries + 1]

AfterThrow(j) == IF j.tries + 1 < MaxAttempts
                 THEN [state |-> "waiting", tries |-> j.tries + 1]
                 ELSE NoJob

(* The scheduler (nothing published for 55 minutes), a price refresh or a  *)
(* matching that changed something ask under the shared key.               *)
ScheduleRebuild ==
    /\ job' = [job EXCEPT ![0] = Scheduled(@)]
    /\ UNCHANGED <<source, gen, clock, build, bucket, owed, faults>>

(* requestPublicationRebuild, after the decision has been committed, in    *)
(* the window of the last request or in a later one.                       *)
RequestRebuild ==
    /\ owed
    /\ owed' = FALSE
    /\ bucket' \in bucket..MaxBucket
    /\ job' = [job EXCEPT ![bucket'] = Scheduled(@)]
    /\ UNCHANGED <<source, gen, clock, build, faults>>

(* ... its failure is swallowed: .catch(() => undefined). *)
RequestLost ==
    /\ owed
    /\ faults < MaxFaults
    /\ faults' = faults + 1
    /\ owed' = FALSE
    /\ UNCHANGED <<source, gen, clock, build, job, bucket>>

Take(b, k) ==
    /\ build[b].pc = "idle"
    /\ job[k].state = "waiting"
    /\ job' = [job EXCEPT ![k].state = "active"]
    /\ build' = [build EXCEPT ![b] = [IdleSlot EXCEPT !.pc = "begin", !.key = k]]
    /\ UNCHANGED <<source, gen, clock, bucket, owed, faults>>

(* A worker died: its job is found stalled and offered again. *)
StalledCheck(k) ==
    /\ job[k].state = "active"
    /\ \A b \in Slots : build[b].pc = "idle" \/ build[b].key # k
    /\ job' = [job EXCEPT ![k].state = "waiting"]
    /\ UNCHANGED <<source, gen, clock, build, bucket, owed, faults>>

(* The rebuild of slot b returns, or throws. *)
Return(b) == /\ job' = [job EXCEPT ![build[b].key] = NoJob]
             /\ build' = [build EXCEPT ![b] = IdleSlot]
Throw(b)  == /\ job' = [job EXCEPT ![build[b].key] = AfterThrow(@)]
             /\ build' = [build EXCEPT ![b] = IdleSlot]

Goto(b, pc) == build' = [build EXCEPT ![b].pc = pc]

-----------------------------------------------------------------------------
(* rebuildAndPublish.                                                      *)

(* INSERT of the new generation in 'building'; outside the try block. *)
Begin(b) ==
    /\ build[b].pc = "begin"
    /\ clock < MaxGeneration
    /\ clock' = clock + 1
    /\ gen' = [gen EXCEPT ![clock + 1] = [status |-> "building", offers |-> {}, summary |-> {},
                                         want |-> {}, steady |-> bad]]
    /\ build' = [build EXCEPT ![b].pc = "select", ![b].gen = clock + 1]
    /\ UNCHANGED <<source, queue, faults>>

Denominator(v) == Cardinality({s \in Shops : <<v, s>> \in verified /\ s \notin old})

Selected ==
    {[variant |-> p[1], shop |-> p[2], stale |-> p[2] \in old,
      denominator |-> IF p[2] \in old THEN 0 ELSE Denominator(p[1])] : p \in verified}

(* The SELECT of the offers; positions and ranks are computed from it. *)
Select(b) ==
    /\ build[b].pc = "select"
    /\ build' = [build EXCEPT ![b].pc = "insert", ![b].todo = Selected]
    /\ gen' = [gen EXCEPT ![build[b].gen].want = verified]
    /\ UNCHANGED <<source, clock, queue, faults>>

(* Mutant: the last chunk is dropped. *)
LastChunkDropped(b) == \A o1, o2 \in build[b].todo : o1 = o2

(* insertChunked has reached the end of its rows. *)
AllInserted(b) == build[b].todo = {}

InsertOffers(b) ==
    /\ build[b].pc = "insert"
    /\ ~AllInserted(b)
    /\ \E chunk \in SUBSET build[b].todo :
          /\ chunk # {}
          /\ gen' = [gen EXCEPT ![build[b].gen].offers = @ \cup chunk]
          /\ build' = [build EXCEPT ![b].todo = @ \ chunk]
    /\ UNCHANGED <<source, clock, queue, faults>>

InsertSummary(b) ==
    /\ build[b].pc = "insert"
    /\ AllInserted(b)
    /\ gen' = [gen EXCEPT ![build[b].gen].summary = {p[1] : p \in gen[build[b].gen].want}]
    /\ Goto(b, "gate")
    /\ UNCHANGED <<source, clock, queue, faults>>

(* rank_denominator_matches_valid_offers; the primary key of market_offers *)
(* and its CHECK on the price make the other two checks of the gate true.  *)
DenominatorsMatch(rows) ==
    \A v \in Variants :
        LET fresh == {o \in rows : o.variant = v /\ ~o.stale}
        IN  \A o \in fresh : o.denominator = Cardinality(fresh)

(* Mutant: quarantined shops are looked up, and forgotten. *)
MarkedNot(o) == o

Marked(o) == [o EXCEPT !.stale = @ \/ o.shop \in bad]

(* The gate reads the rows of its generation; the offers of quarantined    *)
(* shops are marked stale after the denominators have been compared.       *)
CheckGate(b) ==
    /\ build[b].pc = "gate"
    /\ build' = [build EXCEPT ![b].pc = "decide",
                              ![b].passed = DenominatorsMatch(gen[build[b].gen].offers)]
    /\ gen' = [gen EXCEPT ![build[b].gen].offers = {Marked(o) : o \in @}]
    /\ UNCHANGED <<source, clock, queue, faults>>

Quarantine(b) ==
    /\ build[b].pc = "decide"
    /\ ~build[b].passed \/ FALSE \in AutoPublish
    /\ gen' = [gen EXCEPT ![build[b].gen] = Unread("quarantined")]
    /\ Return(b)
    /\ UNCHANGED <<source, clock, bucket, owed, faults>>

Publishable(b) ==
    /\ build[b].pc = "decide"
    /\ build[b].passed
    /\ TRUE \in AutoPublish

Current == IF Published = {} THEN 0 ELSE CHOOSE g \in Published : TRUE

(* Mutant: the two updates are not one transaction. *)
SupersedeAlone(b) ==
    /\ Publishable(b)
    /\ build' = [build EXCEPT ![b].pc = "commit", ![b].seen = Current]
    /\ gen' = [g \in Generations |-> IF g \in Published
                                     THEN Unread("superseded") ELSE gen[g]]
    /\ UNCHANGED <<source, clock, queue, faults>>

(* First statement of the transaction: it supersedes the row it sees. *)
Supersede(b) ==
    /\ Publishable(b)
    /\ build' = [build EXCEPT ![b].pc = "commit", ![b].seen = Current]
    /\ UNCHANGED <<source, gen, clock, queue, faults>>

(* Mutant: no market_publications_one_published. *)
NeverRefused(b) == FALSE

(* market_publications_one_published: a row this transaction did not see   *)
(* has been published since.                                               *)
Refused(b) == Published \ {build[b].seen} # {}

Commit(b) ==
    /\ build[b].pc = "commit"
    /\ ~Refused(b)
    /\ gen' = [g \in Generations |->
                  IF g = build[b].gen THEN [gen[g] EXCEPT !.status = "published"]
                  ELSE IF g = build[b].seen /\ gen[g].status = "published"
                       THEN Unread("superseded")
                  ELSE gen[g]]
    /\ Goto(b, "cleanup")
    /\ UNCHANGED <<source, clock, queue, faults>>

(* The unique index refuses the second statement: rollback, then the catch *)
(* block marks the generation 'failed' and rethrows.                       *)
CommitRefused(b) ==
    /\ build[b].pc = "commit"
    /\ Refused(b)
    /\ gen' = [gen EXCEPT ![build[b].gen] = Unread("failed")]
    /\ Throw(b)
    /\ UNCHANGED <<source, clock, bucket, owed, faults>>

Superseded == {g \in Generations : gen[g].status = "superseded"}

(* DELETE of the superseded generations but the Keep newest ones. *)
Expired(g) == /\ g \in Superseded
              /\ Cardinality({h \in Superseded : h > g}) >= Keep

Cleanup(b) ==
    /\ build[b].pc = "cleanup"
    /\ gen' = [g \in Generations |-> IF Expired(g) THEN Absent ELSE gen[g]]
    /\ Return(b)
    /\ UNCHANGED <<source, clock, bucket, owed, faults>>

(* A statement of the try block fails; the catch block writes 'failed',    *)
(* unless that UPDATE fails too or finds its row deleted.                  *)
Fail(b) ==
    /\ build[b].pc \notin {"idle", "begin"}
    /\ build[b].pc = "cleanup" => CleanupFaults
    /\ faults < MaxFaults
    /\ faults' = faults + 1
    /\ \/ /\ gen[build[b].gen].status # "absent"
          /\ gen' = [gen EXCEPT ![build[b].gen] = Unread("failed")]
       \/ UNCHANGED gen
    /\ Throw(b)
    /\ UNCHANGED <<source, clock, bucket, owed>>

Crash(b) ==
    /\ build[b].pc # "idle"
    /\ faults < MaxFaults
    /\ faults' = faults + 1
    /\ build' = [build EXCEPT ![b] = IdleSlot]
    /\ UNCHANGED <<source, gen, clock, queue>>

-----------------------------------------------------------------------------
Rebuild(b) ==
    \/ Begin(b) \/ Select(b) \/ InsertOffers(b) \/ InsertSummary(b) \/ CheckGate(b)
    \/ Quarantine(b) \/ Supersede(b) \/ Commit(b) \/ CommitRefused(b)
    \/ Cleanup(b) \/ Fail(b) \/ Crash(b)

Next ==
    \/ \E p \in Pairs : Review(p)
    \/ \E s \in Shops : Age(s) \/ ShopGate(s)
    \/ ScheduleRebuild \/ RequestRebuild \/ RequestLost
    \/ \E k \in Keys : StalledCheck(k)
    \/ \E b \in Slots, k \in Keys : Take(b, k)
    \/ \E b \in Slots : Rebuild(b)

Spec == Init /\ [][Next]_vars

-----------------------------------------------------------------------------
(* At most one generation is 'published', although two rebuilds swap in    *)
(* concurrently (market_publications_one_published, 0007).                 *)
OnePublished == \A g, h \in Published : g = h

(* The published generation shows exactly the pairs of one SELECT, each    *)
(* once, and a summary of every variant: no half-built generation is ever  *)
(* visible, whatever crashes between its statements.                       *)
Whole(row) ==
    /\ PairsOf(row.offers) = row.want
    /\ \A o1, o2 \in row.offers : o1.variant = o2.variant /\ o1.shop = o2.shop => o1 = o2
    /\ row.summary = {p[1] : p \in row.want}

PublishedWhole == \A g \in Published : Whole(gen[g])

(* What a reader finds is one generation, and that one is whole.           *)
OneWholePublished == OnePublished /\ PublishedWhole

(* A shop that was quarantined during the whole build is nowhere shown     *)
(* fresh (spec 31.2, check no_quarantined_shop_shown_fresh).               *)
QuarantinedShownStale ==
    \A g \in Published : \A o \in gen[g].offers : o.shop \in gen[g].steady => o.stale

(* What v_current_publication shows. *)
Shown == IF Published = {} THEN NothingShown ELSE PairsOf(gen[Current].offers)

Market == INSTANCE PublishedMarket
          WITH Snapshots <- SUBSET Pairs, Nothing <- NothingShown,
               source <- verified, market <- Shown

(* The readers see a PublishedMarket: nothing at first, then always the    *)
(* source as it was at one moment, replaced in one step (0007:7-8).        *)
PublishesSnapshots == Market!Spec

(* Once a generation has been published, one is: a failing rebuild leaves  *)
(* the old one unchanged (publish.ts:170-171).                             *)
NeverUnpublished == [][Published # {} => Published' # {}]_vars

(* When a decision has been made, its rebuild requested, and no rebuild    *)
(* waits or runs any more, the market shows it (review-actions.ts:200-206: *)
(* a request does not stick to a rebuild that is running already).         *)
DecisionShown ==
    (/\ past # {verified} /\ ~owed
     /\ \A k \in Keys : job[k].state = "none") => Shown = verified
=============================================================================
