# A TLA+ model of the DrinkMarket price intelligence platform

DrinkMarket (RADOVIN) crawls the catalogues of wine and spirit shops, extracts
listings and offers, matches the listings to canonical product variants, lets
people review what the matcher is unsure of, and publishes a market: for every
variant the shops that sell it, their prices and ranks.  The code is TypeScript:
an API (Fastify), workers (BullMQ over Redis), a scheduler and a web interface,
with one PostgreSQL database between them.

What can go wrong here is mostly a matter of *order*.  There are no in-process
locks worth the name: the processes meet in the database and in the job queues,
every handler is a sequence of SQL statements most of which commit on their own,
any process may die between two of them, BullMQ starts a handler again, and
idempotency keys merge requests that are not always the same.  Unit tests reach
none of that.  The models describe each statement that commits as one step and
let the processes interleave.

- `PROJECT.json` maps every definition to the lines it stands for, and lists the
  components, runs, mutants, findings, hazards and theorems.
- `tlc -workers 2 -config X.cfg M` runs a model, `tlapm M.tla` checks the proofs.

## 1. The system

### Components, their state and their operations

| component | code | state | operations |
|---|---|---|---|
| crawl-run lifecycle | `apps/scheduler`, `apps/worker/src/main.ts`, `processors/discovery.ts`, `processors/refresh.ts`, `lib/queues.ts`, `routes/shops.ts` | `crawl_runs` (status, heartbeat), `shops` (`next_discovery_at`, `next_price_refresh_at`, failures), BullMQ jobs, the advisory lock of the tick | tick: close abandoned runs, back off, dispatch; start, beat, finish, fail a discovery; refresh; manual trigger; stalled-job recovery |
| discovery cycle, persistence | `processors/discovery.ts`, `lib/discovery-cursor.ts`, `lib/known-listings.ts`, `lib/persist.ts` | `shops.discovery_resume_url`, `discovery_cycle_started_at`; `source_listings`, `offer_observations`, `latest_offer_id` | rotate targets, cut off, skip fresh listings, persist, mark missing, gate |
| matching and decisions | `lib/matching.ts`, `processors/matching.ts`, `packages/domain/src/matching` | `match_relations`, `match_decisions`, `variant_shop_status`, `rejected_candidates`, `review_cases` | evaluate a variant for a shop, cluster a listing, drift, promote a listing to a variant |
| review API | `routes/review.ts`, `review-actions.ts`, `review-batch.ts` | `review_cases` | approve, reject, select, mark not found, defer, assign, edit and rerun, promote, bulk, sweep |
| cluster sweep | `processors/cluster-sweep.ts` | `source_listings.cluster_status`, backlog | requeue parked and left-over listings |
| publication | `lib/publish.ts`, `requestPublicationRebuild` | `market_publications`, `market_offers`, `market_variant_summary` | rebuild, gate, quarantine or swap, clean up |
| producer register | `routes/producer-merge.ts`, `producers.ts`, `processors/reextract.ts`, `producer-propose.ts`, `domain/src/vocabulary` | `producers` (status, `merged_into_id`, `applied_at`), sources | propose, merge, discard, apply, re-extract |
| imports | `routes/imports.ts` | `imports` and its rows | upload, validate, commit, delete |
| market position, price rules | `packages/domain/src/pricing`, `lib/publish.ts`, `lib/persist.ts` | none (pure) | rank, denominator, median, anomaly |
| crawler core | `packages/crawler-core` | token bucket and semaphore per host | fetch with retry, robots, address guard |
| adapters and extraction | `packages/adapters`, `packages/extraction` | the locals of `discover()` | walk an API or sitemaps, refresh a listing, read the price of a page |
| identity, normalisation, wine vocabulary | `packages/domain`, `lib/persist.ts`, `lib/wine-apply.ts` | the identity fields of `source_listings`, the cached vocabularies | parse a name, compare with the row (drift), apply again |
| job queue and ledger | `lib/queues.ts`, `routes/operations.ts`, BullMQ | jobs, `job_runs` | enqueue, record, settle, stall, delete old rows |
| alerts and retention | `lib/publish.ts` (`raiseAlert`), `apps/scheduler/src/main.ts`, `processors/refresh.ts`, `routes/settings.ts` | `alerts`, `match_decisions` | raise, resolve, dispatch; prune superseded decisions |
| authentication, users, settings | `routes/settings.ts`, `apps/api/src/lib/context.ts`, `apps/worker/src/lib/shop.ts` | versions of settings, flags, aliases, cached copies | change, load, serve |
| database pool, migrations | `packages/db` | pool, session locks, `schema_migrations` | query, lock, migrate |
| read side, web interface, operator CLIs | `routes/products.ts`, `dashboard.ts`, `apps/web`, `apps/*/src/cli` | none | query |

### How they interact

The scheduler, the API and the workers never call each other.  They meet in
four places: *jobs* (a BullMQ job id derived from an idempotency key; a request
whose key has a waiting, delayed or active job is absorbed), *rows that are
states* (`crawl_runs.status`, `market_publications.status`, `review_cases.status`,
each guarded by partial unique indexes), *times in rows* (`next_discovery_at`),
and the *view of the published generation*, which is all the read side sees.

### What is hard, and what correct means

| component | hard | correct |
|---|---|---|
| crawl-run lifecycle | crashes between INSERT, final UPDATE and the UPDATE of the shop; the reaper racing a live process; three sources of the same job | one running discovery per shop, one process per job, the back-off holds, every run closes, every shop recurs |
| publication | two rebuilds at once under READ COMMITTED, crashes mid-build, a cleanup after the swap, decisions during a rebuild | one published generation, whole, from one moment; a decision is shown in the end |
| discovery cycle | runs that stop half way, blocked runs, listings skipped or failing | only what a complete cycle did not see is missing; no listing is starved; a failed gate keeps the last good data |
| matching and review | matcher and reviewers deciding the same pair; stale reads before a transaction | a locked relation survives the matcher; one active verified relation of a listing; a closed case stays closed |
| producer register | merges over a stale read | the register is a forest whose roots are alive |
| imports | a check and an UPDATE apart, a crash in the middle | rows are applied once; no batch is stuck |
| market position, prices | ties, stale offers, an observation rewritten in place | ranks are a competition ranking over the fresh offers; a published price is public and no leap |
| cluster sweep | jobs that die with a lock held, listings that change under a promotion | one variant of an identity, no listing starves |
| decision engine, search | ties, blocked fields, channels that fail, listings changing during a search | what is verified answers every question; the right variant is among the candidates; no pair is forgotten |
| crawler core | drain loop, semaphore, retries | the rate holds over every stretch of time; every fetch ends |
| adapters | a catalogue that changes while it is read, answers that are no answers | a list called complete is complete; a block is not a disappearance |
| extraction | delivery costs, old prices, competing sources on one page | the price is that of the product |
| identity | two writers, two copies of the vocabulary, drift | a page that does not change settles |
| producer names | names mined from what the parser leaves over, merges suggested by resemblance | no name is lost; a suggestion does not put two wineries together |
| job ledger | rows beside jobs, written by other processes, failing | the row of a job at rest tells its outcome |
| settings | loads by several statements, caches of two processes | what is served was in force not long ago |
| alerts, retention | an answer of the webhook that is lost; a DELETE that waits for a row | an alert marked as sent was heard; a decision that something stands on stays |
| pool, migrations | as many lock holders as connections; instances of two releases starting together | the pool drains; every file once, in order |

## 2. The modules

Four components have a run of their own, with the module that states what they
promise where one is worth stating:

| module | role |
|---|---|
| `CrawlRuns`, `MCCrawlRuns` | the crawl-run lifecycle; three configurations |
| `PublishedMarket` | what the publication promises its readers, in one page |
| `Publication`, `MCPublication` | rebuildAndPublish and all that surrounds it, shown to implement `PublishedMarket`; three configurations |
| `DiscoveryCycle`, `MCDiscoveryCycle` | one shop's catalogue over many discovery runs: what happens inside the runs of `CrawlRuns`; three configurations |
| `DecisionRegister` | what matching promises about a listing |
| `MatchReview`, `MCMatchReview` | matcher and reviewers, shown to implement `DecisionRegister` |

Nineteen smaller ones share the run `components`.  No two of them share a variable:
`MCComponents` chooses a component in the initial state, takes its steps only, and states the
properties of all.

| module | of the code | what it follows |
|---|---|---|
| `ProducerRegister` | `routes/producer-merge.ts`, `producers.ts`, `processors/reextract.ts` | approve, reject, revoke, merge; the keyed re-extractions with the vocabulary they loaded when they started |
| `ProducerNames` | `domain/src/vocabulary/producer-mine.ts`, `producer-merge.ts`, `processors/producer-propose.ts`, `routes/producer-merge.ts`, `producers.ts` | names mined, proposed, approved, merged by suggestion, read again |
| `ClusterSweep` | `processors/cluster-sweep.ts`, `lib/matching.ts` | the backlog, parking, the promotion under the advisory lock of an identity |
| `MatchEngine` | `domain/src/matching/engine.ts`, `comparators.ts` | the decision over a set of candidates |
| `CandidateSearch` | `lib/candidates.ts`, `domain/src/candidates/query-plan.ts` | the channels of a search while listings change and channels fail |
| `SearchRounds` | `apps/scheduler`, `lib/matching.ts`, `processors/matching.ts`, `routes` | which pair of a variant and a shop is searched for again, and when |
| `DecisionLog` | `lib/matching.ts` (`recordDecision`), `processors/refresh.ts` | the rows of `match_decisions`, who refers to them, what the retention deletes |
| `ImportBatch` | `routes/imports.ts` | upload, validate, commit row by row, cancel, and interruptions |
| `OfferPrice` | `domain/src/pricing/index.ts`, `lib/persist.ts` | a price from the page to `latest_offer_id` |
| `MarketPosition` | `domain/src/pricing/index.ts`, `lib/publish.ts` | ranks, denominator, median over a set of offers |
| `PoliteFetcher` | `packages/crawler-core/src/fetcher.ts` | semaphore, token bucket, retries |
| `SourceWalk` | `packages/adapters` | a walk over an API or over sitemaps, and what it calls complete |
| `PageReading` | `packages/extraction`, `domain/src/pricing` | which number on a page is its price |
| `ListingIdentity` | `domain/src/identity`, `normalization`, `taxonomy`, `lib/persist.ts`, `wine-apply.ts`, `wine-vocab.ts`, `processors/reextract.ts` | which wine a listing is of, for both writers; drift |
| `JobLedger` | `lib/queues.ts`, `main.ts` of the worker, `routes/operations.ts` | jobs of BullMQ and the rows of `job_runs` beside them |
| `Settings` | `routes/settings.ts`, `apps/api/src/lib/context.ts`, `apps/worker/src/lib/shop.ts` | versions, flags, aliases and their cached copies |
| `Alerts` | `lib/publish.ts`, `apps/scheduler/src/main.ts`, `processors/refresh.ts`, `routes/settings.ts` | raise, resolve, dispatch |
| `ConnectionPool` | `packages/db/src/pool.ts`, `queue-client.ts` | advisory locks that hold a connection while the work under them asks for another |
| `Migrations` | `packages/db/src/migrate.ts` | migrations of several instances that start together |

The proofs are in eight modules: `CrawlRunsProofs`, `PublicationProofs`,
`DiscoveryCycleProofs`, `MatchReviewProofs`, `ReadingProofs` (`ListingIdentity`, `ProducerNames`,
`ProducerRegister`), `DecisionProofs` (`MatchEngine`, `SearchRounds`, `ClusterSweep`, `CandidateSearch`), `CollectionProofs` (`OfferPrice`,
`PoliteFetcher`, `SourceWalk`, `MarketPosition`) and `OperationProofs`
(`Migrations`, `Settings`, `Alerts`, `ImportBatch`, `DecisionLog`, `JobLedger`).

### CrawlRuns

| variable | in the system |
|---|---|
| `run` | rows of `crawl_runs`: running or closed, with the time since `coalesce(heartbeat_at, started_at)` (`silence`) |
| `job` | the BullMQ job of a `(shop, kind)` key: none, waiting (a delayed retry included), active; attempts made and stalls |
| `proc` | a worker slot: where its handler is, for which key and under which row |
| `shop` | `consecutive_discovery_failures`, and the time left to `next_discovery_at` and `next_price_refresh_at` |
| `tick`, `abandoned`, `due` | how far the scheduler is in its tick, whose runs it has closed (the `RETURNING` of the reaper's UPDATE), and what is left of the list of due shops that it has read |
| `asked` | manual requests between the check and the enqueue |
| `since`, `lost` | observations only: no guard reads them |

The handlers are cut where the code commits: `StartDiscovery` is the INSERT (and
`StartRefused` its refusal by `crawl_runs_single_discovery_uq`, outside the try
block), `Beat` the heartbeat, `FinishDiscovery` the final UPDATE of the row,
`SettleDiscovery` the UPDATE of the shop, `JobEnds` what BullMQ makes of the
result; `FailDiscovery` is the catch block, which may also be entered after the row was
closed, and `EscapingThrow` an exception that no catch block sees.  The tick is
`TickReap`, `TickBackOff` (or `TickBackOffFails`, since the code swallows its error; neither when
nothing was reaped), `TickListDiscoveries`, one `TickSchedule` per listed shop (or
`TickScheduleFails`: `schedule()` logs what Redis refuses), and the same for the price refreshes.
Between the SELECT of a list and the last `schedule()` workers and the API go on: a shop whose run
ends and whose back-off is written in between is still sent, since `schedule()` looks at the job only.
`DueDiscoveries` and `DueRefreshes` repeat the `WHERE` of the lists.
What a run does to the listings is in `DiscoveryCycle`.

Abstractions.  Time is counted in units and only `Elapse` advances it; a unit is
long compared with a statement, and statements of one handler may still be any
number of units apart.  The final statuses of a run are one `closed` status, since nothing but the
settling of the shop depends on them, and the outcome is kept with the process.
A closed row is recycled, so a bounded set of rows stands for an unbounded table.
The dispatch limits (5 and 10 shops per tick) are left out: a shop left for the
next tick is a shop that becomes due later.  The reaper compares the
heartbeat with the database clock; the model lets it close any row older than
`StaleAfter`.  BullMQ is modelled from how the workers configure it: an active job
whose process is alive keeps its lock (locks are renewed in the background while the
process lives), an active job without a process is offered again `MaxStalled` times.
BullMQ 5 reports a *prioritised* waiting job as `prioritized`, which neither
`schedule()` nor `enqueue()` tests for: such a job is removed and added again,
which for a waiting job is no difference here.

### PublishedMarket and Publication

`PublishedMarket` has three variables: the `source` now, every value it has had,
and the `market` a reader sees.  It says that the market is nothing at first and
is then replaced, in one step, by the source as it was at some moment.  It does
not promise the *latest* moment, and the code does not either: of two concurrent
rebuilds, the one that selected first may commit last.

| variable of `Publication` | in the system |
|---|---|
| `verified` | the `(variant, shop)` pairs for which the SELECT of rebuildAndPublish finds an offer |
| `old`, `bad` | shops whose observations exceed `freshnessMaxHours`; shops with a quarantined run in the last two days |
| `gen` | `market_publications` with its offers and summary; `want` is what its SELECT returned, `steady` an observation |
| `clock` | `Date.now()`, the generation number |
| `build` | a slot of the aggregate queue: the next statement of rebuildAndPublish |
| `job`, `bucket`, `owed` | the shared rebuild job and the ones of people by 30 s window; a decision that is committed but has not asked yet |

`Begin`, `Select`, `InsertOffers` (chunk by chunk), `InsertSummary`, `CheckGate`,
`Quarantine` or `Supersede` and `Commit`, and `Cleanup` are the statements in
their order.  The publishing transaction is two steps because PostgreSQL runs it
READ COMMITTED: `Supersede` records the published row that its UPDATE sees, and
`Commit` is refused (`CommitRefused`) by `market_publications_one_published` when
another row has been published since.  `Fail` is the catch block, `Crash` the
death of the worker, after which `StalledCheck` offers the job again.

Abstractions.  Prices, ranks and deltas are left out but for the rank
denominator, which the gate compares; a generation that nobody reads has its
offers left out; the checks of the gate that a primary key or a CHECK of the table already
guarantees hold by construction and do not appear.  `maxStalledCount` is not counted
here: `MaxFaults` bounds the crashes.

### DiscoveryCycle

| variable | in the system |
|---|---|
| `catalogue` | the product pages the shop lists today (external), numbered in the order it lists them |
| `listing` | `source_listings.listing_status` of each, "none" before there is a row |
| `seen` | active listings with `last_seen_at` not before `discovery_cycle_started_at` |
| `fresh` | active listings extracted within `DISCOVERY_SKIP_FRESH_HOURS` |
| `resume`, `cycle` | `shops.discovery_resume_url`; whether `discovery_cycle_started_at` is set |
| `run` | what `processDiscovery` keeps in memory: targets, rotation, lanes, cut-off, outcomes, suspects |
| `changes`, `faults` | counters of the bounds only |

`StartRun`, `DiscoverAll` or `DiscoverPart`, the lanes' `Skip`, `CutOff`, `Request`,
`Extracted` and `ExtractFails`, `AllReturned`, `Touch`, `RecordCycle`, `SelectMissing`,
`Mark` (one statement per row) and `Gate` follow the handler; a lane's request and
its answer are two steps, so the lanes interleave wherever they await.  `RunDies` is
an exception or a dead worker: what has committed stays.  `RefreshOk` and
`RefreshUnavailable` are the price refresh of a listing, at any time.

Abstractions.  The rotated list is a set with the index of each element (`Rank`), and the
shared index of the lanes is what is left of it (`rest`).  The timestamps
of a listing that is not active are left out, because `persistListing` sets them
when it makes the listing active again.  `RecordCycle` moves the start of the cycle, so
`seen` starts again there and what the old cycle has not seen becomes `suspects`.  The gate's counts of prices,
duplicates and drifts are not modelled, so its verdict is a choice; but an incomplete
empty discovery always fails it.  Of `persistListing` only the status and the timestamps
are here, not the offers.  A page answers only while the shop lists the product, and a refresh is one
step.  One run at a time is what `OneAtATime` of `CrawlRuns` shows.  A
discovery so slow that the clock runs out before the first request is a fault, because it makes
no progress at all.

### DecisionRegister and MatchReview

`DecisionRegister` has one variable, the pair of a variant and a word that each listing is
verified by: at most one, replaced by the matcher (`Matched`) unless the word is a person's,
by a person at any time (`Decided`), or given up (`GivenUp`).

| variable of `MatchReview` | in the system |
|---|---|
| `hash` | `identity_hash` of each listing, which drift moves on |
| `relation` | `match_relations` with `valid_to IS NULL`: status, and whose word it is |
| `status` | `variant_shop_status` of the pair |
| `rejected` | `rejected_candidates`: what a person has refused, for the hash it was refused with |
| `cases` | `review_cases`: kind, status, assignee |
| `matcher` | what a matching job has read and decided, and which statement is next |
| `card` | what a reviewer sees, and what the API has loaded for the decision |
| `turns` | bound: jobs begun and cards taken up |

A matching job is `Search` or `Cluster` (what it reads), then the transaction of
`persistDecision` by its outcome (`PersistVerified`, `PersistConfirmed`, `PersistRejected`,
`PersistNoMatch`, `PersistReview`); before the last two, `alreadyVerified` is read in a step of its own
(`ReadVerified`), since that statement takes no lock; the `Link` steps make a variant of a listing.  A person takes a card, the API loads the case (`LoadOpenCase`) and writes in a
later transaction: `Approve`, `Reject`, `MarkNotFound`, `SelectCandidate`, `EditCanonical`,
`PromoteListing`, `Defer`, `Assign`, `Undefer`.  `Drift` and `Missing` are the
collection of the listing's page, `MatcherDies` a dead worker.

How similar two records are is data: `Search` chooses among what `decideMatch` may answer for the
memory it is given, and `MatchEngine` says what it answers.  Bulk decisions and the sweep of
the review queue are the same transactions one after the other.

### The parts of `components`

| module | variables | steps | left out |
|---|---|---|---|
| `ProducerRegister` | `status`, `applied`, `aliases`, `owner`: the rows; `asked`: a request between its checks and its write; `job`, `run`: the keyed re-extraction; `merges` | approve, reject, revoke, merge, each as check and write; a run loads its vocabulary, reads and writes listing by listing | a name is the sequence of producer names in it; how it is parsed is `ListingIdentity` |
| `ProducerNames` | `shelves`, `maker`, `register`, `synonyms`, `mined`, `lookedUp`, `onScreen` | mine, look a name up, write it, approve, reject, show the merge groups, merge, read the listings again | a name is a sequence of tokens, the word lists are those of the instance; one manager |
| `ClusterSweep` | `identity`, `cluster`, `parked`, `familyRows`, `variantOf`, `link`: the rows; `jobState`, `at`, `seen`, `draft`: the job; `lock` | sweep, find a variant or none, read the listing, take the lock of its identity or time out, look, find a family or insert one, create, link, label, park; a failed job; a re-identified listing | how likely the match is, is a choice |
| `MatchEngine` | `evaluated`, `question`, `decision` | one call of `decideMatch` on any chosen candidates, in any order | reasons, negative aliases; fields relate in one of six ways |
| `CandidateSearch` | `shelf`, `sought`, `todo`, `found`, `chosen`, `lookup`, `disturbed`, `failed` | one step per channel; a listing changes; a channel fails; the search of variants for a listing | names are sets of words, similarity is the share of common words |
| `SearchRounds` | `pairStatus`, `untilSearch`, `searchOrder`, `roundList`, `leftOut` | a round is selected, evaluates pair by pair, a day passes, a pair is brought forward or changes | days are scaled; the order among rows with no `last_search_at` is fixed |
| `DecisionLog` | `entries`, `current`, `caseOf`, `deciding`, `doomed`, `confirmedLate` | the statements of a deciding transaction; the DELETE of the retention, which waits for locked rows | the content of a decision is one of three kinds |
| `ImportBatch` | `batch`, `rowStatus`, `dupOf`, `made`, `families`, `variants`, `request` | upload, validate, commit row by row (the family is looked for in one step, the row written in another), cancel, each a check and a change; a row fails; the API stops | columns and parsing; the three comparisons of a row are constants of the instance (`FileKey`, `Likeness`, `RowKey`) |
| `OfferPrice` | `latest`, `seenOffer` and the page | one collection of the page with the prices it shows | number formats |
| `MarketPosition` | `offers`, `position` | publish the position of one set of offers | money is small integers |
| `PoliteFetcher` | `phase`, `attempt`, `active`, `semQueue`, `tokens`, `since`, `tokQueue`, `askedIn` | what the event loop runs between two awaits; a tick | bodies, robots, addresses |
| `SourceWalk` | `adapter`, `listed`, `walk`; `kept`, `gaps`: history; `refreshed` | a page or a sitemap per step, each with any answer; the shop changes | product data |
| `PageReading` | `shown`, `reading` | read one page | words but the telling ones |
| `ListingIdentity` | `seller`, `shopPage`, `vocabulary`, `copies`, `row`, `offered`, `lastRead` | collect, re-extract, the vocabulary grows, a copy is refreshed, the page changes | tokens stand for words |
| `JobLedger` | `bull`, `hand`, `ledger`, `asker`, `backlog`, `outOfSearch`, `clock`, `outcome`, `muddled`, `rechecked` | enqueue and INSERT, take, UPDATE, settle, stall, retention, either failing | the 30 s key of the rebuild |
| `Settings` | `versions`, `plain`, `edit`, `copy`, `load`, `tick`, `lastIn` | the statements of a change and of a load, each its own step | values |
| `Alerts` | `webhook`, `alerts`, `freshest`, `dispatch`, `received` | raise, resolve, select, post, mark; the answer is lost, the worker dies | texts, counts, acknowledgement |
| `ConnectionPool` | `step`, `left`, `tries`, `busy`, `waiting`, `heldBy` | check out, lock, a statement of the body, unlock, time-outs | transactions of the body |
| `Migrations` | `stage`, `next`, `known`, `starts`, `migrator`, `effects` | lock, read, file by file, a failing file, death and restart | the content of the files |

## 3. The runs

| run | configuration | shows |
|---|---|---|
| `crawl_safety` | 1 shop, 2 slots, 2 rows, 2 attempts, 1 stall, 2 faults, all times 1, discovery may be silent beyond the bound | `TypeOK`, `OneAtATime`, `BackOffRespected` |
| `crawl_liveness` | 1 shop, 1 slot, 2 rows, 1 fault | `EveryRunCloses`, `DiscoveryRecurs` |
| `crawl_reaped` | 1 slot, no fault, a refresh may be longer than the bound | `LiveRunNotReaped` is violated |
| `publication` | 1 variant, 2 shops, 2 slots, 3 generations, 1 change, 1 fault, auto-publish on or off | `TypeOK`, `OneWholePublished`, `QuarantinedShownStale`, `PublishesSnapshots` |
| `publication_lost` | as above, the cleanup may fail | `NeverUnpublished` is violated |
| `publication_decision` | 1 slot, no fault, 2 changes | `DecisionShown` is violated |
| `discovery_safety` | 3 pages of which a run lists at most 2, 2 lanes, 1 change of the catalogue, 1 fault | `TypeOK`, `CutoffCovers`, `MarkingIsEarned` |
| `discovery_liveness` | 3 pages, 1 lane, no change, 1 fault | `EveryTargetProcessed` |
| `discovery_gate` | 2 pages, 2 lanes, 1 change, no fault | `QuarantineKeepsLastGood` is violated |
| `match_review` | 2 variants, 2 listings, 1 shop, 2 matchers, 2 reviewers, 2 cases, 3 turns, 1 drift | `TypeOK`, `OneQuestion`, `PersonOverMatcher` (`MatchReview` implements `DecisionRegister`), `TakenCasesLeft` |
| `components` | one small instance of each of the nineteen parts | the table below |
| `ledger_stuck` | 1 operation, 1 enqueuer, no stall allowed, no failing statement | `RunningIsAtWork` is violated |

The run `components` checks, beside the types of all parts (`ComponentsTypeOK`):

| property | of | says |
|---|---|---|
| `OwnerFollowsNames` | `ProducerRegister` | a listing is only ever given to a producer whose name is in its own name, or into which people have merged such a producer, whatever requests and runs overlap |
| `NoNameLost`, `SuggestionsAreSafe` | `ProducerNames` | of every group of names that the mining leaves out one goes for a name outside of it, so that each ends in a name that is proposed; whoever follows the suggestions leaves every listing with a producer in force, and neither merges nor retires a person's winery nor takes from it a listing that does not name the other |
| `OneVariantPerIdentity` | `ClusterSweep` | no identity has two variants that were made for it and are stored under it (the family may put one under another brand, see 5) |
| `NoListingOfTheSweepStarves` | `ClusterSweep` | every listing is looked at in the end (liveness) |
| `DecidedByTheQuestion` | `MatchEngine` | what is verified is the best of *all* candidates, alone and undisputed, and would be if the others had come in another order or not at all |
| `RightOneFound` | `CandidateSearch` | the listing of the very wine, and the variant of the very listing, are among the candidates evaluated, unless a channel failed, the listing changed meanwhile, or more of its kind compete than a channel gives |
| `NoPairForgotten` | `SearchRounds` | of the places that rounds give to pairs that are neither tracked nor failing while they leave a due pair out, none goes to the same pair twice; a tracked pair never waits for one that is not |
| `FoundationsKept` | `DecisionLog` | the retention deletes no decision of a person, no latest decision, and none that a relation or a case stands on, but for one that was confirmed after it had been superseded |
| `ImportLandsOnce` | `ImportBatch` | whatever requests overlap: no family gets two active variants of an identity, a name gets no more families than there are requests at once, a row's variant is of its identity, a row that a commit has counted is in the catalogue, and a row is set aside as known only for a variant that looks like it |
| `FitToPublish` | `OfferPrice` | a price that becomes publishable is one the public pays, and no leap from the one the observation before kept, shown or withheld |
| `PositionAddsUp` | `MarketPosition` | ranks, denominators, median and delta agree with the offers they are computed from |
| `RateKept`, `EveryFetchOfTheFetcherEnds` | `PoliteFetcher` | over every stretch of time no more requests than the burst and the rate allow; every fetch ends |
| `NothingTakenForGone` | `SourceWalk` | a list called complete has every product that was listed all along, unless what went wrong cannot be noticed; a blocked page is not taken for a product gone |
| `PriceIsOfTheProduct` | `PageReading` | the price read is that of the product, not one of the frame of the page, and one that stands in an element of its own is not overlooked |
| `ReadingSettles` | `ListingIdentity` | the next reading of a page that did not change, by the same winery, finds what this one has left: no drift, and nothing readable left over; a winery that changes is one the name names |
| `LedgerTellsOutcome` | `JobLedger` | the row of a job at rest says how it ended |
| `ServedWasInForce` | `Settings` | what a cache serves was in force within its TTL and one load |
| `AlertsAreDelivered` | `Alerts` | where there is a webhook, a row marked as sent was heard by it, and told again only where a fault had lost the answer |
| `ThePoolDrains` | `ConnectionPool` | the pool gets its connections back: callers that starve each other fail by their time-outs (liveness) |
| `MigratedOnceInOrder` | `Migrations` | every file takes effect once, in the order of the files, whoever started |

Why the bounds are enough.  Shops share nothing in `CrawlRuns` but the tick and the slots: no guard or update of
one shop's rows and job reads another's, so one shop shows what many do, and the theorems
cover the rest.  Two slots allow a discovery and a refresh, or a reaped
process and its successor, at the same time, and two rows are what these need; a third run waits until the
reaper has closed the row of a dead one.  Two faults allow a second one during the recovery from the
first.  All times are 1 because only "not yet" and "over" are told apart.
In `Publication` two slots and three generations give two concurrent rebuilds over a published
third; two shops make a quarantined one and a healthy one, and two chunks.  `Keep = 0` makes the
cleanup delete every superseded generation, the hardest case for a slower
rebuild.
In `DiscoveryCycle` two lanes are enough for the later index to be cut off first, and three
pages of which a discovery returns two (`maxUrls`) show a list that changes under the resume
point and one that is truncated without being called incomplete; the liveness run walks all three, so that the rotation
has something before, at and after the resume point.  One
change takes a page out (or in) in the middle of a run or between two.  Runs are not bounded: the state
space is that of any number of them.  The liveness run has one lane and a fixed catalogue, since
what it asks about is the succession of the runs; the safety run has the lanes and the change.
In `MatchReview` two matchers and two reviewers give every pair of deciders, two listings and two
variants every conflict over one of either, and three turns a decision that overtakes two others
(106 thousand states up to symmetry).  In `components` every part has the two or three actors, keys or
rows that its interleaving needs; the constants and their meaning are in `MCComponents.tla`.
The largest part has 55 thousand states, all together some 320 thousand.  In `ImportBatch` two clients and five requests let two
commits of one file overlap, or an interrupted commit be validated and committed again, with a row that
looks like one made meanwhile; in `ClusterSweep` two upsets are any two of a changed listing, a retry time and a failed job.

`CHECK_DEADLOCK FALSE` is there because the bounds of most modules end in states in which nothing
is left to do (`Publication` at its last generation, `MatchReview` after its turns), and because
a configuration of `CrawlRuns` may legitimately have nothing left but stuttering
when `Elapse` changes nothing; `DiscoveryCycle` never stops, and its configurations say the same
for the sake of uniformity.

Five violations are disagreements between the code and what is written about it:

- **A refresh has no heartbeat** (`crawl_reaped`). The scheduler and migration 0014 say that the
  recovery goes by signs of life.  A price refresh gives none, so any refresh longer
  than 15 minutes is closed as abandoned while it works; worse for the shop, its
  *discovery* is backed off by up to a week.
- **A failing cleanup unpublishes the market** (`publication_lost`). The DELETE of old generations is
  inside the try block whose catch marks the generation `failed`; after the swap
  that is the published one, and there is no other.
- **A decision sticks to a running rebuild** (`publication_decision`). The 30 s key of human requests is
  shared by requests before and after the job has started at the 15th second.
- **The marks precede the gate** (`discovery_gate`). A run that the gate then quarantines has already
  marked listings missing, so the source does not keep its last good data as the README says.
- **A row says "running" of a job that is over** (`ledger_stuck`). Nothing dies and nothing stalls
  here (`JobStalls = 0`).  The jobs of the operations page have fixed ids, and the worker updates every row of an id at
  once (`main.ts:94`, `137`).  When an earlier job has left its row `failed` or `dead_letter`, the next
  start inserts a second row of the same `idempotency_key`; setting both to `running` or `succeeded` breaks
  `job_runs_idempotency_uq`, and the `.catch` beside the UPDATE swallows that.  The job ends, and its newest row
  stays `queued` or `running`.

### Fairness

`crawl_liveness`: `WF(Elapse)`: time passes.
weak fairness of the steps of the tick but for its failures: the loop of the scheduler re-arms its
timer whether or not a tick throws, and a restarted scheduler starts with a
tick.  `WF(StalledCheck)`: every worker looks for stalled jobs each minute.
`SF(Take)`: a waiting job is taken in the end although the slot is busy in
between; BullMQ's queue is ordered and every handler ends.  Weak fairness of the
handler's steps: an extraction loop stops at `maxRunDurationMs`, and a
statement is answered or throws.  Nothing is assumed of the manual trigger, of
crashes, of exceptions, or of a discovery that ends unhealthy.

`discovery_liveness`: `WF(RunStep)`.  There is always a next run (`DiscoveryRecurs`
of `CrawlRuns`) and a run that does not die goes on.  Nothing is assumed of the clock, which may
cut every run short, nor of the shop, the refresh or the ageing of listings; only the faults
are finitely many, since a shop whose discovery always fails makes no progress in the code either.

`components`: `WF(Sweep)` and `WF(JobStep(l))` for `NoListingOfTheSweepStarves` (the scheduler ticks,
the workers take what waits); `WF(Tick)` and `WF(FetchStep(f))` for the fetcher (the clock runs, the event
loop serves what is ready, a request is answered or times out); `WF(CallerStep(c))` for the pool
(the database answers, the timers fire).

## 4. The proofs

Each theorem holds for every value of the constants that its module's assumption (`...Assumption`)
allows: sets of any size, any bounds.  A component's proof has one shape: an inductive
invariant, shown of the initial states, shown of every action in turn (one step per action), and the property
as a consequence.  What makes the invariant inductive is the point of each:

**`CrawlRunsProofs`** (`TypeCorrect`, `SingleProcess`, `SingleDiscovery`, `OneAtATimeAlways`,
`BackOffHolds`).  `JobInv`: a busy slot's key is a key whose job is *active*
(`BusyHoldsJob`), an idle slot has none.  Without it `OneProcessPerJob` is not inductive: one must know that
`Take` finds a waiting job only when nobody works on it, which holds because nothing but the end of
a handler, or the stalled check when no slot holds the key, leaves `active`.  Every step but
`StartDiscovery` only removes running rows, and that one is guarded by the index.
`BackOffHolds` is an action property, from `BackOffOwed`: the time since the last closed
discovery and the time to `next_discovery_at` add up to an interval *unless*
the process that closed the row, or the tick that reaped it, still owes the
shop its update, or a fault has dropped that update.  A SELECT that finds `next_discovery_at` in the
past therefore lists a shop inside its interval only while such a process is between its two
statements.  What `TickSchedule` creates a job for has no such process, because that one
still holds the job: if the interval is not over the back-off stands, so that no
later tick lists the shop.  That a discovery is *never* sent inside the back-off would be false: the list may be
older than the back-off, and the code does not look again.

**`PublicationProofs`** (`Inductive`, `TypeCorrect`, `SinglePublication`, `NothingHalfBuilt`,
`OneWholeAlways`, `QuarantinedAlwaysStale`, `ImplementsMarket`).  `PubInv`: types, at most one published generation, every
generation in `building` that a slot works on is that slot's alone (`Owned`), a slot past its
swap owns nothing in `building` (`Swapped`), generation numbers are fresh
(`Fresh`), and what a building generation holds plus what is still to insert is
what its SELECT returned (`Content`).  `QuarantinedAlwaysStale` adds `GateIsSure`: what was in
quarantine all through a rebuild still is, and what passed the gate has all of it marked.
`ImplementsMarket`: `Publication` implements `PublishedMarket`, **assuming** `~CleanupFaults`,
the assumption the run `publication_lost` shows to be needed.  `Review` is a `Change`,
`Commit` a `Publish` of a value in `past`, every other step a stutter.

**`DiscoveryCycleProofs`** (`CycleInvariant`, `TypeCorrect`, `CutoffCoversAlways`,
`OnlyUnconfirmedMarkedAlways`, `MarksNeedWholeWalkAlways`, `MarkingIsEarnedAlways`).  `IInv` is `TypeOK` with
`Walk` and `Marking`.  `Walk`: every target not
yet processed is still in `rest`, is awaited by a lane, or comes at the cut-off or after it, and
once there is a cut-off all of `rest` comes after it.  Without the last part a later, smaller
cut-off could leave out a target that an earlier lane had let go.
`Marking` follows a confirmed listing: it is `seen` until the cycle is recorded, hence no suspect,
hence not marked.

**`MatchReviewProofs`** (`ReviewTypeCorrect`, `OneQuestionAlways`, `TakenCasesKept`,
`PersonOverMatcherAlways`).  `ReviewInv`: types, what a matcher has prepared agrees with the case
it looked up (`Prepared`), a case that a card or a job holds is not used for another question
meanwhile (`Held`), and a pair has one open case (`OneEach`).  `PersonOverMatcherAlways` is the
refinement of `DecisionRegister`: each transaction is a `Matched`, a `Decided` or a `GivenUp` of one
listing, or changes nothing that is verified, whatever the job had read before its transaction.

**`ReadingProofs`**
- `ReadingComesToRest` (`ListingIdentity`).  `IdentityHolds`: the row is settled (`Settled`), that is, every field that
  the page or its name gives is in it, and the category is one that the next reading leaves.  The reading of a name is a
  fold over the places of the name, inside a fold over two passes; a lemma follows each fold as a trace from its first place
  to its last (`PassTrace`, `RestTrace`), and what a reading may find is said of the end
  of the trace (`ParseReads`).  The scope of the vineyards is the one thing that a reading
  takes from the row, hence `lastRead.scope`.
- `LeftOutForAnother` (`ProducerNames`).  A name that is left out goes for one of a higher `Standing`: more
  frequent, or as frequent and longer (`LeftForHigher`).  For the names that go because the longer has only words of the wine more,
  this is the lemma `WineWordsTrail`: such words never begin a name, so the shorter one stands in front, and
  is a candidate in every listing in which the longer is; hence its count, a sum over the listings,
  is no smaller (`SumGrows`).  Of every group one stands highest (`OneStandsHighest`), and that one goes for a name outside.
  It needs that the rest of a listing repeats no word, which is the hypothesis of the property.
- `FollowingIsSafe` (`ProducerNames`).  `NamesHold`: who has a listing is in force, rows and mined names know
  whether they are a person's, no alias is a person's name, and a suggestion on the screen keeps a producer in force when it
  merges one.  The survivor is in force when any of its group is (`SurvivorInForce`); a name that is
  discarded has no listing (`NoneLinked`, from the sum of the counts).
- `OwnersFollowNames` (`ProducerRegister`).  `RegisterInv`: the same is true of everything a
  run keeps while the register changes under it: the aliases (`AliasesMerged`), the vocabulary it
  has loaded (`VocabularyMerged`), the owners it has read (`ReadFollows`).  "Merged into" is
  reachability, stated without recursion as membership in every closed set.

**`DecisionProofs`**
- `AlwaysDecidedByTheQuestion` (`MatchEngine`).  `EngineInv`: the candidates have scores and
  distinct ids, and the decision is `DecideMatch`'s.  The rest is about the operator: the leader of a list in
  which one candidate stands clear of the others leads every list that has it, and without the
  others the margin is no smaller; for a rejected list the leader is the same as in the list of the eligible ones.
- `NoPairEverForgotten` (`SearchRounds`), for any number of tracked and failing pairs.  `RoundsInv`: a left-out pair is
  due and not tracked (`LeftOutIsDue`), and the places counted against it went to as many different pairs
  that stand behind it now (`OthersServed`).  The step is a counting argument: a round that leaves a due
  pair out is full of due ones that come before it; those that are neither tracked nor failing
  take `Places` of it, and none of them was served before in its place, because a served pair goes behind.
  When the tracked and the failing ones fill the round, `Places` is 0 and the others wait: the theorem
  does not promise otherwise (see 5).
- `RightOneAlwaysFound` (`CandidateSearch`).  `SearchInv`: what is found is in the order of the channels, at most
  `PerChannel` listings of each (`Gathered`), and an unchanged listing that a channel had to find
  is found, in front of the others when the channel is a strong one (`Noticed`).  The strong channels come first, so that at most
  `2 * PerChannel` listings are in front, and the cut to `TotalFound` spares them (`FrontIsKept`); the
  gap of a listing is bridged by one of three passes (`GapsBridged`).  It was the proof that showed
  that listings which lose the relation during the search must be counted among the competitors: a
  channel may have given one of them instead.
- `OneVariantAlways` (`ClusterSweep`).  `SweepInv`: who is between the look-up and the INSERT
  holds the lock of the identity it has looked up (`Holding`), and what it did not find is still
  not there (`Absent`): a variant of this identity that others create meanwhile was asked for under another one, and is not
  among those counted (`Kept`).

**`CollectionProofs`**
- `PublicAlways`, `LeapsAreWithheld`, `FitToPublishAlways` (`OfferPrice`).  `OfferInv`: a row written once
  holds the selection of its page (`Faithful`); the bound on a leap is arithmetic over the two tests.
  The leap is measured from the observation before, as the code does, and not from the price that was last shown.
- `RateAlwaysKept` (`PoliteFetcher`).  `FetchInv`: for every window, what was spent in it and what is
  left in the bucket is at most the burst and what the window has earned (`Paced`), and a fetch that waits in
  a queue stands there once (`Placed`).
- `WalkTypesHold`, `NothingTakenAlways` (`SourceWalk`).  `WalkInOrder`: what was listed all along is in a
  page or a sitemap that was read, or in one that is still to read, or something noticed has
  gone wrong (`PagesInOrder`, `SitemapsInOrder`).
- `PositionAlwaysAddsUp` (`MarketPosition`).  Nearly all of it is about the operator.  The strict order by price and shop puts
  every offer in the place that the number of smaller ones gives it (`SortedOffers`), so that the rank, which the code
  carries from offer to offer, is one more than the number of the cheaper ones (`RankCounts`); the median stands
  in the middle place or between the two middle ones (`MedianHalves`), and the sum, counted forint by forint, lies between
  the smallest and the largest price as many times as there are offers (`AverageBetween`).

**`OperationProofs`**
- `MigratedInOrder` (`Migrations`).  `MigrationInv`: whoever applies holds the lock
  (`Exclusive`) and has read all that is recorded (`Informed`).
- `ServedAlwaysInForce` (`Settings`).  `SettingsInv`: every value that a load has read, or a copy keeps, was in
  force late enough for the time at which the load began (`Held`, `Late`).
- `AlertsAlwaysDelivered` (`Alerts`).  `AlertInv`: the count of tellings of each row, by where the
  job is (`RowTold`).
- `ImportsAlwaysLandOnce` (`ImportBatch`), for any number of clients.  `ImportInv`: the catalogue has no two active variants
  of a family and key (`CatalogueApart`); the families of a name and the requests about to write one
  are together no more than the clients, because who is about to write one has looked when there was none (`FewFamilies`); and what a request has counted agrees with the rows (`RequestInOrder`).
- `FoundationsAlwaysKept` (`DecisionLog`).  `LogInv`: what a DELETE has selected stays superseded
  (`Superseded`), only one transaction verifies a triple at a time (`OneVerifies`), and the live
  relation refers to the newest of the engine's verifications (`Confirming`, `Foremost`).
- `LedgerAlwaysTells` (`JobLedger`).  `LedgerInv`: who works on a job holds it active, rows are
  in the order of their dates, and the only row of an operation tells the state of its job unless
  something is on its way that will (`Pending`, `LoneRowsTell`).

Induction over data is done where it is needed in set form: a lemma on finite sets (`FiniteHasFirst`,
`HasLeast`, `SubsetsUp`) takes the member with the fewest before it, from the well-founded order of the
finite sets in the library.  The folds of the community modules choose a recursive function on the subsets of
a set; `SumsUnfold`, `RestTrace` and their like show that there is one, with the set of the
sizes, or of the places, for which a part of it exists.

The assumptions that the parts of `ReadingProofs` make say what the loaders of the code make sure of: no
phrase of a vocabulary is empty (`wine-parser.ts:69`), the wine words fill other slots than the producer's
(`wine-vocab.ts:33`), the instance's years, volumes and counts are numbers, and `NoEntry` is no name.

Model-checked only:
- the liveness properties `EveryRunCloses`, `DiscoveryRecurs`, `EveryTargetProcessed`, `NoListingOfTheSweepStarves`,
  `EveryFetchOfTheFetcherEnds`, `ThePoolDrains`: fairness and ENABLED are beyond the prover;
- `ComponentsTypeOK`, the conjunction over the parts: the type invariants of nearly all the
  parts above are proved with their theorems, in their own modules;
- `PriceIsOfTheProduct` (`PageReading`): the words in front of and behind a price decide whose it is, within windows
  of the code that pages do not know, so that the property is one about chosen pages and not about all;
- the properties that the code violates.

## 5. What is not modelled, and what the models do not promise

Not modelled: authentication and sessions; the read side (products, dashboard, search, export), the web
interface and the operator command line, which write no state the models depend on but for the
operations named above (`cli/recheck.ts` is `BringForward` of `SearchRounds`; the CLI that
resets the database does not take the migration lock); robots.txt, address guard and artifact storage; number formats;
the reasons are in `PROJECT.json`.

Behaviour of the code met while modelling, which the properties leave out by name:

- *Discovery.* A listed product whose page failed in the run that closes a cycle is marked missing
  (`discovery.ts:313`).  The price anomaly is measured against the latest offer, a quarantined
  one included, and a page without a price resets it; `latest_offer_id` moves before the shop gate judges the run (`persist.ts:448`).
- *Matching.* A stale card can decide a case again after it was resolved, a rejected pair can be proposed again with a
  new hash, a matched status can lack a relation.  With tied candidates the decision says "review", and which
  of them is named hangs on the order of the input.
- *Search.* Only the first level of the query plan is searched (`candidates.ts:285`) and no variant has
  a SKU; a channel that fails counts as one that found nothing.  A pair whose listing a person
  has given to another variant never gets a new date (`lib/matching.ts:371`) and stays at the head of every
  round, like one whose evaluation throws (`processors/matching.ts:599`).  Tracked pairs come first as well.  As soon as
  these together fill a round (200), no other pair is searched for, and nothing in the code prevents it.
- *Cluster sweep.* A job that dies leaves `searching`, which no sweep takes up; `rejected_all` is never swept
  again; a re-extraction that resets a listing under a running job can be parked for seven days.  The lock and the
  look-up compare the brand, the family is found without it (`processors/matching.ts:419-452`): a variant may be stored under
  the brand of an older family, the next listing of the same identity does not find it, and makes another one.
- *Producers.* A re-extraction's `applied_at = now()` overwrites the NULL that a concurrent merge has set; a
  request between the tail check and the end of a job is absorbed; A into B and B into A may both
  pass.  The screen of merge groups may suggest the family name for the person (`producer-merge.ts:304`).
- *Decisions.* A doubtful decision whose row is superseded and deleted before it is confirmed
  fails, or confirms a row that the waiting DELETE then takes, leaving the case without its
  decision (`confirmedLate`).
- *Imports.* The catalogue is compared by volume, pack, vintage and name alone (`imports.ts:246-262`), so that
  another winery's wine of the name counts as a duplicate and is skipped at the commit (`379`).  Two requests at once can commit
  a row twice (`358`, `373`) and write two families of one name, each with its own active variant; an interrupted
  commit makes a second proposed variant of a row without a volume.
- *Ledger.* A second submission of a key that has succeeded inserts no row, so that its job is not shown as waiting;
  the row may come after the job is over.
- *Settings.* Two PUTs at once, or a crash between UPDATE and INSERT, leave a key without an
  active version (`settings.ts:92`).
- *Alerts.* The level of an open row never rises; repetitions of a row that was sent are not
  sent again until it is resolved; alerts below the level stay pending for ever.
- *Adapters.* Shopify calls its list complete though a later page failed or a limit cut it;
  WooCommerce's count is read on the first page only; a sitemap answered by a page of HTML is not
  missed (`Unnoticed`).
- *Prices.* An extreme price is withheld once: 10 shown, 90 withheld and 90 again is shown, since the code compares with
  the latest observation whether or not it was shown (`persist.ts:383-389`); after an observation that kept no price,
  any price is shown at once.
- *Extraction.* A price in euros alone is read as forints (`price.ts:147`), an `ins`/`del` pair of a related product is
  taken for the product's.
- *Names.* A name is dropped for one that is as frequent, whether or not the two occur together
  (`producer-mine.ts:266`, `303` say that it *only* occurs in the longer one); when a name repeats a word, the
  shorter one of two may be counted less often than the longer.
- *Identity.* A name of two wineries, each with a vineyard that has a word of the other's name, may go from one to the
  other at every reading (`persist.ts:152`, `wine-apply.ts:244`): `ReadingSettles` speaks of the next reading by the same winery.
  A listing is compared without its producer's name (`persist.ts:77`); the growth of a vocabulary, and copies of it of
  different age, look like drift.
- *Crawler and pool.* The rate of `PoliteFetcher` is that of one process: the buckets and semaphores are in memory, so
  that two workers ask a host twice as often.  The request for robots.txt goes out without a token, and so does each
  redirect that a request follows: `RateKept` counts neither.  More fetches than the limit may be under way, while a permit is handed over (`fetcher.ts:75`); as many
  lock holders as connections starve each other until a time-out (`pool.ts:122`).
