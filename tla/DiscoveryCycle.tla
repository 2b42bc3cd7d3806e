--------------------------- MODULE DiscoveryCycle ---------------------------
(***************************************************************************)
(* The catalogue of one shop over many discovery runs.  A run lists the    *)
(* catalogue, walks the targets from the point where the last run stopped  *)
(* with several lanes at once, skips what is fresh, records how far it     *)
(* got, marks as missing what the whole cycle has not seen, and is judged  *)
(* by the quality gate.  Meanwhile the catalogue changes, listings age and *)
(* the price refresh touches the same rows.                                *)
(*                                                                         *)
(* Every statement that commits on its own is a step.  One run at a time:  *)
(* CrawlRuns shows that a shop never has two.                              *)
(***************************************************************************)
EXTENDS Integers, FiniteSets

CONSTANTS
    N,          \* the product pages of the shop, in the order it lists them
    Lanes,      \* concurrent extractions of a run (crawlPolicy.maxConcurrency)
    MaxUrls,    \* targets a discovery returns at most (WORKER_MAX_URLS_PER_RUN)
    MaxChanges, \* bound on the changes of the catalogue
    MaxFaults   \* bound on crashes, partial discoveries and lost time budgets

ASSUME DiscoveryAssumption ==
    /\ N \in Nat \ {0}
    /\ MaxUrls \in Nat \ {0}
    /\ MaxChanges \in Nat
    /\ MaxFaults \in Nat
    /\ Lanes # {}

Products == 1..N
NoUrl    == 0

VARIABLES
    catalogue, \* what the shop lists today (external)
    listing,   \* source_listings.listing_status
    seen,      \* active listings with last_seen_at since the cycle started
    fresh,     \* active ones extracted within DISCOVERY_SKIP_FRESH_HOURS
    resume,    \* shops.discovery_resume_url
    cycle,     \* whether shops.discovery_cycle_started_at is set
    run,       \* the discovery run
    changes,   \* changes of the catalogue so far
    faults     \* faults so far

vars == <<catalogue, listing, seen, fresh, resume, cycle, run, changes, faults>>

(* The two timestamps of a listing matter only while it is active: when it *)
(* becomes active again, persistListing sets both.                         *)
Active == {p \in Products : listing[p] = "active"}

Steps == {"idle", "discover", "extract", "touch", "record", "select", "mark", "gate"}

(* What processDiscovery keeps in memory.                                  *)
RunRecord ==
    [pc       : Steps,
     complete : BOOLEAN,             \* completeness is 'complete', status 'ok'
     offered  : SUBSET Products,     \* observation: the catalogue it listed
     targets  : SUBSET Products,     \* what adapter.discover returned
     from     : Products,            \* where the rotated list begins
     rest     : SUBSET Products,     \* targets at index or beyond
     known    : SUBSET Products,     \* those that loadKnownListings found fresh
     looping  : SUBSET Lanes,        \* worker loops not ended by the clock
     busy     : [Lanes -> Products \cup {NoUrl}],  \* the page a lane awaits
     late     : BOOLEAN,             \* maxRunDurationMs is over
     cutoff   : Products \cup {NoUrl},
     outcome  : [Products -> {"none", "skipped", "ok", "failed"}],
     suspects : SUBSET Products,     \* rows of the SELECT before the marking
     marked   : SUBSET Products,
     verdict  : {"none", "passed", "quarantined"}]

IdleRun ==
    [pc       |-> "idle",
     complete |-> FALSE,
     offered  |-> {},
     targets  |-> {},
     from     |-> 1,
     rest     |-> {},
     known    |-> {},
     looping  |-> {},
     busy     |-> [l \in Lanes |-> NoUrl],
     late     |-> FALSE,
     cutoff   |-> NoUrl,
     outcome  |-> [p \in Products |-> "none"],
     suspects |-> {},
     marked   |-> {},
     verdict  |-> "none"]

(* Type correctness; the two timestamps are those of active listings, so   *)
(* whatever confirms a listing also makes it active again.                 *)
TypeOK ==
    /\ catalogue \subseteq Products
    /\ listing \in [Products -> {"none", "active", "missing"}]
    /\ seen \subseteq Active
    /\ fresh \subseteq Active
    /\ resume \in Products \cup {NoUrl}
    /\ cycle \in BOOLEAN
    /\ run \in RunRecord
    /\ changes \in 0..MaxChanges
    /\ faults \in 0..MaxFaults

Init ==
    /\ catalogue \in SUBSET Products
    /\ listing = [p \in Products |-> "none"]
    /\ seen = {} /\ fresh = {}
    /\ resume = NoUrl
    /\ cycle = FALSE
    /\ run = IdleRun
    /\ changes = 0 /\ faults = 0

-----------------------------------------------------------------------------
(* Mutant: every run starts at the first target. *)
StartOver(targets) == 1

(* rotateToResumePoint: the list from its element f on, then the beginning.*)
(* The start is the resume URL while the list still has it, else the first *)
(* element.  Rank is the index in the rotated list, with gaps for what the *)
(* list does not have.                                                     *)
Start(targets) == IF resume \in targets THEN resume ELSE 1

Rank(f, p) == IF p >= f THEN p - f ELSE p - f + N

(* The next element that the shared index hands out.                       *)
Next1(p) ==
    /\ p \in run.rest
    /\ \A q \in run.rest : Rank(run.from, p) <= Rank(run.from, q)

(* The adapter stops at maxUrls and calls the result complete all the same.*)
FirstUrls(S) == {p \in S : Cardinality({q \in S : q < p}) < MaxUrls}

(* Mutant: the UPDATE leaves listing_status as it was. *)
PersistKeepsStatus(p) ==
    /\ listing' = [listing EXCEPT ![p] = IF @ = "none" THEN "active" ELSE @]
    /\ seen' = seen \cup {p}
    /\ fresh' = fresh \cup {p}

(* persistListing: the UPDATE or INSERT of the listing row.                *)
Persist(p) ==
    /\ listing' = [listing EXCEPT ![p] = "active"]
    /\ seen' = seen \cup {p}
    /\ fresh' = fresh \cup {p}

(* markListingMissing.                                                     *)
MarkMissing(p) ==
    /\ listing' = [listing EXCEPT ![p] = "missing"]
    /\ seen' = seen \ {p}
    /\ fresh' = fresh \ {p}

-----------------------------------------------------------------------------
(* The run row and the resume state.  Without a cycle the start of the run *)
(* is the start of the cycle: nothing has been seen since.                 *)
StartRun ==
    /\ run.pc = "idle"
    /\ run' = [IdleRun EXCEPT !.pc = "discover"]
    /\ seen' = IF cycle THEN seen ELSE {}
    /\ UNCHANGED <<catalogue, listing, fresh, resume, cycle, changes, faults>>

(* adapter.discover has returned T; rotate it, load the known listings and *)
(* start the lanes.                                                        *)
BeginWalk(T, complete) ==
    /\ run.pc = "discover"
    /\ run' = [run EXCEPT !.pc = "extract", !.complete = complete,
                          !.offered = catalogue, !.targets = T,
                          !.from = Start(T), !.rest = T, !.known = fresh \cap T,
                          !.looping = Lanes]
    /\ UNCHANGED <<catalogue, listing, seen, fresh, resume, cycle, changes>>

DiscoverAll ==
    /\ BeginWalk(FirstUrls(catalogue), catalogue # {})
    /\ UNCHANGED faults

(* A sitemap that fails, a block or a 429: part of the list, or nothing.   *)
DiscoverPart ==
    /\ faults < MaxFaults
    /\ \E T \in SUBSET catalogue : BeginWalk(T, FALSE)
    /\ faults' = faults + 1

Ready(l) == run.pc = "extract" /\ l \in run.looping /\ run.busy[l] = NoUrl

(* A fresh listing costs no request, so it is looked at before the clock.  *)
Skip(l, p) ==
    /\ Ready(l) /\ Next1(p)
    /\ p \in run.known
    /\ run' = [run EXCEPT !.rest = @ \ {p}, !.known = @ \ {p},
                          !.outcome[p] = "skipped"]
    /\ UNCHANGED <<catalogue, listing, seen, fresh, resume, cycle, changes, faults>>

(* Mutant: the lane that comes last decides. *)
LastCutoff(p) == p

(* Several lanes can come here; the smallest index is where to resume.     *)
EarlierCutoff(p) ==
    IF run.cutoff = NoUrl \/ Rank(run.from, p) < Rank(run.from, run.cutoff)
      THEN p ELSE run.cutoff

CutOff(l, p) ==
    /\ Ready(l) /\ Next1(p)
    /\ p \notin run.known /\ run.late
    /\ run' = [run EXCEPT !.rest = @ \ {p}, !.cutoff = EarlierCutoff(p),
                          !.looping = @ \ {l}]
    /\ UNCHANGED <<catalogue, listing, seen, fresh, resume, cycle, changes, faults>>

(* The lane requests the page and awaits it.                               *)
Request(l, p) ==
    /\ Ready(l) /\ Next1(p)
    /\ p \notin run.known /\ ~run.late
    /\ run' = [run EXCEPT !.rest = @ \ {p}, !.busy[l] = p]
    /\ UNCHANGED <<catalogue, listing, seen, fresh, resume, cycle, changes, faults>>

(* The page answered and its listing is persisted.                         *)
Extracted(l, p) ==
    /\ run.pc = "extract" /\ run.busy[l] = p
    /\ p \in catalogue
    /\ Persist(p)
    /\ run' = [run EXCEPT !.busy[l] = NoUrl, !.outcome[p] = "ok"]
    /\ UNCHANGED <<catalogue, resume, cycle, changes, faults>>

(* No page, no wine on it, or an exception: counted, and the lane goes on. *)
ExtractFails(l, p) ==
    /\ run.pc = "extract" /\ run.busy[l] = p
    /\ run' = [run EXCEPT !.busy[l] = NoUrl, !.outcome[p] = "failed"]
    /\ UNCHANGED <<catalogue, listing, seen, fresh, resume, cycle, changes, faults>>

(* maxRunDurationMs counts from the start of the run, discovery included;  *)
(* the lanes look at the clock when they take the next target.  A          *)
(* discovery that uses up all of the time counts as a fault.               *)
Requested == \/ \E l \in Lanes : run.busy[l] # NoUrl
             \/ \E p \in Products : run.outcome[p] \in {"ok", "failed"}

TimeOver ==
    /\ run.pc = "extract" /\ ~run.late /\ run.rest # {}
    /\ run' = [run EXCEPT !.late = TRUE]
    /\ \/ Requested /\ UNCHANGED faults
       \/ ~Requested /\ faults < MaxFaults /\ faults' = faults + 1
    /\ UNCHANGED <<catalogue, listing, seen, fresh, resume, cycle, changes>>

(* Promise.all of the lanes: each was cut off or found the list used up.   *)
AllReturned ==
    /\ run.pc = "extract"
    /\ \A l \in run.looping : run.rest = {} /\ run.busy[l] = NoUrl
    /\ run' = [run EXCEPT !.pc = "touch"]
    /\ UNCHANGED <<catalogue, listing, seen, fresh, resume, cycle, changes, faults>>

(* Mutant: what was skipped is not touched. *)
NothingSkipped == {}

(* last_seen_at = now() for what was skipped.                              *)
Skipped == {p \in Products : run.outcome[p] = "skipped"}

Touch ==
    /\ run.pc = "touch"
    /\ seen' = seen \cup (Skipped \cap Active)
    /\ run' = [run EXCEPT !.pc = "record"]
    /\ UNCHANGED <<catalogue, listing, fresh, resume, cycle, changes, faults>>

(* Mutant: the end of a cycle is enough. *)
DetectsAlways == run.cutoff = NoUrl

(* Missing listings are looked for after a whole cycle and a healthy list. *)
DetectsMissing == run.cutoff = NoUrl /\ run.complete

(* The resume point, or the end of the cycle.  From here on seen is about  *)
(* the next cycle; what the old one has not seen are the suspects.         *)
RecordCycle ==
    /\ run.pc = "record"
    /\ cycle' = TRUE
    /\ \/ /\ run.cutoff # NoUrl
          /\ resume' = run.cutoff
          /\ run' = [run EXCEPT !.pc = "gate"]
          /\ UNCHANGED seen
       \/ /\ run.cutoff = NoUrl
          /\ resume' = NoUrl
          /\ run' = [run EXCEPT
                       !.pc = IF DetectsMissing THEN "select" ELSE "gate",
                       !.suspects = IF DetectsMissing THEN Products \ seen ELSE {}]
          /\ seen' = {}
    /\ UNCHANGED <<catalogue, listing, fresh, changes, faults>>

(* The SELECT of the active listings last seen before the cycle, and one   *)
(* markListingMissing per row, whatever happened to the row meanwhile.     *)
SelectMissing ==
    /\ run.pc = "select"
    /\ run' = [run EXCEPT !.pc = "mark", !.suspects = @ \cap Active]
    /\ UNCHANGED <<catalogue, listing, seen, fresh, resume, cycle, changes, faults>>

Mark(p) ==
    /\ run.pc = "mark" /\ p \in run.suspects
    /\ MarkMissing(p)
    /\ run' = [run EXCEPT !.suspects = @ \ {p}, !.marked = @ \cup {p}]
    /\ UNCHANGED <<catalogue, resume, cycle, changes, faults>>

(* The gate counts prices, duplicates, drifts and the share of failed      *)
(* pages: it can go either way, and an incomplete empty discovery fails.   *)
Gate ==
    /\ run.pc = "gate" \/ (run.pc = "mark" /\ run.suspects = {})
    /\ \E v \in {"passed", "quarantined"} :
          /\ run.targets = {} => v = "quarantined"
          /\ run' = [IdleRun EXCEPT !.verdict = v]
    /\ UNCHANGED <<catalogue, listing, seen, fresh, resume, cycle, changes, faults>>

(* An exception or the death of the worker: the run is lost, its           *)
(* statements so far stay.                                                 *)
RunDies ==
    /\ run.pc # "idle" /\ faults < MaxFaults
    /\ run' = IdleRun
    /\ faults' = faults + 1
    /\ UNCHANGED <<catalogue, listing, seen, fresh, resume, cycle, changes>>

-----------------------------------------------------------------------------
(* A price refresh of a listing: the page answers ...                      *)
RefreshOk(p) ==
    /\ listing[p] # "none" /\ p \in catalogue
    /\ Persist(p)
    /\ run' = IF run.pc = "select"
                THEN [run EXCEPT !.suspects = @ \ {p}] ELSE run
    /\ UNCHANGED <<catalogue, resume, cycle, changes, faults>>

(* ... or is unavailable.  The refresh of a shop asks for a 404 before it  *)
(* marks; the refresh of one listing marks on any failure to reach it.     *)
RefreshUnavailable(p) ==
    /\ listing[p] # "none"
    /\ MarkMissing(p)
    /\ UNCHANGED <<catalogue, resume, cycle, run, changes, faults>>

(* Time passes: the last extraction of a listing leaves the window.        *)
Age(p) ==
    /\ p \in fresh \cup run.known
    /\ fresh' = fresh \ {p}
    /\ run' = [run EXCEPT !.known = @ \ {p}]
    /\ UNCHANGED <<catalogue, listing, seen, resume, cycle, changes, faults>>

(* The shop takes a product into its catalogue or out of it.               *)
Change(p) ==
    /\ changes < MaxChanges
    /\ catalogue' = IF p \in catalogue THEN catalogue \ {p} ELSE catalogue \cup {p}
    /\ changes' = changes + 1
    /\ UNCHANGED <<listing, seen, fresh, resume, cycle, run, faults>>

-----------------------------------------------------------------------------
Lane(l, p) ==
    \/ Skip(l, p)
    \/ CutOff(l, p)
    \/ Request(l, p)
    \/ Extracted(l, p)
    \/ ExtractFails(l, p)

RunStep ==
    \/ StartRun
    \/ DiscoverAll
    \/ \E l \in Lanes, p \in Products : Lane(l, p)
    \/ AllReturned
    \/ Touch
    \/ RecordCycle
    \/ SelectMissing
    \/ \E p \in Products : Mark(p)
    \/ Gate

Next ==
    \/ RunStep
    \/ DiscoverPart
    \/ TimeOver
    \/ RunDies
    \/ \E p \in Products :
          \/ RefreshOk(p)
          \/ RefreshUnavailable(p)
          \/ Age(p)
          \/ Change(p)

(* Runs come again and again (DiscoveryRecurs of CrawlRuns) and a run that *)
(* does not die goes on; nothing is promised of the clock, the shop or the *)
(* refresh.                                                                *)
Fairness == WF_vars(RunStep)

Spec == Init /\ [][Next]_vars /\ Fairness

-----------------------------------------------------------------------------
Judged == {"touch", "record", "select", "mark", "gate"}

(* When the lanes have returned, whatever was not processed comes at the   *)
(* cut-off or after it, so the resume URL leaves nothing out, although     *)
(* lanes pass the index on in any order, and a cycle without a cut-off has *)
(* gone through every target (discovery.ts: workerLoop, nextUrl).          *)
CutoffCovers ==
    run.pc \in Judged =>
        \A p \in run.targets :
            run.outcome[p] = "none" =>
                /\ run.cutoff # NoUrl
                /\ Rank(run.from, run.cutoff) <= Rank(run.from, p)

(* A discovery marks a listing as missing only if the run that closed the  *)
(* cycle did not confirm it: it was no target of that run or its page      *)
(* failed.  What was skipped as fresh is never marked (discovery.ts: the   *)
(* last_seen_at of the skipped, the SELECT of the missing).                *)
OnlyUnconfirmedMarked ==
    \A p \in run.marked :
        p \notin run.targets \/ run.outcome[p] = "failed"

(* Marking follows a walk through a whole, healthy list: a run that was    *)
(* cut off, blocked or got part of the list marks nothing, whatever runs,  *)
(* refreshes and catalogue changes went before it.                         *)
MarksNeedWholeWalk ==
    run.marked # {} =>
        /\ run.cutoff = NoUrl
        /\ run.targets = FirstUrls(run.offered)
        /\ \A p \in run.targets : run.outcome[p] # "none"

(* A listing is called missing only by a run that walked through a whole,  *)
(* healthy list and did not confirm it.                                    *)
MarkingIsEarned == OnlyUnconfirmedMarked /\ MarksNeedWholeWalk

(* The part of a catalogue that one run cannot reach has its turn in a     *)
(* later one: a product that the shop keeps listing is processed again and *)
(* again, however early each run is cut off (0013_discovery_resume.sql).   *)
EveryTargetProcessed ==
    \A p \in Products :
        []<>(p \notin FirstUrls(catalogue) \/ run.outcome[p] # "none")

(* A source that fails its gate keeps showing its last good data           *)
(* (README.md, the quality gates): a listing that an earlier run has shown *)
(* is not taken off the market by a run that ends in quarantine.           *)
QuarantineKeepsLastGood ==
    [][run.verdict = "none" /\ run'.verdict = "quarantined" => run.marked = {}]_vars

=============================================================================
