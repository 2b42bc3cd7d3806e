------------------------------ MODULE CrawlRuns ------------------------------
(***************************************************************************)
(* The life of a crawl run: the scheduler tick that closes abandoned runs  *)
(* and dispatches due work, the idempotent BullMQ job of a (shop, kind)    *)
(* pair, the worker that inserts the crawl_runs row, works under it and    *)
(* writes the outcome back to the row and then to the shop, the manual     *)
(* trigger of the API, and the deaths of workers and schedulers between    *)
(* any two of those steps.                                                 *)
(*                                                                         *)
(* Each SQL statement that commits on its own is a step of its own.  Time  *)
(* is discrete: Elapse is the only action that lets it pass.               *)
(***************************************************************************)
EXTENDS Integers, FiniteSets

CONSTANTS
    Shops,           \* rows of the shops table that are active and not policy_disabled
    Workers,         \* worker slots: one job is processed in a slot at a time
    Runs,            \* identities of crawl_runs rows; a closed row is recycled
    NoRun, NoKey,    \* "no row", "no job"
    StaleAfter,      \* STALE_RUN_MINUTES, in units of time
    Interval,        \* discovery_interval_hours
    RefreshInterval, \* price_refresh_interval_hours
    MaxBackOff,      \* cap of the failure back-off (168 h / 24 h in the code)
    MaxAttempts,     \* BullMQ attempts of a job
    MaxStalled,      \* BullMQ maxStalledCount
    MaxFaults,       \* bound on crashes, lost statements and escaping exceptions
    SlowPhases       \* phases a live process may spend silent beyond StaleAfter

Kinds == {"discovery", "price_refresh"}
Keys  == Shops \X Kinds

(* Phases in which a process works under an inserted, still open row. *)
WorkPhases == {"discovering", "beating", "refreshing"}

ASSUME CrawlAssumption ==
    /\ Shops # {}
    /\ NoRun \notin Runs
    /\ NoKey \notin Keys
    /\ StaleAfter \in Nat \ {0}
    /\ Interval \in Nat \ {0}
    /\ RefreshInterval \in Nat \ {0}
    /\ MaxBackOff \in Nat
    /\ MaxAttempts \in Nat \ {0}
    /\ MaxStalled \in Nat
    /\ MaxFaults \in Nat
    /\ SlowPhases \subseteq WorkPhases

VARIABLES
    run,        \* crawl_runs: [shop, kind, status, silence since the last sign of life]
    job,        \* BullMQ: the single job of a key, [state, tries, stalls];
                \* a delayed retry is a waiting job, its delay is not timed
    proc,       \* what a worker slot is doing
    shop,       \* shops: failures, time to next_discovery_at and next_price_refresh_at
    tick,       \* progress of the scheduler tick that holds the advisory lock
    due,        \* what is left of the list of due shops that the tick has read, as keys
    abandoned,  \* shops of the runs the current tick has closed, until they back off
    asked,      \* shops of manual requests between their check and their enqueue
    faults,     \* faults so far
    since,      \* observation: time since a discovery run of the shop was last closed
    lost        \* observation: a fault dropped the back-off owed for that closing

vars == <<run, job, proc, shop, tick, due, abandoned, asked, faults, since, lost>>
history == <<since, lost>>

(* A closed row: nothing reads it again.  The final status its process     *)
(* wrote (succeeded, partial, quarantined, failed) decides only what the   *)
(* process does next, and is kept there as its outcome.                    *)
ClosedRow == [shop |-> CHOOSE s \in Shops : TRUE, kind |-> "discovery",
              status |-> "closed", silence |-> 0]
ShopOf(k) == k[1]
KindOf(k) == k[2]

Capped(n, cap) == IF n > cap THEN cap ELSE n

(* Mutant: least(..., 168) is missing. *)
BackoffUncapped(f) == f + 1

(* least((failures + 1) * 24, 168) hours, in days. *)
Backoff(f) == Capped(f + 1, MaxBackOff)

(* Mutant: the failure is counted, next_discovery_at stays in the past. *)
FailedShopStillDue(s) == [s EXCEPT !.failures = Capped(@ + 1, MaxBackOff)]

(* FailedShop: the UPDATE that every unhealthy end of a discovery shares. *)
FailedShop(s) == [s EXCEPT !.failures = Capped(@ + 1, MaxBackOff),
                           !.wait     = Interval + Backoff(s.failures)]

NoJob    == [state |-> "none", tries |-> 0, stalls |-> 0]
FreshJob == [state |-> "waiting", tries |-> 0, stalls |-> 0]
IdleProc == [pc |-> "idle", key |-> NoKey, run |-> NoRun, outcome |-> "none"]

(* Mutant: a job that is being processed no longer absorbs the request. *)
ScheduledOverActive(j) == IF j.state = "waiting" THEN j ELSE FreshJob

(* schedule() and enqueue(): a live job of the key absorbs the request. *)
Scheduled(j) == IF j.state \in {"waiting", "active"} THEN j ELSE FreshJob

(* A thrown handler: BullMQ retries after a delay until attempts run out. *)
AfterThrow(j) == IF j.tries + 1 < MaxAttempts
                 THEN [j EXCEPT !.state = "waiting", !.tries = @ + 1]
                 ELSE NoJob

(* An expired lock: the job is offered again, maxStalledCount times. *)
AfterStall(j) == IF j.stalls < MaxStalled
                 THEN [j EXCEPT !.state = "waiting", !.stalls = @ + 1]
                 ELSE NoJob

(* Mutant: the partial index leaves discovery rows out. *)
NothingRunning(s) == \E r \in Runs : run[r].status = "running" /\ s \notin Shops

(* crawl_runs_single_discovery_uq, and the NOT EXISTS that mirrors it. *)
DiscoveryRunning(s) ==
    \E r \in Runs : run[r].status = "running" /\ run[r].kind = "discovery" /\ run[r].shop = s

Free(r) == run[r].status # "running" /\ \A w \in Workers : proc[w].run # r

CloseRun(r) == run' = [run EXCEPT ![r] = ClosedRow]

RunRow  == [shop : Shops, kind : Kinds, status : {"running", "closed"},
            silence : 0..(StaleAfter + 1)]
JobRow  == [state : {"none", "waiting", "active"},
            tries : 0..(MaxAttempts - 1), stalls : 0..MaxStalled]
ProcRow == [pc : WorkPhases \cup {"idle", "taken", "closing", "settled"},
            key : Keys \cup {NoKey}, run : Runs \cup {NoRun},
            outcome : {"none", "healthy", "unhealthy", "threw"}]
ShopRow == [failures : 0..MaxBackOff, wait : 0..(Interval + MaxBackOff),
            refreshWait : 0..RefreshInterval]

(* Every variable keeps to its row type: the back-off to its cap, a job to *)
(* its attempts and stalls.                                                *)
TypeOK ==
    /\ run \in [Runs -> RunRow]
    /\ job \in [Keys -> JobRow]
    /\ proc \in [Workers -> ProcRow]
    /\ shop \in [Shops -> ShopRow]
    /\ tick \in {"idle", "reaped", "recovered", "discovery", "refresh"}
    /\ due \subseteq Keys
    /\ abandoned \subseteq Shops
    /\ asked \subseteq Shops
    /\ faults \in 0..MaxFaults
    /\ since \in [Shops -> 0..Interval]
    /\ lost \in [Shops -> BOOLEAN]

(* A fresh deployment: every shop is due, nothing has run yet. *)
Init ==
    /\ run = [r \in Runs |-> ClosedRow]
    /\ job = [k \in Keys |-> NoJob]
    /\ proc = [w \in Workers |-> IdleProc]
    /\ shop = [s \in Shops |-> [failures |-> 0, wait |-> 0, refreshWait |-> 0]]
    /\ tick = "idle"
    /\ due = {}
    /\ abandoned = {}
    /\ asked = {}
    /\ faults = 0
    /\ since = [s \in Shops |-> Interval]
    /\ lost = [s \in Shops |-> FALSE]

-----------------------------------------------------------------------------
(* Time.  A process in a phase outside SlowPhases shows life before its    *)
(* row grows older than StaleAfter: it beats every 30 s, or it is over.    *)

OnTime(w) ==
    LET p == proc[w] IN
    (/\ p.pc \in WorkPhases \ SlowPhases
     /\ run[p.run].status = "running") => run[p.run].silence < StaleAfter

Elapse ==
    /\ \A w \in Workers : OnTime(w)
    /\ run' = [r \in Runs |-> IF run[r].status = "running"
                              THEN [run[r] EXCEPT !.silence = Capped(@ + 1, StaleAfter + 1)]
                              ELSE run[r]]
    /\ shop' = [s \in Shops |->
                  [shop[s] EXCEPT !.wait = IF @ = 0 THEN 0 ELSE @ - 1,
                                  !.refreshWait = IF @ = 0 THEN 0 ELSE @ - 1]]
    /\ since' = [s \in Shops |-> Capped(since[s] + 1, Interval)]
    /\ UNCHANGED <<job, proc, tick, due, abandoned, asked, faults, lost>>

-----------------------------------------------------------------------------
(* The scheduler tick, under the advisory lock radovin:scheduler:tick.     *)

(* Mutant: only discovery runs are recovered. *)
StaleDiscovery(r) == /\ run[r].status = "running"
                     /\ run[r].kind = "discovery"
                     /\ run[r].silence > StaleAfter

Stale(r) == run[r].status = "running" /\ run[r].silence > StaleAfter

(* Step 0, first statement: every run without a sign of life is closed. *)
TickReap ==
    /\ tick = "idle"
    /\ LET dead == {r \in Runs : Stale(r)}
       IN  /\ run' = [r \in Runs |-> IF r \in dead
                                     THEN ClosedRow ELSE run[r]]
           /\ abandoned' = {run[r].shop : r \in dead}
           /\ since' = [s \in Shops |->
                          IF \E r \in dead : run[r].shop = s /\ run[r].kind = "discovery"
                          THEN 0 ELSE since[s]]
           /\ tick' = IF dead = {} THEN "recovered" ELSE "reaped"
    /\ UNCHANGED <<job, proc, shop, due, asked, faults, lost>>

(* Step 0, second statement: their shops back off, whatever the run was. *)
TickBackOff ==
    /\ tick = "reaped"
    /\ shop' = [s \in Shops |-> IF s \in abandoned THEN FailedShop(shop[s]) ELSE shop[s]]
    /\ lost' = [s \in Shops |-> lost[s] /\ s \notin abandoned]
    /\ tick' = "recovered"
    /\ abandoned' = {}
    /\ UNCHANGED <<run, job, proc, due, asked, faults, since>>

(* ... the statement fails; the exception is logged and swallowed. *)
TickBackOffFails ==
    /\ tick = "reaped"
    /\ faults < MaxFaults
    /\ faults' = faults + 1
    /\ lost' = [s \in Shops |-> lost[s] \/ s \in abandoned]
    /\ tick' = "recovered"
    /\ abandoned' = {}
    /\ UNCHANGED <<run, job, proc, shop, due, asked, since>>

DiscoveryKeys(S) == {<<s, "discovery">> : s \in S}
RefreshKeys(S)   == {<<s, "price_refresh">> : s \in S}

(* Mutant: the list does not look at next_discovery_at. *)
DueWhenIdle == {s \in Shops : ~DiscoveryRunning(s)}

DueDiscoveries == {s \in Shops : shop[s].wait = 0 /\ ~DiscoveryRunning(s)}
DueRefreshes   == {s \in Shops : shop[s].refreshWait = 0}

(* What is left of a phase's list; the tick is over with its second list. *)
Remaining(phase, left) ==
    /\ due' = left
    /\ tick' = IF phase = "refresh" /\ left = {} THEN "idle" ELSE phase

(* Step 1: the SELECT of the shops whose discovery is due. *)
TickListDiscoveries ==
    /\ tick = "recovered"
    /\ Remaining("discovery", DiscoveryKeys(DueDiscoveries))
    /\ UNCHANGED <<run, job, proc, shop, abandoned, asked, faults, history>>

(* schedule(), shop by shop: it looks at the job, and no more at the shop. *)
TickSchedule(k) ==
    /\ tick \in {"discovery", "refresh"}
    /\ k \in due
    /\ Remaining(tick, due \ {k})
    /\ job' = [job EXCEPT ![k] = Scheduled(@)]
    /\ UNCHANGED <<run, proc, shop, abandoned, asked, faults, history>>

(* ... Redis refuses; schedule() logs it and the loop goes on. *)
TickScheduleFails(k) ==
    /\ tick \in {"discovery", "refresh"}
    /\ k \in due
    /\ faults < MaxFaults
    /\ faults' = faults + 1
    /\ Remaining(tick, due \ {k})
    /\ UNCHANGED <<run, job, proc, shop, abandoned, asked, history>>

(* Step 2: the SELECT of the shops whose prices are due. *)
TickListRefreshes ==
    /\ tick = "discovery"
    /\ due = {}
    /\ Remaining("refresh", RefreshKeys(DueRefreshes))
    /\ UNCHANGED <<run, job, proc, shop, abandoned, asked, faults, history>>

(* The scheduler dies mid-tick; the session's advisory lock goes with it. *)
TickCrash ==
    /\ tick # "idle"
    /\ faults < MaxFaults
    /\ faults' = faults + 1
    /\ lost' = [s \in Shops |-> lost[s] \/ (tick = "reaped" /\ s \in abandoned)]
    /\ tick' = "idle"
    /\ due' = {}
    /\ abandoned' = {}
    /\ UNCHANGED <<run, job, proc, shop, asked, since>>

-----------------------------------------------------------------------------
(* POST /shops/:id/discovery-runs: the check and the enqueue are apart.    *)

ManualCheck(s) ==
    /\ s \notin asked
    /\ ~DiscoveryRunning(s)
    /\ asked' = asked \cup {s}
    /\ UNCHANGED <<run, job, proc, shop, tick, due, abandoned, faults, history>>

ManualEnqueue(s) ==
    /\ s \in asked
    /\ asked' = asked \ {s}
    /\ job' = [job EXCEPT ![<<s, "discovery">>] = Scheduled(@)]
    /\ UNCHANGED <<run, proc, shop, tick, due, abandoned, faults, history>>

-----------------------------------------------------------------------------
(* BullMQ, as the worker configures it.                                    *)

Take(w, k) ==
    /\ proc[w].pc = "idle"
    /\ job[k].state = "waiting"
    /\ job' = [job EXCEPT ![k].state = "active"]
    /\ proc' = [proc EXCEPT ![w] = [pc |-> "taken", key |-> k, run |-> NoRun, outcome |-> "none"]]
    /\ UNCHANGED <<run, shop, tick, due, abandoned, asked, faults, history>>

(* Mutant: stalled jobs are never looked for. *)
StalledNever(k) == /\ k \notin Keys
                   /\ UNCHANGED vars

(* The lock of a job whose worker died expires. *)
StalledCheck(k) ==
    /\ job[k].state = "active"
    /\ \A w \in Workers : proc[w].key # k
    /\ job' = [job EXCEPT ![k] = AfterStall(@)]
    /\ UNCHANGED <<run, proc, shop, tick, due, abandoned, asked, faults, history>>

(* The handler of slot w throws, or returns. *)
Throw(w) == /\ job' = [job EXCEPT ![proc[w].key] = AfterThrow(@)]
            /\ proc' = [proc EXCEPT ![w] = IdleProc]

Return(w) == /\ job' = [job EXCEPT ![proc[w].key] = NoJob]
             /\ proc' = [proc EXCEPT ![w] = IdleProc]

(* The discovery of s is closed, but slot w has not updated s yet. *)
DiscoveryClosing(w, s) == proc[w].pc = "closing" /\ proc[w].key = <<s, "discovery">>

CrashWorker(w) ==
    /\ proc[w].pc # "idle"
    /\ faults < MaxFaults
    /\ faults' = faults + 1
    /\ proc' = [proc EXCEPT ![w] = IdleProc]
    /\ lost' = [s \in Shops |-> lost[s] \/ DiscoveryClosing(w, s)]
    /\ UNCHANGED <<run, job, shop, tick, due, abandoned, asked, since>>

-----------------------------------------------------------------------------
(* Both processors: the INSERT of a running row.                           *)

OpenRun(w, pc) ==
    \E r \in Runs :
        /\ Free(r)
        /\ run' = [run EXCEPT ![r] = [shop |-> ShopOf(proc[w].key), kind |-> KindOf(proc[w].key),
                                      status |-> "running", silence |-> 0]]
        /\ proc' = [proc EXCEPT ![w].pc = pc, ![w].run = r]

StartDiscovery(w) ==
    /\ proc[w].pc = "taken"
    /\ KindOf(proc[w].key) = "discovery"
    /\ ~DiscoveryRunning(ShopOf(proc[w].key))
    /\ OpenRun(w, "discovering")
    /\ UNCHANGED <<job, shop, tick, due, abandoned, asked, faults, history>>

(* crawl_runs_single_discovery_uq refuses the row; the INSERT is outside   *)
(* the try block, so the job just throws.                                  *)
StartRefused(w) ==
    /\ proc[w].pc = "taken"
    /\ KindOf(proc[w].key) = "discovery"
    /\ DiscoveryRunning(ShopOf(proc[w].key))
    /\ Throw(w)
    /\ UNCHANGED <<run, shop, tick, due, abandoned, asked, faults, history>>

StartRefresh(w) ==
    /\ proc[w].pc = "taken"
    /\ KindOf(proc[w].key) = "price_refresh"
    /\ OpenRun(w, "refreshing")
    /\ UNCHANGED <<job, shop, tick, due, abandoned, asked, faults, history>>

(* No listing is due: the job returns and next_price_refresh_at stays. *)
NothingDue(w) ==
    /\ proc[w].pc = "taken"
    /\ KindOf(proc[w].key) = "price_refresh"
    /\ Return(w)
    /\ UNCHANGED <<run, shop, tick, due, abandoned, asked, faults, history>>

(* beat(): only the extraction loop beats, and not before its 30th second; *)
(* adapter.discover() before it runs in silence.                           *)
Beat(w) ==
    /\ proc[w].pc \in {"discovering", "beating"}
    /\ run' = [run EXCEPT ![proc[w].run].silence = 0]
    /\ proc' = [proc EXCEPT ![w].pc = "beating"]
    /\ UNCHANGED <<job, shop, tick, due, abandoned, asked, faults, history>>

Closing(w, outcome) ==
    /\ CloseRun(proc[w].run)
    /\ proc' = [proc EXCEPT ![w].pc = "closing", ![w].outcome = outcome]

(* The final UPDATE of crawl_runs: WHERE id = $1, whatever the status is. *)
FinishDiscovery(w) ==
    /\ proc[w].pc \in {"discovering", "beating"}
    /\ \E outcome \in {"healthy", "unhealthy"} : Closing(w, outcome)
    /\ since' = [since EXCEPT ![ShopOf(proc[w].key)] = 0]
    /\ UNCHANGED <<job, shop, tick, due, abandoned, asked, faults, lost>>

(* The catch block, first statement; an exception of the closing UPDATE of *)
(* the shop, of the alert or of an enqueue after it lands here as well.    *)
FailDiscovery(w) ==
    /\ \/ proc[w].pc \in {"discovering", "beating"}
       \/ /\ proc[w].pc \in {"closing", "settled"}
          /\ KindOf(proc[w].key) = "discovery"
          /\ proc[w].outcome # "threw"
    /\ Closing(w, "threw")
    /\ since' = [since EXCEPT ![ShopOf(proc[w].key)] = 0]
    /\ UNCHANGED <<job, shop, tick, due, abandoned, asked, faults, lost>>

(* The UPDATE of shops at the end of the success path and of the catch. *)
SettleDiscovery(w) ==
    LET s == ShopOf(proc[w].key) IN
    /\ proc[w].pc = "closing"
    /\ KindOf(proc[w].key) = "discovery"
    /\ shop' = [shop EXCEPT ![s] = IF proc[w].outcome = "healthy"
                                   THEN [@ EXCEPT !.failures = 0, !.wait = Interval]
                                   ELSE FailedShop(@)]
    /\ lost' = [lost EXCEPT ![s] = FALSE]
    /\ proc' = [proc EXCEPT ![w].pc = "settled"]
    /\ UNCHANGED <<run, job, tick, due, abandoned, asked, faults, since>>

FinishRefresh(w) ==
    /\ proc[w].pc = "refreshing"
    /\ Closing(w, "healthy")
    /\ UNCHANGED <<job, shop, tick, due, abandoned, asked, faults, history>>

SettleRefresh(w) ==
    /\ proc[w].pc = "closing"
    /\ KindOf(proc[w].key) = "price_refresh"
    /\ shop' = [shop EXCEPT ![ShopOf(proc[w].key)].refreshWait = RefreshInterval]
    /\ proc' = [proc EXCEPT ![w].pc = "settled"]
    /\ UNCHANGED <<run, job, tick, due, abandoned, asked, faults, history>>

(* An exception no catch block handles: anywhere in the refresh processor, *)
(* in discovery before the try, or of a statement of the catch itself.     *)
EscapingThrow(w) ==
    /\ proc[w].pc # "idle"
    /\ faults < MaxFaults
    /\ faults' = faults + 1
    /\ Throw(w)
    /\ lost' = [s \in Shops |-> lost[s] \/ DiscoveryClosing(w, s)]
    /\ UNCHANGED <<run, shop, tick, due, abandoned, asked, since>>

(* The job settles in BullMQ: rethrown from the catch, or completed. *)
JobEnds(w) ==
    /\ proc[w].pc = "settled"
    /\ IF proc[w].outcome = "threw" THEN Throw(w) ELSE Return(w)
    /\ UNCHANGED <<run, shop, tick, due, abandoned, asked, faults, history>>

-----------------------------------------------------------------------------
Tick == \/ TickReap \/ TickBackOff \/ TickBackOffFails
        \/ TickListDiscoveries \/ TickListRefreshes \/ TickCrash
        \/ \E k \in Keys : TickSchedule(k) \/ TickScheduleFails(k)

Handler(w) ==
    \/ StartDiscovery(w) \/ StartRefused(w) \/ StartRefresh(w) \/ NothingDue(w)
    \/ Beat(w) \/ FinishDiscovery(w) \/ FailDiscovery(w)
    \/ SettleDiscovery(w) \/ FinishRefresh(w) \/ SettleRefresh(w) \/ EscapingThrow(w)
    \/ JobEnds(w)

Next ==
    \/ Elapse
    \/ Tick
    \/ \E s \in Shops : ManualCheck(s) \/ ManualEnqueue(s)
    \/ \E k \in Keys : StalledCheck(k)
    \/ \E w \in Workers : CrashWorker(w) \/ Handler(w)
    \/ \E w \in Workers, k \in Keys : Take(w, k)

Spec == Init /\ [][Next]_vars

(* The timer loop of the scheduler re-arms itself, BullMQ keeps offering   *)
(* and recovering jobs, and a handler that is not killed gets to its end:  *)
(* the extraction loop is cut by maxRunDurationMs.                         *)
Fairness ==
    /\ WF_vars(Elapse)
    /\ WF_vars(TickReap) /\ WF_vars(TickBackOff) /\ WF_vars(TickListDiscoveries)
    /\ WF_vars(TickListRefreshes)
    /\ \A k \in Keys : WF_vars(TickSchedule(k))
    /\ \A k \in Keys : WF_vars(StalledCheck(k))
    /\ \A k \in Keys : SF_vars(\E w \in Workers : Take(w, k))
    /\ \A w \in Workers :
         /\ WF_vars(StartDiscovery(w) \/ StartRefused(w) \/ StartRefresh(w) \/ NothingDue(w))
         /\ WF_vars(Beat(w))
         /\ WF_vars(FinishDiscovery(w)) /\ WF_vars(FinishRefresh(w))
         /\ WF_vars(SettleDiscovery(w)) /\ WF_vars(SettleRefresh(w)) /\ WF_vars(JobEnds(w))

FairSpec == Spec /\ Fairness

-----------------------------------------------------------------------------
(* At most one running discovery row per shop (0005: "Egy shopon egyszerre *)
(* csak egy futo teljes discovery").                                       *)
OneRunningDiscovery ==
    \A r1, r2 \in Runs :
        (/\ run[r1].status = "running" /\ run[r1].kind = "discovery"
         /\ run[r2].status = "running" /\ run[r2].kind = "discovery"
         /\ run[r1].shop = run[r2].shop) => r1 = r2

(* Two worker slots never process the same (shop, kind) at once, although  *)
(* the scheduler, the API, BullMQ's retries and its stalled-job recovery   *)
(* all put the job back: the idempotency key and the job state hold it.    *)
OneProcessPerJob ==
    \A w1, w2 \in Workers :
        (proc[w1].key # NoKey /\ proc[w1].key = proc[w2].key) => w1 = w2

(* One at a time, in the database and in the queue: of a shop at most one  *)
(* discovery row is running, and no job is worked on by two slots.         *)
OneAtATime == OneRunningDiscovery /\ OneProcessPerJob

(* The interval since the last closed discovery of s is over, or a fault   *)
(* dropped the back-off.                                                   *)
IntervalOver(s) == since[s] = Interval \/ lost[s]

(* The closing process of a discovery of s has not updated the shop yet. *)
Settling(s) == \E w \in Workers : DiscoveryClosing(w, s)

Listed(s) == tick = "recovered" /\ tick' = "discovery" /\ <<s, "discovery">> \in due'

Dispatched(s) == /\ <<s, "discovery">> \in due \ due'
                 /\ job[<<s, "discovery">>].state = "none"
                 /\ job'[<<s, "discovery">>].state = "waiting"

(* The back-off holds from the moment it is written (discovery.ts: without *)
(* it a failing shop was sent again every minute).  A tick lists no shop   *)
(* inside its interval, except one whose run is closed and whose row is    *)
(* about to be written; and what a tick sends inside the interval was so   *)
(* overtaken: by then the back-off stands, and no later tick lists it.     *)
BackOffRespected ==
    [][\A s \in Shops :
         /\ Listed(s) => IntervalOver(s) \/ Settling(s)
         /\ Dispatched(s) => IntervalOver(s) \/ shop[s].wait > 0]_vars

(* A row is not running forever, whatever happened to its process          *)
(* (0014: a dead process left its row running and blocked the shop).       *)
EveryRunCloses ==
    \A r \in Runs : run[r].status = "running" ~> run[r].status # "running"

(* Every shop is discovered again and again (scheduler: jobs follow the    *)
(* configured intervals, and no worker restart loses one).                 *)
DiscoveryRecurs ==
    \A s \in Shops :
        []<>(\E w \in Workers : proc[w].key = <<s, "discovery">> /\ proc[w].pc = "discovering")

(* 0014: the heartbeat tells a live run from a dead one, so a run with a   *)
(* live process is never closed as abandoned.                              *)
LiveRunNotReaped ==
    \A w \in Workers :
        proc[w].pc \in WorkPhases => run[proc[w].run].status = "running"

=============================================================================
