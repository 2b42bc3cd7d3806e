--------------------------- MODULE CrawlRunsProofs ---------------------------
(***************************************************************************)
(* What CrawlRuns guarantees for every number of shops, worker slots and   *)
(* rows, and for every bound: its types, at most one running discovery row *)
(* of a shop, at most one process of a job, and the back-off.              *)
(***************************************************************************)
EXTENDS CrawlRuns, TLAPS

(* A busy slot holds the lock of its job: the job is "active". *)
BusyHoldsJob ==
    \A w \in Workers :
        proc[w].pc # "idle" => proc[w].key \in Keys /\ job[proc[w].key].state = "active"

IdleHasNoKey == \A w \in Workers : proc[w].pc = "idle" => proc[w].key = NoKey

(* The time since the last closed discovery and the time to the next one   *)
(* make up an interval, unless somebody still owes the shop its back-off   *)
(* or a fault dropped it.                                                  *)
BackOffOwed ==
    \A s \in Shops :
        \/ since[s] + shop[s].wait >= Interval
        \/ lost[s]
        \/ Settling(s)
        \/ tick = "reaped" /\ s \in abandoned

(* Only the processor of a discovery discovers. *)
DiscoveryPhases ==
    \A w \in Workers :
        proc[w].pc \in {"discovering", "beating"} => KindOf(proc[w].key) = "discovery"

JobInv == TypeOK /\ BusyHoldsJob /\ IdleHasNoKey /\ OneProcessPerJob

-----------------------------------------------------------------------------
LEMMA BackoffBound ==
    ASSUME NEW f \in Nat
    PROVE  Backoff(f) \in 0..MaxBackOff
BY CrawlAssumption DEF Backoff, Capped

LEMMA FailedShopType ==
    ASSUME NEW r \in ShopRow
    PROVE  FailedShop(r) \in ShopRow /\ FailedShop(r).wait >= Interval
<1>1. r.failures \in 0..MaxBackOff
  BY DEF ShopRow
<1>2. Backoff(r.failures) \in 0..MaxBackOff
  BY <1>1, BackoffBound
<1>3. Capped(r.failures + 1, MaxBackOff) \in 0..MaxBackOff
  BY <1>1, CrawlAssumption DEF Capped
<1>4. /\ Interval + Backoff(r.failures) \in 0..(Interval + MaxBackOff)
      /\ Interval + Backoff(r.failures) >= Interval
  BY <1>2, CrawlAssumption
<1> QED
  BY <1>3, <1>4 DEF FailedShop, ShopRow

LEMMA ClosedRowType == ClosedRow \in RunRow
BY CrawlAssumption DEF ClosedRow, RunRow, Kinds

LEMMA JobRows ==
    /\ NoJob \in JobRow /\ FreshJob \in JobRow
    /\ \A j \in JobRow : /\ AfterThrow(j) \in JobRow /\ AfterStall(j) \in JobRow
                        /\ Scheduled(j) \in JobRow
<1>1. NoJob \in JobRow /\ FreshJob \in JobRow
  BY CrawlAssumption DEF NoJob, FreshJob, JobRow
<1>2. ASSUME NEW j \in JobRow PROVE AfterThrow(j) \in JobRow
  <2>1. j.tries + 1 < MaxAttempts => j.tries + 1 \in 0..(MaxAttempts - 1)
    BY CrawlAssumption DEF JobRow
  <2> QED BY <1>1, <2>1 DEF AfterThrow, JobRow
<1>3. ASSUME NEW j \in JobRow PROVE Scheduled(j) \in JobRow
  BY <1>1 DEF Scheduled
<1>4. ASSUME NEW j \in JobRow PROVE AfterStall(j) \in JobRow
  <2>1. j.stalls < MaxStalled => j.stalls + 1 \in 0..MaxStalled
    BY CrawlAssumption DEF JobRow
  <2> QED BY <1>1, <2>1 DEF AfterStall, JobRow
<1> QED BY <1>1, <1>2, <1>3, <1>4

LEMMA ZeroTimes == 0 \in 0..Interval /\ 0 \in 0..RefreshInterval /\ 0 \in 0..(StaleAfter + 1)
BY CrawlAssumption

LEMMA RunRows ==
    ASSUME NEW r \in RunRow
    PROVE  /\ [r EXCEPT !.silence = 0] \in RunRow
           /\ [r EXCEPT !.silence = Capped(@ + 1, StaleAfter + 1)] \in RunRow
<1>1. Capped(r.silence + 1, StaleAfter + 1) \in 0..(StaleAfter + 1)
  BY CrawlAssumption DEF RunRow, Capped
<1> QED BY <1>1, ZeroTimes DEF RunRow

LEMMA ShopRows ==
    ASSUME NEW r \in ShopRow
    PROVE  /\ [r EXCEPT !.failures = 0, !.wait = Interval] \in ShopRow
           /\ [r EXCEPT !.refreshWait = RefreshInterval] \in ShopRow
           /\ [r EXCEPT !.wait = IF @ = 0 THEN 0 ELSE @ - 1,
                        !.refreshWait = IF @ = 0 THEN 0 ELSE @ - 1] \in ShopRow
<1>1. /\ 0 \in 0..MaxBackOff /\ Interval \in 0..(Interval + MaxBackOff)
      /\ RefreshInterval \in 0..RefreshInterval
  BY CrawlAssumption
<1>2. /\ (IF r.wait = 0 THEN 0 ELSE r.wait - 1) \in 0..(Interval + MaxBackOff)
      /\ (IF r.refreshWait = 0 THEN 0 ELSE r.refreshWait - 1) \in 0..RefreshInterval
  BY CrawlAssumption DEF ShopRow
<1> QED BY <1>1, <1>2 DEF ShopRow

LEMMA IdleProcType == IdleProc \in ProcRow
BY DEF IdleProc, ProcRow

LEMMA KeyParts ==
    ASSUME NEW k \in Keys
    PROVE  ShopOf(k) \in Shops /\ KindOf(k) \in Kinds /\ k = <<ShopOf(k), KindOf(k)>>
BY DEF Keys, ShopOf, KindOf

-----------------------------------------------------------------------------
LEMMA InitJobInv == Init => JobInv
<1> SUFFICES ASSUME Init PROVE JobInv
  OBVIOUS
<1>1. [failures |-> 0, wait |-> 0, refreshWait |-> 0] \in ShopRow
  BY CrawlAssumption DEF ShopRow
<1>2. TypeOK
  BY <1>1, ClosedRowType, JobRows, IdleProcType, CrawlAssumption DEF Init, TypeOK
<1>3. BusyHoldsJob /\ IdleHasNoKey /\ OneProcessPerJob
  BY DEF Init, BusyHoldsJob, IdleHasNoKey, OneProcessPerJob, IdleProc
<1> QED BY <1>2, <1>3 DEF JobInv

(* A handler that ends gives its job back and touches no other. *)
LEMMA ReleaseJob ==
    ASSUME JobInv, NEW w \in Workers, proc[w].pc # "idle",
           Throw(w) \/ Return(w)
    PROVE  /\ job' \in [Keys -> JobRow] /\ proc' \in [Workers -> ProcRow]
           /\ BusyHoldsJob' /\ IdleHasNoKey' /\ OneProcessPerJob'
<1> USE DEF JobInv
<1> DEFINE k == proc[w].key
<1>1. k \in Keys /\ job[k] \in JobRow
  BY DEF BusyHoldsJob, TypeOK
<1>2. proc' = [proc EXCEPT ![w] = IdleProc]
  BY DEF Throw, Return
<1>3. proc' \in [Workers -> ProcRow]
  BY <1>2, IdleProcType DEF TypeOK
<1>4. job' \in [Keys -> JobRow]
  BY <1>1, JobRows DEF Throw, Return, TypeOK
<1>5. \A q \in Keys : q # k => job'[q] = job[q]
  BY DEF Throw, Return, TypeOK
<1>6. \A v \in Workers : v # w /\ proc[v].pc # "idle" => proc[v].key # k
  BY <1>1, CrawlAssumption DEF OneProcessPerJob, BusyHoldsJob
<1>7. proc'[w] = IdleProc /\ \A v \in Workers : v # w => proc'[v] = proc[v]
  BY <1>2 DEF TypeOK
<1>8. BusyHoldsJob'
  BY <1>5, <1>6, <1>7 DEF BusyHoldsJob, IdleProc
<1>9. IdleHasNoKey' /\ OneProcessPerJob'
  BY <1>7 DEF IdleHasNoKey, OneProcessPerJob, IdleProc
<1> QED BY <1>3, <1>4, <1>8, <1>9

(* Steps that move slot w on without taking a job or giving it back. *)
LEMMA SamePlace ==
    ASSUME JobInv, NEW w \in Workers, proc[w].pc # "idle",
           NEW p, p \in ProcRow, p.pc # "idle", p.key = proc[w].key,
           proc' = [proc EXCEPT ![w] = p], UNCHANGED job
    PROVE  /\ proc' \in [Workers -> ProcRow]
           /\ BusyHoldsJob' /\ IdleHasNoKey' /\ OneProcessPerJob'
<1>1. proc' \in [Workers -> ProcRow]
  BY DEF JobInv, TypeOK
<1>2. proc'[w] = p /\ \A v \in Workers : v # w => proc'[v] = proc[v]
  BY DEF JobInv, TypeOK
<1>3. BusyHoldsJob' /\ IdleHasNoKey'
  BY <1>2 DEF JobInv, BusyHoldsJob, IdleHasNoKey
<1>4. OneProcessPerJob'
  BY <1>2 DEF JobInv, OneProcessPerJob
<1> QED BY <1>1, <1>3, <1>4

(* Steps of the scheduler, the API and time: no slot changes hands. *)
LEMMA NoSlotMoves ==
    ASSUME JobInv, UNCHANGED proc,
           \A k \in Keys : job[k].state = "active" => job'[k].state = "active"
    PROVE  BusyHoldsJob' /\ IdleHasNoKey' /\ OneProcessPerJob'
BY DEF JobInv, BusyHoldsJob, IdleHasNoKey, OneProcessPerJob

LEMMA OpenRunType ==
    ASSUME JobInv, NEW w \in Workers, proc[w].pc # "idle", NEW pc \in WorkPhases,
           OpenRun(w, pc), UNCHANGED job
    PROVE  /\ run' \in [Runs -> RunRow]
           /\ proc' \in [Workers -> ProcRow]
           /\ BusyHoldsJob' /\ IdleHasNoKey' /\ OneProcessPerJob'
<1>1. PICK r \in Runs :
        /\ run' = [run EXCEPT ![r] = [shop |-> ShopOf(proc[w].key), kind |-> KindOf(proc[w].key),
                                      status |-> "running", silence |-> 0]]
        /\ proc' = [proc EXCEPT ![w].pc = pc, ![w].run = r]
  BY DEF OpenRun
<1>2. proc[w].key \in Keys /\ proc[w] \in ProcRow
  BY DEF JobInv, BusyHoldsJob, TypeOK
<1>3. [shop |-> ShopOf(proc[w].key), kind |-> KindOf(proc[w].key),
       status |-> "running", silence |-> 0] \in RunRow
  BY <1>2, KeyParts, CrawlAssumption DEF RunRow
<1>4. run' \in [Runs -> RunRow]
  BY <1>1, <1>3 DEF JobInv, TypeOK
<1> DEFINE p == [proc[w] EXCEPT !.pc = pc, !.run = r]
<1>5. p \in ProcRow /\ p.pc # "idle" /\ p.key = proc[w].key
  BY <1>2 DEF ProcRow, WorkPhases
<1>6. proc' = [proc EXCEPT ![w] = p]
  BY <1>1 DEF JobInv, TypeOK
<1> HIDE DEF p
<1> QED BY <1>4, <1>5, <1>6, SamePlace

LEMMA ClosingType ==
    ASSUME JobInv, NEW w \in Workers, proc[w].pc # "idle",
           NEW outcome \in {"healthy", "unhealthy", "threw"},
           Closing(w, outcome), UNCHANGED job
    PROVE  /\ run' \in [Runs -> RunRow]
           /\ proc' \in [Workers -> ProcRow]
           /\ BusyHoldsJob' /\ IdleHasNoKey' /\ OneProcessPerJob'
<1>1. run' \in [Runs -> RunRow]
  BY ClosedRowType DEF JobInv, TypeOK, Closing, CloseRun
<1> DEFINE p == [proc[w] EXCEPT !.pc = "closing", !.outcome = outcome]
<1>2. p \in ProcRow /\ p.pc # "idle" /\ p.key = proc[w].key
  BY DEF JobInv, TypeOK, ProcRow
<1>3. proc' = [proc EXCEPT ![w] = p]
  BY DEF JobInv, TypeOK, Closing
<1> HIDE DEF p
<1> QED BY <1>1, <1>2, <1>3, SamePlace

LEMMA PhaseType ==
    ASSUME JobInv, NEW w \in Workers, proc[w].pc # "idle",
           NEW pc \in WorkPhases \cup {"settled"},
           proc' = [proc EXCEPT ![w].pc = pc], UNCHANGED job
    PROVE  /\ proc' \in [Workers -> ProcRow]
           /\ BusyHoldsJob' /\ IdleHasNoKey' /\ OneProcessPerJob'
<1> DEFINE p == [proc[w] EXCEPT !.pc = pc]
<1>1. p \in ProcRow /\ p.pc # "idle" /\ p.key = proc[w].key
  BY DEF JobInv, TypeOK, ProcRow, WorkPhases
<1>2. proc' = [proc EXCEPT ![w] = p]
  BY DEF JobInv, TypeOK
<1> HIDE DEF p
<1> QED BY <1>1, <1>2, SamePlace

-----------------------------------------------------------------------------
LEMMA TickJobInv == JobInv /\ Tick => JobInv'
<1> SUFFICES ASSUME JobInv, Tick PROVE JobInv'
  OBVIOUS
<1> USE DEF JobInv
<1>1. CASE TickReap
  <2>1. run' \in [Runs -> RunRow]
    BY <1>1, ClosedRowType DEF TickReap, TypeOK
  <2>2. abandoned' \subseteq Shops
    BY <1>1 DEF TickReap, TypeOK, RunRow
  <2>3. since' \in [Shops -> 0..Interval]
    BY <1>1, CrawlAssumption DEF TickReap, TypeOK
  <2>4. BusyHoldsJob' /\ IdleHasNoKey' /\ OneProcessPerJob'
    BY <1>1, NoSlotMoves DEF TickReap
  <2> QED BY <1>1, <2>1, <2>2, <2>3, <2>4 DEF TickReap, TypeOK
<1>2. CASE TickBackOff
  <2>1. shop' \in [Shops -> ShopRow]
    BY <1>2, FailedShopType DEF TickBackOff, TypeOK
  <2>2. BusyHoldsJob' /\ IdleHasNoKey' /\ OneProcessPerJob'
    BY <1>2, NoSlotMoves DEF TickBackOff
  <2> QED BY <1>2, <2>1, <2>2 DEF TickBackOff, TypeOK
<1>3. CASE TickBackOffFails
  <2>1. faults' \in 0..MaxFaults
    BY <1>3, CrawlAssumption DEF TickBackOffFails, TypeOK
  <2>2. BusyHoldsJob' /\ IdleHasNoKey' /\ OneProcessPerJob'
    BY <1>3, NoSlotMoves DEF TickBackOffFails
  <2> QED BY <1>3, <2>1, <2>2 DEF TickBackOffFails, TypeOK
<1>4. ASSUME NEW k \in Keys, TickSchedule(k) PROVE JobInv'
  <2>1. job' \in [Keys -> JobRow]
    BY <1>4, JobRows DEF TickSchedule, TypeOK
  <2>2. \A q \in Keys : job[q].state = "active" => job'[q].state = "active"
    BY <1>4 DEF TickSchedule, Scheduled, TypeOK
  <2>3. BusyHoldsJob' /\ IdleHasNoKey' /\ OneProcessPerJob'
    BY <1>4, <2>2, NoSlotMoves DEF TickSchedule
  <2> QED BY <1>4, <2>1, <2>3 DEF TickSchedule, Remaining, TypeOK, history
<1>6. ASSUME NEW k \in Keys, TickScheduleFails(k) PROVE JobInv'
  <2>1. faults' \in 0..MaxFaults
    BY <1>6, CrawlAssumption DEF TickScheduleFails, TypeOK
  <2>2. BusyHoldsJob' /\ IdleHasNoKey' /\ OneProcessPerJob'
    BY <1>6, NoSlotMoves DEF TickScheduleFails
  <2> QED BY <1>6, <2>1, <2>2 DEF TickScheduleFails, Remaining, TypeOK, history
<1>7. CASE TickListDiscoveries \/ TickListRefreshes
  <2>1. due' \subseteq Keys /\ tick' \in {"idle", "discovery", "refresh"}
    BY <1>7 DEF TickListDiscoveries, TickListRefreshes, Remaining, DiscoveryKeys, RefreshKeys,
                DueDiscoveries, DueRefreshes, Keys, Kinds
  <2>2. BusyHoldsJob' /\ IdleHasNoKey' /\ OneProcessPerJob'
    BY <1>7, NoSlotMoves DEF TickListDiscoveries, TickListRefreshes
  <2> QED BY <1>7, <2>1, <2>2 DEF TickListDiscoveries, TickListRefreshes, TypeOK, history
<1>5. CASE TickCrash
  <2>1. faults' \in 0..MaxFaults
    BY <1>5, CrawlAssumption DEF TickCrash, TypeOK
  <2>2. BusyHoldsJob' /\ IdleHasNoKey' /\ OneProcessPerJob'
    BY <1>5, NoSlotMoves DEF TickCrash
  <2> QED BY <1>5, <2>1, <2>2 DEF TickCrash, TypeOK
<1> QED BY <1>1, <1>2, <1>3, <1>4, <1>5, <1>6, <1>7 DEF Tick

LEMMA HandlerJobInv == ASSUME NEW w \in Workers PROVE JobInv /\ Handler(w) => JobInv'
<1> SUFFICES ASSUME JobInv, Handler(w) PROVE JobInv'
  OBVIOUS
<1> USE DEF JobInv, history
<1>1. CASE StartDiscovery(w)
  BY <1>1, OpenRunType DEF StartDiscovery, TypeOK, WorkPhases
<1>2. CASE StartRefused(w)
  BY <1>2, ReleaseJob DEF StartRefused, TypeOK
<1>3. CASE StartRefresh(w)
  BY <1>3, OpenRunType DEF StartRefresh, TypeOK, WorkPhases
<1>4. CASE NothingDue(w)
  BY <1>4, ReleaseJob DEF NothingDue, TypeOK
<1>5. CASE Beat(w)
  <2>1. run' \in [Runs -> RunRow]
    BY <1>5, RunRows DEF Beat, TypeOK
  <2> QED BY <1>5, <2>1, PhaseType DEF Beat, TypeOK, WorkPhases
<1>6. CASE FinishDiscovery(w)
  <2>1. PICK outcome \in {"healthy", "unhealthy"} : Closing(w, outcome)
    BY <1>6 DEF FinishDiscovery
  <2>2. since' \in [Shops -> 0..Interval]
    BY <1>6, ZeroTimes DEF FinishDiscovery, TypeOK
  <2> QED BY <1>6, <2>1, <2>2, ClosingType DEF FinishDiscovery, TypeOK
<1>7. CASE FailDiscovery(w)
  <2>1. since' \in [Shops -> 0..Interval]
    BY <1>7, ZeroTimes DEF FailDiscovery, TypeOK
  <2> QED BY <1>7, <2>1, ClosingType DEF FailDiscovery, TypeOK
<1>8. CASE SettleDiscovery(w)
  <2>1. shop' \in [Shops -> ShopRow]
    <3>1. \A s \in Shops : [shop[s] EXCEPT !.failures = 0, !.wait = Interval] \in ShopRow
      BY ShopRows DEF TypeOK
    <3> QED BY <1>8, <3>1, FailedShopType DEF SettleDiscovery, TypeOK
  <2>2. lost' \in [Shops -> BOOLEAN]
    BY <1>8 DEF SettleDiscovery, TypeOK
  <2> QED BY <1>8, <2>1, <2>2, PhaseType DEF SettleDiscovery, TypeOK
<1>9. CASE FinishRefresh(w)
  BY <1>9, ClosingType DEF FinishRefresh, TypeOK
<1>10. CASE SettleRefresh(w)
  <2>1. shop' \in [Shops -> ShopRow]
    BY <1>10, ShopRows DEF SettleRefresh, TypeOK
  <2> QED BY <1>10, <2>1, PhaseType DEF SettleRefresh, TypeOK
<1>11. CASE EscapingThrow(w)
  <2>1. faults' \in 0..MaxFaults
    BY <1>11, CrawlAssumption DEF EscapingThrow, TypeOK
  <2>2. lost' \in [Shops -> BOOLEAN]
    BY <1>11 DEF EscapingThrow, DiscoveryClosing, TypeOK
  <2> QED BY <1>11, <2>1, <2>2, ReleaseJob DEF EscapingThrow, TypeOK
<1>12. CASE JobEnds(w)
  BY <1>12, ReleaseJob DEF JobEnds, TypeOK
<1> QED BY <1>1, <1>2, <1>3, <1>4, <1>5, <1>6, <1>7, <1>8, <1>9, <1>10, <1>11, <1>12 DEF Handler

LEMMA NextJobInv == JobInv /\ [Next]_vars => JobInv'
<1> SUFFICES ASSUME JobInv, [Next]_vars PROVE JobInv'
  OBVIOUS
<1>1. CASE Elapse
  <2>1. run' \in [Runs -> RunRow]
    BY <1>1, RunRows DEF JobInv, Elapse, TypeOK
  <2>2. shop' \in [Shops -> ShopRow]
    BY <1>1, ShopRows DEF JobInv, Elapse, TypeOK
  <2>3. since' \in [Shops -> 0..Interval]
    <3>1. \A n \in 0..Interval : Capped(n + 1, Interval) \in 0..Interval
      BY CrawlAssumption DEF Capped
    <3> QED BY <1>1, <3>1 DEF JobInv, Elapse, TypeOK
  <2>4. BusyHoldsJob' /\ IdleHasNoKey' /\ OneProcessPerJob'
    BY <1>1, NoSlotMoves DEF Elapse
  <2> QED BY <1>1, <2>1, <2>2, <2>3, <2>4 DEF JobInv, Elapse, TypeOK
<1>2. CASE Tick
  BY <1>2, TickJobInv
<1>3. ASSUME NEW s \in Shops, ManualCheck(s) \/ ManualEnqueue(s) PROVE JobInv'
  <2>1. job' \in [Keys -> JobRow] /\ asked' \subseteq Shops
    BY <1>3, JobRows DEF JobInv, ManualCheck, ManualEnqueue, TypeOK
  <2>2. \A k \in Keys : job[k].state = "active" => job'[k].state = "active"
    BY <1>3 DEF JobInv, ManualCheck, ManualEnqueue, Scheduled, TypeOK
  <2>3. BusyHoldsJob' /\ IdleHasNoKey' /\ OneProcessPerJob'
    BY <1>3, <2>2, NoSlotMoves DEF ManualCheck, ManualEnqueue
  <2> QED BY <1>3, <2>1, <2>3 DEF JobInv, ManualCheck, ManualEnqueue, TypeOK, history
<1>4. ASSUME NEW k \in Keys, StalledCheck(k) PROVE JobInv'
  <2>1. job' \in [Keys -> JobRow]
    BY <1>4, JobRows DEF JobInv, StalledCheck, TypeOK
  <2>2. BusyHoldsJob' /\ IdleHasNoKey' /\ OneProcessPerJob'
    BY <1>4 DEF JobInv, StalledCheck, BusyHoldsJob, IdleHasNoKey, OneProcessPerJob, TypeOK
  <2> QED BY <1>4, <2>1, <2>2 DEF JobInv, StalledCheck, TypeOK, history
<1>5. ASSUME NEW w \in Workers, CrashWorker(w) PROVE JobInv'
  <2>1. proc' \in [Workers -> ProcRow]
    BY <1>5, IdleProcType DEF JobInv, CrashWorker, TypeOK
  <2>2. lost' \in [Shops -> BOOLEAN] /\ faults' \in 0..MaxFaults
    BY <1>5, CrawlAssumption DEF JobInv, CrashWorker, TypeOK
  <2>3. proc'[w] = IdleProc /\ \A v \in Workers : v # w => proc'[v] = proc[v]
    BY <1>5 DEF JobInv, CrashWorker, TypeOK
  <2>4. BusyHoldsJob' /\ IdleHasNoKey' /\ OneProcessPerJob'
    BY <1>5, <2>3 DEF JobInv, CrashWorker, BusyHoldsJob, IdleHasNoKey, OneProcessPerJob, IdleProc
  <2> QED BY <1>5, <2>1, <2>2, <2>4 DEF JobInv, CrashWorker, TypeOK
<1>6. ASSUME NEW w \in Workers, Handler(w) PROVE JobInv'
  BY <1>6, HandlerJobInv
<1>7. ASSUME NEW w \in Workers, NEW k \in Keys, Take(w, k) PROVE JobInv'
  <2>1. job' \in [Keys -> JobRow]
    BY <1>7 DEF JobInv, Take, TypeOK, JobRow
  <2>2. proc' = [proc EXCEPT ![w] = [pc |-> "taken", key |-> k, run |-> NoRun, outcome |-> "none"]]
    BY <1>7 DEF Take
  <2>3. proc' \in [Workers -> ProcRow]
    BY <2>2 DEF JobInv, TypeOK, ProcRow
  <2>4. \A v \in Workers : proc[v].key # k
    BY <1>7, CrawlAssumption DEF JobInv, Take, BusyHoldsJob, IdleHasNoKey
  <2>5. /\ proc'[w] = [pc |-> "taken", key |-> k, run |-> NoRun, outcome |-> "none"]
        /\ \A v \in Workers : v # w => proc'[v] = proc[v]
    BY <2>2 DEF JobInv, TypeOK
  <2>6. job'[k].state = "active" /\ \A q \in Keys : q # k => job'[q] = job[q]
    BY <1>7 DEF JobInv, Take, TypeOK, JobRow
  <2>7. BusyHoldsJob' /\ IdleHasNoKey' /\ OneProcessPerJob'
    BY <2>4, <2>5, <2>6 DEF JobInv, BusyHoldsJob, IdleHasNoKey, OneProcessPerJob
  <2> QED BY <1>7, <2>1, <2>3, <2>7 DEF JobInv, Take, TypeOK, history
<1>8. CASE UNCHANGED vars
  BY <1>8 DEF JobInv, vars, TypeOK, BusyHoldsJob, IdleHasNoKey, OneProcessPerJob
<1> QED BY <1>1, <1>2, <1>3, <1>4, <1>5, <1>6, <1>7, <1>8 DEF Next

(* Every value has its type, whatever crashes and whoever is late. *)
THEOREM TypeCorrect == Spec => []TypeOK
<1> QED BY InitJobInv, NextJobInv, PTL DEF Spec, JobInv

(* Two worker slots never process the same (shop, kind) job: the           *)
(* idempotency key of schedule() and enqueue() and BullMQ's lock hold it.  *)
THEOREM SingleProcess == Spec => []OneProcessPerJob
<1> QED BY InitJobInv, NextJobInv, PTL DEF Spec, JobInv

-----------------------------------------------------------------------------
(* At most one running discovery row: only StartDiscovery adds one. *)
LEMMA NoNewDiscovery ==
    ASSUME OneRunningDiscovery,
           \A r \in Runs :
               run'[r].status = "running" /\ run'[r].kind = "discovery"
               => /\ run[r].status = "running" /\ run[r].kind = "discovery"
                  /\ run'[r].shop = run[r].shop
    PROVE  OneRunningDiscovery'
BY DEF OneRunningDiscovery

LEMMA NextOneRunning ==
    JobInv /\ OneRunningDiscovery /\ [Next]_vars => OneRunningDiscovery'
<1> SUFFICES ASSUME JobInv, OneRunningDiscovery, [Next]_vars
             PROVE  OneRunningDiscovery'
  OBVIOUS
<1>1. CASE UNCHANGED run
  BY <1>1 DEF OneRunningDiscovery
<1>2. CASE Elapse
  BY <1>2, NoNewDiscovery DEF Elapse, JobInv, TypeOK, RunRow
<1>3. CASE TickReap
  BY <1>3, NoNewDiscovery DEF TickReap, JobInv, TypeOK, ClosedRow
<1>4. ASSUME NEW w \in Workers, StartDiscovery(w) PROVE OneRunningDiscovery'
  <2>1. PICK n \in Runs :
          run' = [run EXCEPT ![n] = [shop |-> ShopOf(proc[w].key), kind |-> KindOf(proc[w].key),
                                     status |-> "running", silence |-> 0]]
    BY <1>4 DEF StartDiscovery, OpenRun
  <2>2. \A r \in Runs : run[r].status = "running" /\ run[r].kind = "discovery"
                         => run[r].shop # ShopOf(proc[w].key)
    BY <1>4 DEF StartDiscovery, DiscoveryRunning
  <2> QED BY <2>1, <2>2 DEF OneRunningDiscovery, JobInv, TypeOK
<1>5. ASSUME NEW w \in Workers, StartRefresh(w) PROVE OneRunningDiscovery'
  <2>1. PICK n \in Runs :
          run' = [run EXCEPT ![n] = [shop |-> ShopOf(proc[w].key), kind |-> KindOf(proc[w].key),
                                     status |-> "running", silence |-> 0]]
    BY <1>5 DEF StartRefresh, OpenRun
  <2> QED BY <1>5, <2>1, NoNewDiscovery DEF StartRefresh, JobInv, TypeOK
<1>6. ASSUME NEW w \in Workers, Beat(w) PROVE OneRunningDiscovery'
  BY <1>6, NoNewDiscovery DEF Beat, JobInv, TypeOK, RunRow
<1>7. ASSUME NEW w \in Workers, FinishDiscovery(w) \/ FailDiscovery(w) \/ FinishRefresh(w)
      PROVE  OneRunningDiscovery'
  <2>1. run' = [run EXCEPT ![proc[w].run] = ClosedRow]
    BY <1>7 DEF FinishDiscovery, FailDiscovery, FinishRefresh, Closing, CloseRun
  <2> QED BY <2>1, NoNewDiscovery DEF JobInv, TypeOK, ClosedRow
<1> QED
  BY <1>1, <1>2, <1>3, <1>4, <1>5, <1>6, <1>7
  DEF Next, vars, Tick, Handler, TickBackOff, TickBackOffFails, TickListDiscoveries,
      TickListRefreshes, TickSchedule, TickScheduleFails, TickCrash, ManualCheck, ManualEnqueue, StalledCheck, CrashWorker, Take, StartRefused, NothingDue,
      SettleDiscovery, SettleRefresh, EscapingThrow, JobEnds

(* crawl_runs_single_discovery_uq together with every way a row is closed: *)
(* a shop never has two running discovery rows (0005).                     *)
THEOREM SingleDiscovery == Spec => []OneRunningDiscovery
<1>1. Init => OneRunningDiscovery
  BY DEF Init, OneRunningDiscovery, ClosedRow
<1> QED BY <1>1, InitJobInv, NextJobInv, NextOneRunning, PTL DEF Spec

(* One at a time, in the database and in the queue.                        *)
THEOREM OneAtATimeAlways == Spec => []OneAtATime
<1>1. OneRunningDiscovery /\ OneProcessPerJob => OneAtATime
  BY DEF OneAtATime
<1> QED BY <1>1, SingleDiscovery, SingleProcess, PTL

-----------------------------------------------------------------------------
(* The back-off.                                                           *)

LEMMA InitBackOff == Init => BackOffOwed
BY CrawlAssumption DEF Init, BackOffOwed

(* Steps that neither close a run, nor touch a shop, nor end a closing. *)
LEMMA BackOffKept ==
    ASSUME BackOffOwed, UNCHANGED <<shop, since, lost>>,
           \A s \in Shops : Settling(s) => Settling(s)',
           tick = "reaped" => tick' = "reaped" /\ abandoned' = abandoned
    PROVE  BackOffOwed'
BY DEF BackOffOwed

(* Slot w moves on, and was not closing a discovery. *)
LEMMA OthersSettle ==
    ASSUME JobInv, NEW w \in Workers,
           proc[w].pc = "closing" => KindOf(proc[w].key) # "discovery",
           \A v \in Workers : v # w => proc'[v] = proc[v]
    PROVE  \A s \in Shops : Settling(s) => Settling(s)'
BY DEF Settling, DiscoveryClosing, KindOf

LEMMA TickBackOffInv == JobInv /\ BackOffOwed /\ Tick => BackOffOwed'
<1> SUFFICES ASSUME JobInv, BackOffOwed, Tick PROVE BackOffOwed'
  OBVIOUS
<1>1. CASE TickReap
  <2> SUFFICES ASSUME NEW s \in Shops
               PROVE  \/ since'[s] + shop'[s].wait >= Interval
                      \/ lost'[s]
                      \/ Settling(s)'
                      \/ tick' = "reaped" /\ s \in abandoned'
    BY DEF BackOffOwed
  <2>1. s \in abandoned' \/ since'[s] = since[s]
    BY <1>1 DEF TickReap
  <2> QED BY <1>1, <2>1 DEF TickReap, BackOffOwed, Settling, DiscoveryClosing
<1>2. CASE TickBackOff
  <2> SUFFICES ASSUME NEW s \in Shops
               PROVE  \/ since'[s] + shop'[s].wait >= Interval
                      \/ lost'[s]
                      \/ Settling(s)'
    BY DEF BackOffOwed
  <2>1. CASE s \in abandoned
    <3>1. shop'[s] = FailedShop(shop[s]) /\ shop[s] \in ShopRow
      BY <1>2, <2>1 DEF TickBackOff, JobInv, TypeOK
    <3>2. shop'[s].wait >= Interval /\ shop'[s].wait \in Nat
      BY <3>1, FailedShopType, CrawlAssumption DEF ShopRow
    <3>3. since'[s] \in Nat
      BY <1>2, CrawlAssumption DEF TickBackOff, JobInv, TypeOK
    <3> QED BY <3>2, <3>3, CrawlAssumption
  <2>2. CASE s \notin abandoned
    BY <1>2, <2>2 DEF TickBackOff, BackOffOwed, Settling, DiscoveryClosing, JobInv, TypeOK
  <2> QED BY <2>1, <2>2
<1>3. CASE TickBackOffFails \/ TickCrash
  BY <1>3 DEF TickBackOffFails, TickCrash, BackOffOwed, Settling, DiscoveryClosing, JobInv, TypeOK
<1>4. CASE \/ TickListDiscoveries \/ TickListRefreshes
           \/ \E k \in Keys : TickSchedule(k) \/ TickScheduleFails(k)
  <2>1. UNCHANGED <<shop, proc, since, lost>> /\ tick # "reaped"
    BY <1>4 DEF TickListDiscoveries, TickListRefreshes, TickSchedule, TickScheduleFails, history
  <2> QED BY <2>1, BackOffKept DEF Settling, DiscoveryClosing
<1> QED BY <1>1, <1>2, <1>3, <1>4 DEF Tick

LEMMA NextPhases == JobInv /\ DiscoveryPhases /\ [Next]_vars => DiscoveryPhases'
<1> SUFFICES ASSUME JobInv, DiscoveryPhases, [Next]_vars PROVE DiscoveryPhases'
  OBVIOUS
<1> USE DEF JobInv, TypeOK
<1>1. CASE UNCHANGED proc
  BY <1>1 DEF DiscoveryPhases
<1>2. ASSUME NEW w \in Workers, StartDiscovery(w) \/ StartRefresh(w)
      PROVE  DiscoveryPhases'
  <2>1. PICK pc \in {"discovering", "refreshing"}, r \in Runs :
          /\ proc' = [proc EXCEPT ![w].pc = pc, ![w].run = r]
          /\ pc = "discovering" => KindOf(proc[w].key) = "discovery"
    BY <1>2 DEF StartDiscovery, StartRefresh, OpenRun
  <2> QED BY <2>1 DEF DiscoveryPhases, ProcRow
<1>3. ASSUME NEW w \in Workers, Beat(w) PROVE DiscoveryPhases'
  BY <1>3 DEF Beat, DiscoveryPhases, ProcRow
<1>4. ASSUME NEW w \in Workers, NEW p, p.pc \notin {"discovering", "beating"},
             proc' = [proc EXCEPT ![w] = p]
      PROVE  DiscoveryPhases'
  BY <1>4 DEF DiscoveryPhases
<1>5. ASSUME NEW w \in Workers,
             \/ FinishDiscovery(w) \/ FailDiscovery(w) \/ FinishRefresh(w)
             \/ SettleDiscovery(w) \/ SettleRefresh(w)
      PROVE  DiscoveryPhases'
  <2>1. /\ \A v \in Workers : v # w => proc'[v] = proc[v]
        /\ proc'[w].pc \in {"closing", "settled"}
    BY <1>5 DEF FinishDiscovery, FailDiscovery, FinishRefresh, Closing, SettleDiscovery,
                SettleRefresh, ProcRow
  <2> QED BY <2>1 DEF DiscoveryPhases
<1>6. ASSUME NEW w \in Workers,
             \/ StartRefused(w) \/ NothingDue(w) \/ EscapingThrow(w) \/ JobEnds(w)
             \/ CrashWorker(w)
      PROVE  DiscoveryPhases'
  <2>1. proc' = [proc EXCEPT ![w] = IdleProc]
    BY <1>6 DEF StartRefused, NothingDue, EscapingThrow, JobEnds, CrashWorker, Throw, Return
  <2> QED BY <2>1, <1>4 DEF IdleProc
<1>7. ASSUME NEW w \in Workers, NEW k \in Keys, Take(w, k) PROVE DiscoveryPhases'
  <2>1. proc' = [proc EXCEPT ![w] = [pc |-> "taken", key |-> k, run |-> NoRun, outcome |-> "none"]]
    BY <1>7 DEF Take
  <2> QED BY <2>1, <1>4
<1> QED
  BY <1>1, <1>2, <1>3, <1>5, <1>6, <1>7
  DEF Next, vars, Elapse, Tick, Handler, TickReap, TickBackOff, TickBackOffFails,
      TickListDiscoveries, TickListRefreshes, TickSchedule, TickScheduleFails, TickCrash, ManualCheck, ManualEnqueue, StalledCheck

(* A discovery row was closed: its process still owes the shop its update. *)
LEMMA ClosingSettles ==
    ASSUME JobInv, BackOffOwed, NEW w \in Workers,
           FinishDiscovery(w) \/ FailDiscovery(w), KindOf(proc[w].key) = "discovery"
    PROVE  BackOffOwed'
<1>1. PICK d \in Shops : proc[w].key = <<d, "discovery">> /\ ShopOf(proc[w].key) = d
  BY KeyParts DEF FinishDiscovery, FailDiscovery, JobInv, BusyHoldsJob
<1>2. /\ proc'[w].pc = "closing" /\ proc'[w].key = proc[w].key
      /\ \A v \in Workers : v # w => proc'[v] = proc[v]
  BY DEF FinishDiscovery, FailDiscovery, Closing, JobInv, TypeOK, ProcRow
<1>3. Settling(d)'
  BY <1>1, <1>2 DEF Settling, DiscoveryClosing
<1>4. \A s \in Shops : s # d => since'[s] = since[s]
  BY <1>1 DEF FinishDiscovery, FailDiscovery, JobInv, TypeOK
<1>5. \A s \in Shops : Settling(s) => Settling(s)'
  BY <1>2 DEF Settling, DiscoveryClosing
<1>6. UNCHANGED <<shop, lost, tick, abandoned>>
  BY DEF FinishDiscovery, FailDiscovery
<1> QED BY <1>3, <1>4, <1>5, <1>6 DEF BackOffOwed

LEMMA HandlerBackOff ==
    ASSUME NEW w \in Workers
    PROVE  JobInv /\ DiscoveryPhases /\ BackOffOwed /\ Handler(w) => BackOffOwed'
<1> SUFFICES ASSUME JobInv, DiscoveryPhases, BackOffOwed, Handler(w) PROVE BackOffOwed'
  OBVIOUS
<1> USE DEF history
<1>1. \A v \in Workers : v # w => proc'[v] = proc[v]
  BY DEF Handler, StartDiscovery, StartRefused, StartRefresh, NothingDue, Beat, FinishDiscovery,
         FailDiscovery, SettleDiscovery, FinishRefresh, SettleRefresh, EscapingThrow, JobEnds,
         OpenRun, Closing, Throw, Return, JobInv, TypeOK
<1>2. CASE \/ StartDiscovery(w) \/ StartRefused(w) \/ StartRefresh(w) \/ NothingDue(w)
           \/ Beat(w) \/ FinishRefresh(w) \/ JobEnds(w)
  <2>1. proc[w].pc # "closing" /\ UNCHANGED <<shop, since, lost, tick, abandoned>>
    BY <1>2 DEF StartDiscovery, StartRefused, StartRefresh, NothingDue, Beat, FinishRefresh,
                JobEnds
  <2> QED BY <1>1, <2>1, OthersSettle, BackOffKept
<1>3. CASE FinishDiscovery(w) \/ FailDiscovery(w)
  <2>1. CASE proc[w].pc \in {"closing", "settled"}
    <3>1. KindOf(proc[w].key) = "discovery"
      BY <1>3, <2>1 DEF FinishDiscovery, FailDiscovery
    <3> QED BY <1>3, <3>1, ClosingSettles
  <2>2. CASE proc[w].pc \notin {"closing", "settled"}
    <3>1. KindOf(proc[w].key) = "discovery"
      BY <1>3, <2>2 DEF FinishDiscovery, FailDiscovery, DiscoveryPhases
    <3> QED BY <1>3, <3>1, ClosingSettles
  <2> QED BY <2>1, <2>2
<1>4. CASE SettleDiscovery(w)
  <2> DEFINE d == ShopOf(proc[w].key)
  <2>1. d \in Shops /\ proc[w].key = <<d, "discovery">>
    BY <1>4, KeyParts DEF SettleDiscovery, JobInv, BusyHoldsJob
  <2>2. shop'[d].wait >= Interval /\ shop'[d].wait \in Nat
    <3>1. shop[d] \in ShopRow
      BY <2>1 DEF JobInv, TypeOK
    <3>2. FailedShop(shop[d]).wait >= Interval /\ FailedShop(shop[d]) \in ShopRow
      BY <3>1, FailedShopType
    <3>3. /\ [shop[d] EXCEPT !.failures = 0, !.wait = Interval].wait = Interval
          /\ [shop[d] EXCEPT !.failures = 0, !.wait = Interval] \in ShopRow
      BY <3>1, ShopRows DEF ShopRow
    <3>4. shop'[d] = FailedShop(shop[d])
          \/ shop'[d] = [shop[d] EXCEPT !.failures = 0, !.wait = Interval]
      BY <1>4, <2>1 DEF SettleDiscovery, JobInv, TypeOK
    <3>5. shop'[d] \in ShopRow /\ shop'[d].wait >= Interval
      <4>1. Interval >= Interval
        BY CrawlAssumption
      <4> QED BY <3>2, <3>3, <3>4, <4>1
    <3> QED BY <3>5, CrawlAssumption DEF ShopRow
  <2> SUFFICES ASSUME NEW s \in Shops
               PROVE  \/ since'[s] + shop'[s].wait >= Interval
                      \/ lost'[s]
                      \/ Settling(s)'
                      \/ tick' = "reaped" /\ s \in abandoned'
    BY DEF BackOffOwed
  <2>3. CASE s = d
    <3>1. since'[s] \in Nat
      BY <1>4, CrawlAssumption DEF SettleDiscovery, JobInv, TypeOK
    <3> QED BY <2>2, <2>3, <3>1, CrawlAssumption
  <2>4. CASE s # d
    <3>1. shop'[s] = shop[s] /\ since'[s] = since[s] /\ lost'[s] = lost[s]
      BY <1>4, <2>1, <2>4 DEF SettleDiscovery, JobInv, TypeOK
    <3>2. Settling(s) => Settling(s)'
      BY <1>1, <2>1, <2>4 DEF Settling, DiscoveryClosing
    <3> QED BY <1>4, <3>1, <3>2 DEF SettleDiscovery, BackOffOwed
  <2> QED BY <2>3, <2>4
<1>5. CASE SettleRefresh(w)
  <2>1. \A s \in Shops : Settling(s) => Settling(s)'
    BY <1>1, <1>5, OthersSettle DEF SettleRefresh
  <2>2. \A s \in Shops : shop'[s].wait = shop[s].wait
    BY <1>5 DEF SettleRefresh, JobInv, TypeOK, ShopRow
  <2> QED BY <1>5, <2>1, <2>2 DEF SettleRefresh, BackOffOwed
<1>6. CASE EscapingThrow(w)
  <2>1. \A s \in Shops : Settling(s) => Settling(s)' \/ lost'[s]
    BY <1>1, <1>6 DEF EscapingThrow, Settling, DiscoveryClosing
  <2>2. \A s \in Shops : lost[s] => lost'[s]
    BY <1>6 DEF EscapingThrow
  <2> QED BY <1>6, <2>1, <2>2 DEF EscapingThrow, BackOffOwed
<1> QED BY <1>2, <1>3, <1>4, <1>5, <1>6 DEF Handler

LEMMA NextBackOff == JobInv /\ DiscoveryPhases /\ BackOffOwed /\ [Next]_vars => BackOffOwed'
<1> SUFFICES ASSUME JobInv, DiscoveryPhases, BackOffOwed, [Next]_vars PROVE BackOffOwed'
  OBVIOUS
<1>1. CASE Elapse
  <2> SUFFICES ASSUME NEW s \in Shops, since[s] + shop[s].wait >= Interval
               PROVE  since'[s] + shop'[s].wait >= Interval
    BY <1>1 DEF Elapse, BackOffOwed, Settling, DiscoveryClosing
  <2>1. shop[s].wait \in Nat /\ since[s] \in 0..Interval
    BY CrawlAssumption DEF JobInv, TypeOK, ShopRow
  <2>2. /\ since'[s] = Capped(since[s] + 1, Interval)
        /\ shop'[s].wait = IF shop[s].wait = 0 THEN 0 ELSE shop[s].wait - 1
    BY <1>1 DEF Elapse, JobInv, TypeOK, ShopRow
  <2> QED BY <2>1, <2>2, CrawlAssumption DEF Capped
<1>2. CASE Tick
  BY <1>2, TickBackOffInv
<1>3. ASSUME NEW s \in Shops, ManualCheck(s) \/ ManualEnqueue(s) PROVE BackOffOwed'
  BY <1>3 DEF ManualCheck, ManualEnqueue, BackOffOwed, Settling, DiscoveryClosing, history
<1>4. ASSUME NEW k \in Keys, StalledCheck(k) PROVE BackOffOwed'
  BY <1>4 DEF StalledCheck, BackOffOwed, Settling, DiscoveryClosing, history
<1>5. ASSUME NEW w \in Workers, CrashWorker(w) PROVE BackOffOwed'
  <2>1. \A v \in Workers : v # w => proc'[v] = proc[v]
    BY <1>5 DEF CrashWorker
  <2>2. \A s \in Shops : Settling(s) => Settling(s)' \/ lost'[s]
    BY <1>5, <2>1 DEF CrashWorker, Settling, DiscoveryClosing
  <2>3. \A s \in Shops : lost[s] => lost'[s]
    BY <1>5 DEF CrashWorker
  <2> QED BY <1>5, <2>2, <2>3 DEF CrashWorker, BackOffOwed
<1>6. ASSUME NEW w \in Workers, Handler(w) PROVE BackOffOwed'
  BY <1>6, HandlerBackOff
<1>7. ASSUME NEW w \in Workers, NEW k \in Keys, Take(w, k) PROVE BackOffOwed'
  <2>1. \A v \in Workers : v # w => proc'[v] = proc[v]
    BY <1>7 DEF Take
  <2>2. \A s \in Shops : Settling(s) => Settling(s)'
    BY <1>7, <2>1 DEF Take, Settling, DiscoveryClosing
  <2> QED BY <1>7, <2>2, BackOffKept DEF Take, history
<1>8. CASE UNCHANGED vars
  BY <1>8 DEF vars, BackOffOwed, Settling, DiscoveryClosing
<1> QED BY <1>1, <1>2, <1>3, <1>4, <1>5, <1>6, <1>7, <1>8 DEF Next

(* Outside step 0 and with no process about to write the shop's row, what  *)
(* is left of the interval is on the row.                                  *)
LEMMA BackOffStands ==
    ASSUME JobInv, BackOffOwed, NEW s \in Shops, tick # "reaped", ~Settling(s)
    PROVE  IntervalOver(s) \/ shop[s].wait > 0
<1>1. since[s] \in 0..Interval /\ shop[s].wait \in Nat
  BY CrawlAssumption DEF JobInv, TypeOK, ShopRow
<1>2. since[s] + shop[s].wait >= Interval \/ lost[s]
  BY DEF BackOffOwed
<1> QED BY <1>1, <1>2, CrawlAssumption DEF IntervalOver

(* The SELECT lists a shop inside its interval only while a process that   *)
(* has closed its run is about to write its row.                           *)
LEMMA ListWaits ==
    ASSUME JobInv, BackOffOwed, [Next]_vars, NEW s \in Shops, Listed(s)
    PROVE  IntervalOver(s) \/ Settling(s)
<1>1. TickListDiscoveries
  BY DEF Listed, Next, vars, Elapse, Tick, Handler, TickReap, TickBackOff, TickBackOffFails,
         TickListRefreshes, TickSchedule, TickScheduleFails, TickCrash, ManualCheck,
         ManualEnqueue, StalledCheck, CrashWorker, Take, StartDiscovery, StartRefused,
         StartRefresh, NothingDue, Beat, FinishDiscovery, FailDiscovery, SettleDiscovery,
         FinishRefresh, SettleRefresh, EscapingThrow, JobEnds
<1>2. <<s, "discovery">> \in DiscoveryKeys(DueDiscoveries)
  BY <1>1 DEF TickListDiscoveries, Remaining, Listed
<1>3. shop[s].wait = 0
  BY <1>2 DEF DiscoveryKeys, DueDiscoveries
<1> QED BY <1>3, BackOffStands DEF Listed

(* A discovery that is sent inside the interval finds the back-off written. *)
LEMMA DispatchOvertaken ==
    ASSUME JobInv, BackOffOwed, [Next]_vars, NEW s \in Shops, Dispatched(s)
    PROVE  IntervalOver(s) \/ shop[s].wait > 0
<1> DEFINE k == <<s, "discovery">>
<1>1. k \in Keys
  BY DEF Keys, Kinds
<1>2. due' # due /\ job' # job
  BY DEF Dispatched
<1>3. tick # "reaped"
  BY <1>2 DEF Next, vars, Elapse, Tick, Handler, TickReap, TickBackOff, TickBackOffFails,
         TickListDiscoveries, TickListRefreshes, TickSchedule, TickScheduleFails, TickCrash,
         ManualCheck, ManualEnqueue, StalledCheck, CrashWorker, Take, StartDiscovery,
         StartRefused, StartRefresh, NothingDue, Beat, FinishDiscovery, FailDiscovery,
         SettleDiscovery, FinishRefresh, SettleRefresh, EscapingThrow, JobEnds
<1>4. ~Settling(s)
  BY <1>1 DEF Dispatched, Settling, DiscoveryClosing, JobInv, BusyHoldsJob
<1> QED BY <1>3, <1>4, BackOffStands

(* The scheduler never hammers a shop: whatever crashes, whatever the      *)
(* stalled-job recovery and the API do, no tick lists a shop inside the    *)
(* interval since its last closed discovery once its back-off is written,  *)
(* and a discovery sent inside it was listed before that; unless a fault   *)
(* lost the statement that sets next_discovery_at.                         *)
THEOREM BackOffHolds == Spec => BackOffRespected
<1> DEFINE Waits == \A s \in Shops :
                      /\ Listed(s) => IntervalOver(s) \/ Settling(s)
                      /\ Dispatched(s) => IntervalOver(s) \/ shop[s].wait > 0
<1>1. Init => DiscoveryPhases
  BY DEF Init, DiscoveryPhases, IdleProc
<1>2. JobInv /\ BackOffOwed /\ [Next]_vars => [Waits]_vars
  BY ListWaits, DispatchOvertaken
<1> QED
  BY <1>1, <1>2, InitJobInv, InitBackOff, NextJobInv, NextPhases, NextBackOff, PTL
  DEF Spec, BackOffRespected
=============================================================================
