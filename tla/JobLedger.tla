----------------------------- MODULE JobLedger -----------------------------
(***************************************************************************)
(* The page of operations and what it is drawn from.  An operation is a    *)
(* job of BullMQ whose id is its idempotency key, the same at every run;   *)
(* job_runs keeps the record of it: whoever enqueues inserts a row, the    *)
(* worker updates every row that has the id of its job.  No statement on   *)
(* job_runs may stop the work: a failure of one is swallowed.  The unique  *)
(* index of job_runs lets a key have one row that is queued, running or    *)
(* succeeded, beside any number that failed.                               *)
(*                                                                         *)
(* The key of the rebuild changes every half minute: it is not one of      *)
(* these operations.                                                       *)
(***************************************************************************)
EXTENDS Naturals, Sequences, FiniteSets, SequencesExt

CONSTANTS
    Operations,    \* of "mine", "apply", "sweep"
    Enqueuers,     \* requests of the API, "scheduler"
    JobAttempts,   \* attempts of a job
    JobStalls,     \* maxStalledCount, 2
    MaxSubmits, MaxLedgerRows, MaxLedgerFaults   \* bounds

ASSUME LedgerAssumption ==
    /\ "recheck" \notin Operations   \* it is no job
    /\ JobAttempts \in Nat \ {0}
    /\ {JobStalls, MaxSubmits, MaxLedgerRows, MaxLedgerFaults} \subseteq Nat

VARIABLES
    bull,      \* operation -> its job in BullMQ
    hand,      \* operation -> how far the worker is with it
    ledger,    \* job_runs, by queued_at
    asker,     \* enqueuer -> how far it is with which operation
    backlog,   \* operations that have something to do
    outOfSearch,    \* pairs that are to be searched again later
    clock,     \* now(), of the rows that finish
    outcome,   \* history: operation -> how its last attempt ended
    muddled,   \* history: operations whose rows missed a step of the job
    rechecked, \* history: a recheck has come after the last end of "apply"
    submits, ledgerFaults

jobVars == <<bull, hand>>
shopVars == <<backlog, outOfSearch>>
toldVars == <<outcome, muddled, rechecked>>
ledgerVars == <<bull, hand, ledger, asker, backlog, outOfSearch, clock, outcome,
                muddled, rechecked, submits, ledgerFaults>>

Gone == [state |-> "none", attempt |-> 0, stalls |-> 0]
NotAsking == [at |-> "idle", op |-> "none"]

LedgerInit ==
    /\ bull = [o \in Operations |-> Gone] /\ hand = [o \in Operations |-> "none"]
    /\ ledger = <<>> /\ asker = [e \in Enqueuers |-> NotAsking]
    /\ backlog = {} /\ outOfSearch = TRUE /\ clock = 1
    /\ outcome = [o \in Operations |-> "none"] /\ muddled = {} /\ rechecked = TRUE
    /\ submits = 0 /\ ledgerFaults = 0

(* Jobs of a priority wait as "prioritized", for which enqueue() does not   *)
(* look: such a job is removed and added again.                            *)
Outstanding == {"prioritized", "active", "delayed"}
NotRepeated == {"waiting", "active", "delayed"}

Indexed == {"queued", "running", "succeeded"} \* the statuses of job_runs_idempotency_uq

RunsOf(o) == {i \in DOMAIN ledger : ledger[i].op = o}

Fault == ledgerFaults < MaxLedgerFaults /\ ledgerFaults' = ledgerFaults + 1

-----------------------------------------------------------------------------
(* enqueue(), schedule()                                                   *)

(* A person starts any operation, the scheduler the sweep that has a       *)
(* backlog.                                                                *)
Submit(e, o) ==
    /\ asker[e].at = "idle" /\ submits < MaxSubmits
    /\ e = "scheduler" => o = "sweep" /\ o \in backlog
    /\ asker' = [asker EXCEPT ![e] = [at |-> "look", op |-> o]]
    /\ submits' = submits + 1
    /\ UNCHANGED <<jobVars, ledger, shopVars, clock, toldVars, ledgerFaults>>

Look(e) ==
    /\ asker[e].at = "look"
    /\ LET s == bull[asker[e].op].state
       IN asker' = [asker EXCEPT ![e] =
              IF s \in NotRepeated THEN NotAsking
              ELSE [@ EXCEPT !.at = IF s = "none" THEN "add" ELSE "remove"]]
    /\ UNCHANGED <<jobVars, ledger, shopVars, clock, toldVars, submits, ledgerFaults>>

(* A job that waits or has ended is removed; one that a worker holds is not. *)
RemoveJob(e) ==
    /\ asker[e].at = "remove"
    /\ asker' = [asker EXCEPT ![e].at = "add"]
    /\ bull' = [bull EXCEPT ![asker[e].op] = IF @.state = "active" THEN @ ELSE Gone]
    /\ UNCHANGED <<hand, ledger, shopVars, clock, toldVars, submits, ledgerFaults>>

(* BullMQ adds no second job of an id.                                     *)
AddJob(e) ==
    /\ asker[e].at = "add"
    /\ asker' = [asker EXCEPT ![e].at = "row"]
    /\ bull' = [bull EXCEPT ![asker[e].op] =
                   IF @.state = "none" THEN [Gone EXCEPT !.state = "prioritized"] ELSE @]
    /\ UNCHANGED <<hand, ledger, shopVars, clock, toldVars, submits, ledgerFaults>>

InsertRow(o) ==
    IF \E i \in RunsOf(o) : ledger[i].status \in Indexed THEN ledger
    ELSE Append(ledger, [op |-> o, status |-> "queued", finished |-> 0])

(* The row comes after the job: a worker may have ended it meanwhile.      *)
AddRow(e) ==
    /\ asker[e].at = "row" /\ Len(ledger) < MaxLedgerRows
    /\ LET o == asker[e].op
       IN /\ asker' = [asker EXCEPT ![e] = NotAsking]
          /\ \/ ledger' = InsertRow(o) /\ UNCHANGED ledgerFaults
             \/ ledger' = ledger /\ Fault
          /\ muddled' = IF bull[o].state \notin Outstanding \/ hand[o] = "ended"
                           \/ ledgerFaults' # ledgerFaults
                        THEN muddled \cup {o} ELSE muddled
    /\ UNCHANGED <<jobVars, shopVars, clock, outcome, rechecked, submits>>

-----------------------------------------------------------------------------
(* buildProcessor, markJobFinished                                         *)

(* Mutant: only rows that were seen to start are finished.                 *)
FinishStarted(o, status, finished) ==
    [i \in DOMAIN ledger |->
        IF i \in RunsOf(o) /\ (ledger[i].status = "running" \/ finished = 0)
        THEN [ledger[i] EXCEPT !.status = status,
                               !.finished = IF finished = 0 THEN @ ELSE finished]
        ELSE ledger[i]]

(* UPDATE job_runs ... WHERE external_job_id: every row of the id, or none *)
(* when the index forbids what they would become.                          *)
UpdateRows(o, status, finished) ==
    IF status \in Indexed /\ Cardinality(RunsOf(o)) > 1 THEN ledger
    ELSE [i \in DOMAIN ledger |->
             IF i \in RunsOf(o)
             THEN [ledger[i] EXCEPT !.status = status,
                                    !.finished = IF finished = 0 THEN @ ELSE finished]
             ELSE ledger[i]]

TakeJob(o) ==
    /\ bull[o].state \in {"prioritized", "delayed"} /\ hand[o] = "none"
    /\ bull' = [bull EXCEPT ![o].state = "active"]
    /\ hand' = [hand EXCEPT ![o] = "taken"]
    /\ UNCHANGED <<ledger, asker, shopVars, clock, toldVars, submits, ledgerFaults>>

MarkRunning(o) ==
    /\ hand[o] = "taken"
    /\ hand' = [hand EXCEPT ![o] = "marked"]
    /\ \/ ledger' = UpdateRows(o, "running", 0) /\ UNCHANGED ledgerFaults
       \/ ledger' = ledger /\ Fault
    /\ UNCHANGED <<bull, asker, shopVars, clock, toldVars, submits>>

StatusOf(o, ok) ==
    IF ok THEN "succeeded"
    ELSE IF bull[o].attempt + 1 >= JobAttempts THEN "dead_letter" ELSE "failed"

(* The handler returns, having done some or all there was to do, or throws. *)
EndJob(o, ok) ==
    /\ hand[o] = "marked"
    /\ hand' = [hand EXCEPT ![o] = "ended"]
    /\ \/ /\ ledger' = UpdateRows(o, StatusOf(o, ok), clock)
          /\ muddled' = muddled \ {o} /\ UNCHANGED ledgerFaults
       \/ ledger' = ledger /\ Fault /\ muddled' = muddled \cup {o}
    /\ outcome' = [outcome EXCEPT ![o] = StatusOf(o, ok)]
    /\ rechecked' = IF o = "apply" THEN FALSE ELSE rechecked
    /\ clock' = clock + 1
    /\ backlog' \in IF ok THEN {backlog, backlog \ {o}} ELSE {backlog}
    /\ UNCHANGED <<bull, asker, outOfSearch, submits>>

(* BullMQ hears of it: a failed attempt waits for the next.                *)
SettleJob(o) ==
    /\ hand[o] = "ended"
    /\ hand' = [hand EXCEPT ![o] = "none"]
    /\ bull' = [bull EXCEPT
           ![o].state = CASE outcome[o] = "succeeded" -> "completed"
                          [] outcome[o] = "dead_letter" -> "failed"
                          [] OTHER -> "delayed",
           ![o].attempt = IF outcome[o] = "failed" THEN @ + 1 ELSE @]
    /\ UNCHANGED <<ledger, asker, shopVars, clock, toldVars, submits, ledgerFaults>>

(* The worker dies: the stalled check gives the job to another, or fails   *)
(* it without a word to the ledger.                                        *)
Die(o) ==
    /\ hand[o] # "none" /\ Fault
    /\ hand' = [hand EXCEPT ![o] = "none"]
    /\ LET again == bull[o].stalls < JobStalls
       IN /\ bull' = [bull EXCEPT ![o].stalls = @ + 1,
                                  ![o].state = IF again THEN "prioritized" ELSE "failed"]
          /\ muddled' = IF again THEN muddled ELSE muddled \cup {o}
    /\ UNCHANGED <<ledger, asker, shopVars, clock, outcome, rechecked, submits>>

-----------------------------------------------------------------------------
(* The page                                                                *)

LastRunOf(o) == SelectLastInSeq(ledger, LAMBDA r : r.op = o)

FinishedAt(o) == IF LastRunOf(o) = 0 THEN 0 ELSE ledger[LastRunOf(o)].finished

Needs(o) ==
    IF o = "recheck" THEN FinishedAt("apply") > FinishedAt("recheck") /\ outOfSearch
    ELSE o \in backlog

OpState(o) ==
    LET last == IF LastRunOf(o) = 0 THEN "none" ELSE ledger[LastRunOf(o)].status
    IN IF last \in {"queued", "running"} THEN "running"
       ELSE IF last \in {"failed", "dead_letter"} THEN "failed"
       ELSE IF Needs(o) THEN "needed"
       ELSE IF last = "none" THEN "never" ELSE "ok"

(* The recheck is an UPDATE, and a row of its own without a key; the row   *)
(* may fail to be written.                                                 *)
Recheck ==
    /\ submits < MaxSubmits /\ submits' = submits + 1 /\ Len(ledger) < MaxLedgerRows
    /\ outOfSearch' = FALSE /\ rechecked' = TRUE /\ clock' = clock + 1
    /\ \/ /\ ledger' = Append(ledger, [op |-> "recheck", status |-> "succeeded",
                                       finished |-> clock])
          /\ UNCHANGED ledgerFaults
       \/ ledger' = ledger /\ Fault
    /\ UNCHANGED <<jobVars, asker, backlog, outcome, muddled>>

(* Crawling, approving and searching leave work behind.                    *)
Arrive(o) ==
    /\ o \notin backlog /\ backlog' = backlog \cup {o}
    /\ UNCHANGED <<jobVars, ledger, asker, outOfSearch, clock, toldVars, submits, ledgerFaults>>

ParkPair ==
    /\ ~outOfSearch /\ outOfSearch' = TRUE
    /\ UNCHANGED <<jobVars, ledger, asker, backlog, clock, toldVars, submits, ledgerFaults>>

(* The retention takes rows that succeeded, thirty days after they were    *)
(* first queued, however often they have been run since.                   *)
PruneRow(i) ==
    /\ ledger[i].status = "succeeded"
    /\ ledger' = RemoveAt(ledger, i)
    /\ UNCHANGED <<jobVars, asker, shopVars, clock, toldVars, submits, ledgerFaults>>

LedgerNext ==
    \/ \E e \in Enqueuers :
         \/ \E o \in Operations : Submit(e, o)
         \/ Look(e) \/ RemoveJob(e) \/ AddJob(e) \/ AddRow(e)
    \/ \E o \in Operations :
         \/ TakeJob(o) \/ MarkRunning(o) \/ SettleJob(o) \/ Die(o) \/ Arrive(o)
         \/ \E ok \in BOOLEAN : EndJob(o, ok)
    \/ Recheck \/ ParkPair
    \/ \E i \in DOMAIN ledger : PruneRow(i)

LedgerSpec == LedgerInit /\ [][LedgerNext]_ledgerVars

-----------------------------------------------------------------------------
LedgerStatuses == Indexed \cup {"failed", "dead_letter"}

LedgerTypeOK ==
    /\ bull \in [Operations -> [state : Outstanding \cup {"none", "completed", "failed"},
                                attempt : 0..JobAttempts, stalls : 0..(JobStalls + 1)]]
    /\ hand \in [Operations -> {"none", "taken", "marked", "ended"}]
    /\ \A i \in DOMAIN ledger :
          ledger[i] \in [op : Operations \cup {"recheck"}, status : LedgerStatuses,
                         finished : 0..clock]
    /\ \A e \in Enqueuers : asker[e].at \in {"idle", "look", "remove", "add", "row"}
    /\ outcome \in [Operations -> LedgerStatuses \cup {"none"}]
    /\ backlog \subseteq Operations /\ muddled \subseteq Operations

Resting(o) ==
    /\ bull[o].state \notin Outstanding
    /\ \A e \in Enqueuers : asker[e].op # o

(* A job that has come to rest has left its outcome in the ledger, and an  *)
(* "apply" that ended after the last recheck makes the page ask for one:   *)
(* however enqueuers, attempts and rows have interleaved, unless its       *)
(* workers died with it, a statement failed, its row came when it was over *)
(* (muddled), or rows of an earlier failure stand beside its own.          *)
LedgerTellsOutcome ==
    \A o \in Operations :
        Resting(o) /\ o \notin muddled /\ Cardinality(RunsOf(o)) = 1 =>
            /\ ledger[LastRunOf(o)].status = outcome[o]
            /\ o = "apply" /\ outOfSearch /\ ~rechecked => OpState("recheck") = "needed"

(* operations.ts: 'running' is what is at work now.                        *)
RunningIsAtWork ==
    \A o \in Operations :
        Resting(o) /\ o \notin muddled => OpState(o) # "running"
=============================================================================
