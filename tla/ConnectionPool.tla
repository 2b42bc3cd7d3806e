--------------------------- MODULE ConnectionPool ---------------------------
(***************************************************************************)
(* The database pool of one process and the advisory locks taken through   *)
(* it.  A caller of withAdvisoryLock keeps one connection for the lock     *)
(* while its body asks the same pool for another connection for every      *)
(* statement: with as many callers as connections, all of them hold one    *)
(* and wait for a second.                                                  *)
(***************************************************************************)
EXTENDS Naturals, Sequences, SequencesExt

CONSTANTS
    Callers,
    PoolSize,      \* DATABASE_POOL_MAX
    LockNames,
    LockOf,        \* the lock each caller asks for
    Statements,    \* statements the body of a caller runs
    MaxTries       \* attempts of the job that calls

ASSUME PoolAssumption ==
    /\ PoolSize \in Nat \ {0}
    /\ LockOf \in [Callers -> LockNames]
    /\ Statements \in Nat
    /\ MaxTries \in Nat \ {0}

VARIABLES
    step,       \* where each caller is
    left,       \* statements its body has still to run
    tries,
    busy,       \* connections checked out
    waiting,    \* callers in the queue of the pool, in their order
    heldBy      \* lock -> the callers whose session holds it

poolVars == <<step, left, tries, busy, waiting, heldBy>>

PoolInit ==
    /\ step = [c \in Callers |-> "ready"]
    /\ left = [c \in Callers |-> Statements]
    /\ tries = [c \in Callers |-> 0]
    /\ busy = 0
    /\ waiting = <<>>
    /\ heldBy = [k \in LockNames |-> {}]

Unlocked(c) == [heldBy EXCEPT ![LockOf[c]] = @ \ {c}]

(* db().connect() for the lock.                                            *)
AskForLock(c) ==
    /\ step[c] = "ready"
    /\ step' = [step EXCEPT ![c] = "connecting"]
    /\ tries' = [tries EXCEPT ![c] = @ + 1]
    /\ waiting' = Append(waiting, c)
    /\ UNCHANGED <<left, busy, heldBy>>

(* The pool serves the head of its queue while it has a connection.        *)
Grant(c) ==
    /\ waiting # <<>> /\ waiting[1] = c
    /\ busy < PoolSize
    /\ busy' = busy + 1
    /\ waiting' = Tail(waiting)
    /\ step' = [step EXCEPT ![c] = IF @ = "connecting" THEN "polling" ELSE "statement"]
    /\ UNCHANGED <<left, tries, heldBy>>

(* pg_try_advisory_lock, asked again every 250 ms until the deadline.      *)
TryLock(c) ==
    /\ step[c] = "polling"
    /\ heldBy[LockOf[c]] = {}
    /\ heldBy' = [heldBy EXCEPT ![LockOf[c]] = @ \cup {c}]
    /\ step' = [step EXCEPT ![c] = "body"]
    /\ UNCHANGED <<left, tries, busy, waiting>>

GiveUp(c) ==
    /\ step[c] = "polling"
    /\ heldBy[LockOf[c]] # {}
    /\ busy' = busy - 1
    /\ step' = [step EXCEPT ![c] = "ended"]
    /\ UNCHANGED <<left, tries, waiting, heldBy>>

(* A statement of the body: a connection of its own.                       *)
AskForStatement(c) ==
    /\ step[c] = "body" /\ left[c] > 0
    /\ waiting' = Append(waiting, c)
    /\ step' = [step EXCEPT ![c] = "asking"]
    /\ UNCHANGED <<left, tries, busy, heldBy>>

RunStatement(c) ==
    /\ step[c] = "statement"
    /\ left' = [left EXCEPT ![c] = @ - 1]
    /\ busy' = busy - 1
    /\ step' = [step EXCEPT ![c] = "body"]
    /\ UNCHANGED <<tries, waiting, heldBy>>

Unlock(c) ==
    /\ step[c] = "body" /\ left[c] = 0
    /\ heldBy' = Unlocked(c)
    /\ busy' = busy - 1
    /\ step' = [step EXCEPT ![c] = "ended"]
    /\ UNCHANGED <<left, tries, waiting>>

(* An error leaves through both finally blocks; the job is tried again     *)
(* while it has attempts.                                                  *)
AfterError(c) ==
    /\ step' = [step EXCEPT ![c] = IF tries[c] < MaxTries THEN "ready" ELSE "ended"]
    /\ left' = [left EXCEPT ![c] = Statements]
    /\ heldBy' = Unlocked(c)
    /\ UNCHANGED tries

(* Mutant: only the wait for the lock is limited.                          *)
ConnectTimesOutUnlocked(c) ==
    /\ step[c] = "connecting"
    /\ waiting' = SelectSeq(waiting, LAMBDA d : d # c)
    /\ AfterError(c)
    /\ UNCHANGED busy

(* Mutant: a connection is given back that was not had.                    *)
ConnectTimesOutReleasing(c) ==
    /\ step[c] \in {"connecting", "asking"}
    /\ waiting' = SelectSeq(waiting, LAMBDA d : d # c)
    /\ busy' = busy - 1
    /\ AfterError(c)

(* connectionTimeoutMillis: the caller leaves the queue with an error.     *)
ConnectTimesOut(c) ==
    /\ step[c] \in {"connecting", "asking"}
    /\ waiting' = SelectSeq(waiting, LAMBDA d : d # c)
    /\ busy' = IF step[c] = "asking" THEN busy - 1 ELSE busy
    /\ AfterError(c)

(* A statement fails, or exceeds statement_timeout.                        *)
StatementFails(c) ==
    /\ step[c] = "statement"
    /\ busy' = busy - 2
    /\ AfterError(c)
    /\ UNCHANGED waiting

CallerStep(c) ==
    \/ AskForLock(c) \/ Grant(c) \/ TryLock(c) \/ GiveUp(c) \/ AskForStatement(c)
    \/ RunStatement(c) \/ Unlock(c) \/ ConnectTimesOut(c) \/ StatementFails(c)

PoolNext == \E c \in Callers : CallerStep(c)

PoolSpec == PoolInit /\ [][PoolNext]_poolVars

(* The database answers and the timers fire.                               *)
PoolFairness == \A c \in Callers : WF_poolVars(CallerStep(c))

FairPoolSpec == PoolSpec /\ PoolFairness

-----------------------------------------------------------------------------

PoolTypeOK ==
    /\ step \in [Callers -> {"ready", "connecting", "polling", "body", "asking",
                             "statement", "ended"}]
    /\ left \in [Callers -> 0..Statements]
    /\ tries \in [Callers -> 0..MaxTries]
    /\ busy \in 0..PoolSize
    /\ waiting \in Seq(Callers)
    /\ heldBy \in [LockNames -> SUBSET Callers]

Drained ==
    /\ \A c \in Callers : step[c] = "ended"
    /\ busy = 0 /\ waiting = <<>>
    /\ \A k \in LockNames : heldBy[k] = {}

(* However many callers hold a connection for their lock and wait for a    *)
(* second one, the pool comes to rest: every caller ends, and no           *)
(* connection and no lock stays behind.                                    *)
PoolDrains == <>[]Drained

=============================================================================
