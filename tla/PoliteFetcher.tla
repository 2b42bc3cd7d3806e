---------------------------- MODULE PoliteFetcher ----------------------------
(***************************************************************************)
(* How the crawler asks one host: a semaphore bounds the fetches under     *)
(* way, a token bucket the requests sent, and a fetch retries, keeping its *)
(* place in the semaphore, after a refusal, a server error or a timeout.   *)
(*                                                                         *)
(* An action is what the event loop runs between two awaits.  Time is a    *)
(* tick of the clock; a tick adds Gain to the bucket and a request costs   *)
(* Cost, so that the rate is Gain/Cost requests a tick.                    *)
(***************************************************************************)
EXTENDS Naturals, Sequences, SequencesExt, FiniteSetsExt

CONSTANTS
    Fetches,
    Limit,         \* policy.maxConcurrency
    Gain, Cost,    \* policy.requestsPerSecond
    Burst,         \* requests the full bucket allows: max(1, ceil(rate))
    MaxAttempts,   \* policy.maxRetries + 1
    Window         \* bound: ticks over which the requests are counted

ASSUME FetcherAssumption ==
    /\ {Limit, Gain, Cost, Burst, MaxAttempts} \subseteq Nat \ {0}
    /\ Window \in Nat

VARIABLES
    phase,      \* where each fetch is
    attempt,
    active,     \* Semaphore.active
    semQueue,   \* Semaphore.queue
    tokens,     \* RateLimiter.tokens
    since,      \* ticks since RateLimiter.lastRefill
    tokQueue,   \* RateLimiter.queue
    askedIn       \* history: k -> requests sent in this tick and the k before

fetchVars == <<phase, attempt, active, semQueue, tokens, since, tokQueue, askedIn>>

Full == Burst * Cost

FetchInit ==
    /\ phase = [f \in Fetches |-> "new"]
    /\ attempt = [f \in Fetches |-> 0]
    /\ active = 0
    /\ semQueue = <<>>
    /\ tokens = Full
    /\ since = 0
    /\ tokQueue = <<>>
    /\ askedIn = [k \in 0..Window |-> 0]

(* Semaphore.acquire, once the address and robots.txt have been checked.   *)
Enter(f) ==
    /\ phase[f] = "new"
    /\ IF active < Limit
       THEN /\ active' = active + 1
            /\ phase' = [phase EXCEPT ![f] = "ask"]
            /\ UNCHANGED semQueue
       ELSE /\ semQueue' = Append(semQueue, f)
            /\ phase' = [phase EXCEPT ![f] = "queued"]
            /\ UNCHANGED active
    /\ UNCHANGED <<attempt, tokens, since, tokQueue, askedIn>>

(* robots.txt forbids the address, or it is not a safe one.                *)
Refuse(f) ==
    /\ phase[f] = "new"
    /\ phase' = [phase EXCEPT ![f] = "done"]
    /\ UNCHANGED <<attempt, active, semQueue, tokens, since, tokQueue, askedIn>>

(* A waiter whose promise was resolved goes on in a later microtask.       *)
Resume(f) ==
    /\ phase[f] = "woken"
    /\ active' = active + 1
    /\ phase' = [phase EXCEPT ![f] = "ask"]
    /\ UNCHANGED <<attempt, semQueue, tokens, since, tokQueue, askedIn>>

(* The next attempt: it too waits for a token.                             *)
AskToken(f) ==
    /\ phase[f] = "ask"
    /\ attempt' = [attempt EXCEPT ![f] = @ + 1]
    /\ tokQueue' = Append(tokQueue, f)
    /\ phase' = [phase EXCEPT ![f] = "paced"]
    /\ UNCHANGED <<active, semQueue, tokens, since, askedIn>>

Refilled == Min({Full, tokens + since * Gain})

(* Mutant: lastRefill is not moved on.                                     *)
SendWithoutStamp(f) ==
    /\ tokQueue # <<>> /\ Head(tokQueue) = f
    /\ Refilled >= Cost
    /\ tokens' = Refilled - Cost
    /\ tokQueue' = Tail(tokQueue)
    /\ phase' = [phase EXCEPT ![f] = "sent"]
    /\ askedIn' = [k \in 0..Window |-> askedIn[k] + 1]
    /\ UNCHANGED <<attempt, active, semQueue, since>>

(* RateLimiter.drain: refill, and let the head of the queue go.            *)
Send(f) ==
    /\ tokQueue # <<>> /\ Head(tokQueue) = f
    /\ Refilled >= Cost
    /\ tokens' = Refilled - Cost
    /\ since' = 0
    /\ tokQueue' = Tail(tokQueue)
    /\ phase' = [phase EXCEPT ![f] = "sent"]
    /\ askedIn' = [k \in 0..Window |-> askedIn[k] + 1]
    /\ UNCHANGED <<attempt, active, semQueue>>

(* Mutant: nobody is woken.                                                *)
ReleasedSilently(f) ==
    /\ active' = active - 1
    /\ phase' = [phase EXCEPT ![f] = "done"]
    /\ UNCHANGED semQueue

(* Semaphore.release: the head of the queue is woken.                      *)
Released(f) ==
    /\ active' = active - 1
    /\ IF semQueue = <<>>
       THEN phase' = [phase EXCEPT ![f] = "done"] /\ UNCHANGED semQueue
       ELSE /\ phase' = [phase EXCEPT ![f] = "done", ![Head(semQueue)] = "woken"]
            /\ semQueue' = Tail(semQueue)

(* An answer that ends the fetch: any that is not worth a retry, or the    *)
(* last one.                                                               *)
Answer(f) ==
    /\ phase[f] = "sent"
    /\ Released(f)
    /\ UNCHANGED <<attempt, tokens, since, tokQueue, askedIn>>

(* 429, 5xx, a timeout or a network error, with attempts left: the fetch   *)
(* sleeps, still inside the semaphore.                                     *)
BackOff(f) ==
    /\ phase[f] = "sent"
    /\ attempt[f] < MaxAttempts
    /\ phase' = [phase EXCEPT ![f] = "asleep"]
    /\ UNCHANGED <<attempt, active, semQueue, tokens, since, tokQueue, askedIn>>

Awake(f) ==
    /\ phase[f] = "asleep"
    /\ phase' = [phase EXCEPT ![f] = "ask"]
    /\ UNCHANGED <<attempt, active, semQueue, tokens, since, tokQueue, askedIn>>

(* Beyond the time that fills the bucket the clock makes no difference.    *)
Tick ==
    /\ since' = Min({since + 1, Full})
    /\ askedIn' = [k \in 0..Window |-> IF k = 0 THEN 0 ELSE askedIn[k - 1]]
    /\ UNCHANGED <<phase, attempt, active, semQueue, tokens, tokQueue>>

FetchStep(f) ==
    \/ Enter(f) \/ Refuse(f) \/ Resume(f) \/ AskToken(f) \/ Send(f)
    \/ Answer(f) \/ BackOff(f) \/ Awake(f)

FetchNext == Tick \/ \E f \in Fetches : FetchStep(f)

FetchSpec == FetchInit /\ [][FetchNext]_fetchVars

(* The clock runs, the event loop serves what is ready, and a request is   *)
(* answered or times out.                                                  *)
FetchFairness == WF_fetchVars(Tick) /\ \A f \in Fetches : WF_fetchVars(FetchStep(f))

FairFetchSpec == FetchSpec /\ FetchFairness

-----------------------------------------------------------------------------

FetchTypeOK ==
    /\ phase \in [Fetches -> {"new", "queued", "woken", "ask", "paced", "sent",
                              "asleep", "done"}]
    /\ attempt \in [Fetches -> 0..MaxAttempts]
    /\ active \in Nat
    /\ semQueue \in Seq(Fetches)
    /\ tokens \in 0..Full
    /\ since \in 0..Full
    /\ tokQueue \in Seq(Fetches)
    /\ askedIn \in [0..Window -> Nat]

(* In any stretch of ticks, over all fetches and their retries, the host   *)
(* is asked at most a burst more often than the rate allows.               *)
RateKept == \A k \in 0..Window : askedIn[k] * Cost <= Full + k * Gain

(* Every fetch ends: none is left in a queue by one that failed, and no    *)
(* host that keeps refusing holds a place for ever.                        *)
EveryFetchEnds == <>(\A f \in Fetches : phase[f] = "done")

=============================================================================
