-------------------------- MODULE ProducerRegister --------------------------
(***************************************************************************)
(* The register of producers (wineries) and the runs that bring a decision *)
(* about a producer to the listings already collected.                     *)
(*                                                                         *)
(* Managers approve, reject, revoke and merge producers; every approval    *)
(* and merge queues a re-extraction under a shared key, and a run parses   *)
(* the listing names again with the vocabulary it loads when it starts.    *)
(* A request checks the register and changes it in separate statements,    *)
(* a run reads its scope, its vocabulary and its rows before it writes, so *)
(* requests and runs overlap.                                              *)
(*                                                                         *)
(* The name of a listing is the sequence of producer names found in it,    *)
(* the longest first: that is all the parser's answer depends on.          *)
(***************************************************************************)
EXTENDS Naturals, FiniteSets, Sequences, SequencesExt

CONSTANTS
    Producers,       \* rows of the table producers, each with its own name
    NoProducer,
    Listings,        \* active listings of wine shops
    NamesIn,         \* listing -> the producer names in its raw name
    Evident,         \* listings whose name proves a grape or a wine style
    Blends,          \* producers whose surplus words are wine terms (no alias)
    Managers,
    MaxDecisions,    \* bound: requests the managers make
    MaxRunFaults        \* bound: failures of a run, before the last request

ASSUME RegisterAssumption ==
    /\ NoProducer \notin Producers
    /\ NamesIn \in [Listings -> Seq(Producers)]
    /\ Evident \subseteq Listings
    /\ Blends \subseteq Producers
    /\ MaxDecisions \in Nat
    /\ MaxRunFaults \in Nat

VARIABLES
    status,      \* producers.status
    applied,     \* producers whose applied_at is set
    aliases,     \* approved aliases <<name, target>>
    owner,       \* source_listings.producer_id
    asked,       \* manager -> the request that has passed its checks
    job,         \* key of a re-extraction -> its state in the queue
    run,         \* key -> what the run in progress has read and done
    merges,      \* every merge committed, as <<source, survivor>>
    decisions,
    runFaults

registerVars == <<status, applied, aliases, owner, asked, job, run, merges,
          decisions, runFaults>>

----------------------------------------------------------------------------

RunKeys == {"pending", "all", "tail"}

(* The payload { pendingOnly: true }, as against { all: true }. *)
PendingOnly(k) == k # "all"

NoRun == [at |-> "idle", scope |-> {}, vocab |-> {}, rows |-> {},
          was |-> [l \in Listings |-> NoProducer], hits |-> {}]

Request == [op : {"approve", "reject", "revoke", "merge"},
            keep : Producers, into : SUBSET Producers, drop : SUBSET Producers]

NoRequest == [op |-> "none"]

(* mergeIds without keepId, discardIds without either, and not both empty. *)
WellFormed(r) ==
    IF r.op = "merge"
    THEN r.keep \notin r.into \cup r.drop /\ r.into \cap r.drop = {} /\ r.into \cup r.drop # {}
    ELSE r.into = {} /\ r.drop = {}

Owned(p) == {l \in Listings : owner[l] = p}

(* The checks a request makes before it writes. *)
Accepts(r) ==
    CASE r.op = "approve" -> status[r.keep] # "active"
      [] r.op = "reject"  -> status[r.keep] # "active"
      [] r.op = "revoke"  -> Owned(r.keep) = {}
      [] r.op = "merge"   -> \A p \in {r.keep} \cup r.into : status[p] # "merged"

(* queue-client.ts: a job whose key waits or runs absorbs the new one.     *)
Enqueued(j, k) == IF j[k] = "none" THEN [j EXCEPT ![k] = "waiting"] ELSE j

----------------------------------------------------------------------------

RegisterInit ==
    /\ status = [p \in Producers |-> "proposed"]
    /\ applied = {}
    /\ aliases = {}
    /\ owner = [l \in Listings |-> NoProducer]
    /\ asked = [m \in Managers |-> NoRequest]
    /\ job = [k \in RunKeys |-> "none"]
    /\ run = [k \in RunKeys |-> NoRun]
    /\ merges = {}
    /\ decisions = 0
    /\ runFaults = 0

Ask(m) ==
    /\ asked[m] = NoRequest
    /\ decisions < MaxDecisions
    /\ \E r \in Request :
          /\ WellFormed(r)
          /\ Accepts(r)
          /\ asked' = [asked EXCEPT ![m] = r]
    /\ decisions' = decisions + 1
    /\ UNCHANGED <<status, applied, aliases, owner, job, run, merges, runFaults>>

Answered(m) == asked' = [asked EXCEPT ![m] = NoRequest]

Approve(m) ==
    /\ asked[m].op = "approve"
    /\ status' = [status EXCEPT ![asked[m].keep] = "active"]
    /\ job' = Enqueued(job, "pending")
    /\ Answered(m)
    /\ UNCHANGED <<applied, aliases, owner, run, merges, decisions, runFaults>>

Reject(m) ==
    /\ asked[m].op = "reject"
    /\ status' = [status EXCEPT ![asked[m].keep] = "retired"]
    /\ Answered(m)
    /\ UNCHANGED <<applied, aliases, owner, job, run, merges, decisions, runFaults>>

Revoke(m) ==
    /\ asked[m].op = "revoke"
    /\ status' = [status EXCEPT ![asked[m].keep] = "proposed"]
    /\ Answered(m)
    /\ UNCHANGED <<applied, aliases, owner, job, run, merges, decisions, runFaults>>

(* Mutant: the names that were discarded become aliases too.               *)
AliasesOfDiscarded(r) ==
    LET named == aliases \cup {<<p, r.keep>> : p \in r.into \cup r.drop}
    IN {IF a[2] \in r.into THEN <<a[1], r.keep>> ELSE a : a \in named}

(* The merged names become aliases of the survivor unless their surplus    *)
(* words belong to the wine; then the aliases they had follow them.        *)
AliasesAfter(r) ==
    LET named == aliases \cup {<<p, r.keep>> : p \in r.into \ Blends}
    IN {IF a[2] \in r.into THEN <<a[1], r.keep>> ELSE a : a \in named}

(* A producer with listings, or merged meanwhile, is not discarded.        *)
Discarded(r) ==
    {p \in r.drop : status[p] # "merged" /\ Owned(p) = {}}

MovedTo(r, q) == IF q \in r.into THEN r.keep ELSE q

MergeProducers(m) ==
    LET r == asked[m]
    IN /\ r.op = "merge"
       /\ owner' = [l \in Listings |-> MovedTo(r, owner[l])]
       /\ aliases' = AliasesAfter(r)
       /\ status' = [p \in Producers |->
                        IF p \in r.into THEN "merged"
                        ELSE IF p \in Discarded(r) THEN "retired"
                        ELSE status[p]]
       /\ applied' = applied \ {r.keep}
       /\ merges' = merges \cup {<<p, r.keep>> : p \in r.into}
       /\ job' = Enqueued(job, "pending")
       /\ Answered(m)
       /\ UNCHANGED <<run, decisions, runFaults>>

(* The button "apply": refused while no producer is active.                *)
Apply(k) ==
    /\ k \in {"pending", "all"}
    /\ decisions < MaxDecisions
    /\ \E p \in Producers : status[p] = "active"
    /\ job[k] = "none"
    /\ job' = Enqueued(job, k)
    /\ decisions' = decisions + 1
    /\ UNCHANGED <<status, applied, aliases, owner, asked, run, merges, runFaults>>

----------------------------------------------------------------------------

Unapplied == {p \in Producers : status[p] = "active" /\ p \notin applied}

(* A run starts: a pending run reads its scope, and ends at once when      *)
(* nothing is pending.                                                     *)
StartRun(k) ==
    /\ job[k] = "waiting"
    /\ IF PendingOnly(k) /\ Unapplied = {}
       THEN /\ job' = [job EXCEPT ![k] = "none"]
            /\ UNCHANGED run
       ELSE /\ job' = [job EXCEPT ![k] = "running"]
            /\ run' = [run EXCEPT ![k].at = "scoped",
                                  ![k].scope = IF PendingOnly(k) THEN Unapplied ELSE {}]
    /\ UNCHANGED <<status, applied, aliases, owner, asked, merges, decisions, runFaults>>

(* VOCAB_SQL: the active producers by name, and by approved alias.         *)
Vocabulary ==
    {<<p, p>> : p \in {q \in Producers : status[q] = "active"}}
        \cup {a \in aliases : status[a[2]] = "active"}

LoadVocabulary(k) ==
    /\ run[k].at = "scoped"
    /\ IF Vocabulary = {}
       THEN /\ job' = [job EXCEPT ![k] = "none"]
            /\ run' = [run EXCEPT ![k] = NoRun]
       ELSE /\ run' = [run EXCEPT ![k].at = "loaded", ![k].vocab = Vocabulary]
            /\ UNCHANGED job
    /\ UNCHANGED <<status, applied, aliases, owner, asked, merges, decisions, runFaults>>

(* A scoped run reads the rows whose name holds the name of a producer of  *)
(* its scope that is active still; a full run reads every row.             *)
RowsFor(k) ==
    IF PendingOnly(k)
    THEN {l \in Listings : \E p \in run[k].scope :
              status[p] = "active" /\ p \in ToSet(NamesIn[l])}
    ELSE Listings

SelectRows(k) ==
    /\ run[k].at = "loaded"
    /\ run' = [run EXCEPT ![k].at = "rows", ![k].rows = RowsFor(k), ![k].was = owner]
    /\ UNCHANGED <<status, applied, aliases, owner, asked, job, merges,
                   decisions, runFaults>>

(* The longest name the vocabulary knows; a name with several targets may  *)
(* resolve to any of them.                                                 *)
Parsed(l, vocab) ==
    LET known == {i \in DOMAIN NamesIn[l] : \E v \in vocab : v[1] = NamesIn[l][i]}
        longest == {i \in known : \A j \in known : i <= j}
    IN IF known = {} THEN {NoProducer}
       ELSE {v[2] : v \in {v \in vocab : \E i \in longest : v[1] = NamesIn[l][i]}}

(* A scoped run passes over what is not in its scope, a full run over the  *)
(* names that prove nothing.                                               *)
PassedOver(k, l, p) ==
    IF PendingOnly(k) THEN p \notin run[k].scope
    ELSE p = NoProducer /\ l \notin Evident

(* applyWineIdentity: the parsed producer, or the one the row had when it  *)
(* was read; the row is left alone when no slot of it changes.             *)
ProcessRow(k, l) ==
    /\ run[k].at = "rows"
    /\ l \in run[k].rows
    /\ \E p \in Parsed(l, run[k].vocab) :
          LET written == IF p = NoProducer THEN run[k].was[l] ELSE p
          IN /\ \/ PassedOver(k, l, p) /\ UNCHANGED owner
                \/ /\ ~PassedOver(k, l, p)
                   /\ owner' = [owner EXCEPT ![l] = written]
                \/ /\ ~PassedOver(k, l, p)
                   /\ p \in {NoProducer, run[k].was[l]}
                   /\ UNCHANGED owner
             /\ run' = [run EXCEPT ![k].rows = @ \ {l},
                                   ![k].hits = IF PassedOver(k, l, p) \/ p = NoProducer
                                               THEN @ ELSE @ \cup {p}]
    /\ UNCHANGED <<status, applied, aliases, asked, job, merges, decisions, runFaults>>

(* applied_at = now() for the scope, or for what a full run has met.       *)
Stamped(k) ==
    {p \in (IF PendingOnly(k) THEN run[k].scope ELSE run[k].hits) : status[p] = "active"}

StampApplied(k) ==
    /\ run[k].at = "rows"
    /\ run[k].rows = {}
    /\ applied' = applied \cup Stamped(k)
    /\ run' = [run EXCEPT ![k].at = "tail"]
    /\ UNCHANGED <<status, aliases, owner, asked, job, merges, decisions, runFaults>>

(* A pending run that leaves something pending queues the tail run.        *)
CheckTail(k) ==
    /\ run[k].at = "tail"
    /\ run' = [run EXCEPT ![k].at = "done"]
    /\ job' = IF PendingOnly(k) /\ Unapplied # {} THEN Enqueued(job, "tail") ELSE job
    /\ UNCHANGED <<status, applied, aliases, owner, asked, merges, decisions, runFaults>>

EndRun(k) ==
    /\ run[k].at = "done"
    /\ job' = [job EXCEPT ![k] = "none"]
    /\ run' = [run EXCEPT ![k] = NoRun]
    /\ UNCHANGED <<status, applied, aliases, owner, asked, merges, decisions, runFaults>>

(* A run fails; the queue tries it again, or gives it up after the last    *)
(* attempt.                                                                *)
FailRun(k) ==
    /\ run[k].at \notin {"idle", "done"}
    /\ runFaults < MaxRunFaults /\ decisions + runFaults < MaxDecisions
    /\ runFaults' = runFaults + 1
    /\ \E next \in {"waiting", "none"} : job' = [job EXCEPT ![k] = next]
    /\ run' = [run EXCEPT ![k] = NoRun]
    /\ UNCHANGED <<status, applied, aliases, owner, asked, merges, decisions>>

Decide(m) == Ask(m) \/ Approve(m) \/ Reject(m) \/ Revoke(m) \/ MergeProducers(m)

Reextract(k) ==
    \/ StartRun(k) \/ LoadVocabulary(k) \/ SelectRows(k)
    \/ \E l \in Listings : ProcessRow(k, l)
    \/ StampApplied(k) \/ CheckTail(k) \/ EndRun(k) \/ FailRun(k)

RegisterNext ==
    \/ \E m \in Managers : Decide(m)
    \/ \E k \in RunKeys : Apply(k) \/ Reextract(k)

RegisterSpec == RegisterInit /\ [][RegisterNext]_registerVars

----------------------------------------------------------------------------

RegisterTypeOK ==
    /\ status \in [Producers -> {"proposed", "active", "retired", "merged"}]
    /\ applied \subseteq Producers
    /\ aliases \subseteq Producers \X Producers
    /\ owner \in [Listings -> Producers \cup {NoProducer}]
    /\ asked \in [Managers -> Request \cup {NoRequest}]
    /\ job \in [RunKeys -> {"none", "waiting", "running"}]
    /\ run \in [RunKeys ->
          [at : {"idle", "scoped", "loaded", "rows", "tail", "done"},
           scope : SUBSET Producers, vocab : SUBSET (Producers \X Producers),
           rows : SUBSET Listings, was : [Listings -> Producers \cup {NoProducer}],
           hits : SUBSET Producers]]
    /\ merges \subseteq Producers \X Producers
    /\ decisions \in 0..MaxDecisions
    /\ runFaults \in 0..MaxRunFaults

(* p was merged into q, directly or through others: q is in every set that *)
(* holds p and with a source its survivor.                                 *)
MergedInto(p, q) ==
    \A T \in SUBSET Producers :
        (p \in T /\ \A e \in merges : e[1] \in T => e[2] \in T) => q \in T

(* Whatever the requests and the runs overlap, a listing is only ever      *)
(* given to a producer whose name is in its own name, or to one into which *)
(* people have merged such a producer: a name that was discarded, or an    *)
(* alias that moved on, never carries a listing elsewhere.                 *)
OwnerFollowsNames ==
    \A l \in Listings :
        owner[l] # NoProducer =>
            \E p \in ToSet(NamesIn[l]) : MergedInto(p, owner[l])
=============================================================================
