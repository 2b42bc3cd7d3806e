---------------------------- MODULE ClusterSweep ----------------------------
(***************************************************************************)
(* The sweep over the listings that no canonical variant has taken yet,    *)
(* the clustering jobs it queues, and the promotion of a listing to a      *)
(* variant of its own under the advisory lock of its identity.             *)
(*                                                                         *)
(* The cluster_status of a listing is the cursor of the sweep: a batch is  *)
(* the head of the backlog, and what stays unclustered is parked so that   *)
(* the next batch has another head.                                        *)
(*                                                                         *)
(* The lock and the look-up under it compare the brand, the family that a  *)
(* new variant is filed in is found without it: a variant may stand under  *)
(* another brand than the listing that it was made for.                    *)
(***************************************************************************)
EXTENDS Naturals, FiniteSets, FiniteSetsExt

CONSTANTS
    Rows,          \* the listings are 1..Rows, in the order of the backlog
    Bottles,       \* what canonicalIdentityKey tells apart beside the brand
    Brands,        \* values of brand_id, no brand being one of them
    TitlesOf,      \* bottle -> the family names of its listings, each
                   \* standing for the category and the producer as well
    FirstIdentity, \* the identity each listing is collected with
    Batch,         \* limit of a sweep
    Variants,      \* ids of canonical variants
    Nothing,
    MaxUpsets      \* bound: re-extractions that change a listing, retry times
                   \* that come and failures of a job, together

ASSUME SweepAssumption ==
    /\ Rows \in Nat
    /\ FirstIdentity \in [1..Rows -> [bottle : Bottles, brand : Brands]]
    /\ Batch \in Nat \ {0}
    /\ Nothing \notin Variants \cup 1..Rows
    /\ MaxUpsets \in Nat

VARIABLES
    identity,      \* the identity fields of each listing
    cluster,       \* source_listings.cluster_status
    parked,        \* listings whose cluster_retry_at is in the future
    familyRows,    \* product_families
    variantOf,     \* canonical variant -> the identity it is stored under and
                   \* the one it was asked for; Nothing while unused
    link,          \* verified match_relations: listing -> variant
    jobState,      \* the job cluster:<listing> in the queue
    at,            \* where its processor is
    seen,          \* the identity promoteListingToVariant has read
    draft,         \* the family its promotion has chosen, then its variant
    lock,          \* identity -> the listing whose promotion holds its lock
    upsets

sweepVars == <<identity, cluster, parked, familyRows, variantOf, link, jobState, at,
               seen, draft, lock, upsets>>

Unplaced == 1..Rows

Identities == [bottle : Bottles, brand : Brands]

Families == [title : UNION {TitlesOf[b] : b \in Bottles}, brand : Brands]

SweepInit ==
    /\ identity = FirstIdentity
    /\ cluster = [l \in Unplaced |-> "unclustered"]
    /\ parked = {}
    /\ familyRows = {}
    /\ variantOf = [v \in Variants |-> Nothing]
    /\ link = [l \in Unplaced |-> Nothing]
    /\ jobState = [l \in Unplaced |-> "none"]
    /\ at = [l \in Unplaced |-> "idle"]
    /\ seen = [l \in Unplaced |-> Nothing]
    /\ draft = [l \in Unplaced |-> Nothing]
    /\ lock = [i \in Identities |-> Nothing]
    /\ upsets = 0

(* The view cluster_sweep_backlog; the shops are active.                   *)
Backlog ==
    {l \in Unplaced :
        cluster[l] = "unclustered" /\ l \notin parked /\ link[l] = Nothing}

Batched(S) == {l \in S : Cardinality({k \in S : k < l}) < Batch}

Queued(S) == [l \in Unplaced |->
                 IF l \in S /\ jobState[l] = "none" THEN "waiting" ELSE jobState[l]]

(* The scheduler starts a sweep while there is a backlog.                  *)
Sweep ==
    /\ Backlog # {}
    /\ jobState' = Queued(Batched(Backlog))
    /\ UNCHANGED <<identity, cluster, parked, familyRows, variantOf, link, at,
                   seen, draft, lock, upsets>>

-----------------------------------------------------------------------------

Begin(l) ==
    /\ jobState[l] = "waiting"
    /\ jobState' = [jobState EXCEPT ![l] = "active"]
    /\ at' = [at EXCEPT ![l] = "first"]
    /\ cluster' = [cluster EXCEPT ![l] = "searching"]
    /\ UNCHANGED <<identity, parked, familyRows, variantOf, link, seen, draft,
                   lock, upsets>>

(* What evaluateListingForClustering writes, whatever the engine decided,  *)
(* and where the job goes on: a listing without a variant is promoted      *)
(* after the first evaluation, and only after the first.                   *)
Evaluated(l, label) ==
    /\ at[l] \in {"first", "second"}
    /\ cluster' = [cluster EXCEPT ![l] = label]
    /\ UNCHANGED <<identity, parked, familyRows, variantOf, jobState, seen,
                   draft, lock, upsets>>

FindNoVariant(l) ==
    /\ \E label \in {"unclustered", "rejected_all"} : Evaluated(l, label)
    /\ at' = [at EXCEPT ![l] = IF at[l] = "first" THEN "promote" ELSE "park"]
    /\ UNCHANGED link

FindWeak(l) ==
    /\ variantOf # [v \in Variants |-> Nothing]
    /\ \E label \in {"unclustered", "needs_review"} : Evaluated(l, label)
    /\ at' = [at EXCEPT ![l] = "park"]
    /\ UNCHANGED link

FindVariant(l) ==
    /\ \E v \in Variants :
          /\ variantOf[v] # Nothing
          /\ link' = [link EXCEPT ![l] = v]
    /\ Evaluated(l, "clustered")
    /\ at' = [at EXCEPT ![l] = "park"]

(* promoteListingToVariant: the listing is read, then the lock of the      *)
(* identity that was read is awaited, for 15 seconds at most.              *)
ReadListing(l) ==
    /\ at[l] = "promote"
    /\ seen' = [seen EXCEPT ![l] = identity[l]]
    /\ at' = [at EXCEPT ![l] = "waitlock"]
    /\ UNCHANGED <<identity, cluster, parked, familyRows, variantOf, link,
                   jobState, draft, lock, upsets>>

(* Mutant: the promotion does not wait for the lock.                       *)
TakeLockAlways(l) ==
    /\ at[l] = "waitlock"
    /\ lock' = [lock EXCEPT ![seen[l]] = l]
    /\ at' = [at EXCEPT ![l] = "locked"]
    /\ UNCHANGED <<identity, cluster, parked, familyRows, variantOf, link,
                   jobState, seen, draft, upsets>>

TakeLock(l) ==
    /\ at[l] = "waitlock"
    /\ lock[seen[l]] = Nothing
    /\ lock' = [lock EXCEPT ![seen[l]] = l]
    /\ at' = [at EXCEPT ![l] = "locked"]
    /\ UNCHANGED <<identity, cluster, parked, familyRows, variantOf, link,
                   jobState, seen, draft, upsets>>

GiveUpLock(l) ==
    /\ at[l] = "waitlock"
    /\ lock[seen[l]] # Nothing
    /\ at' = [at EXCEPT ![l] = "park"]
    /\ UNCHANGED <<identity, cluster, parked, familyRows, variantOf, link,
                   jobState, seen, draft, lock, upsets>>

Existing(i) ==
    {v \in Variants : variantOf[v] # Nothing /\ variantOf[v].stored = i}

(* Inside the lock: the variant of this identity is looked for, and the    *)
(* machine does not bind the listing to one it finds: unless the listing   *)
(* has its relation already, it is evaluated once more.                    *)
LookForVariant(l) ==
    /\ at[l] = "locked"
    /\ IF Existing(seen[l]) = {}
       THEN at' = [at EXCEPT ![l] = "create"] /\ UNCHANGED lock
       ELSE /\ at' = [at EXCEPT ![l] = IF link[l] \in Existing(seen[l])
                                       THEN "park" ELSE "second"]
            /\ lock' = [lock EXCEPT ![seen[l]] = Nothing]
    /\ UNCHANGED <<identity, cluster, parked, familyRows, variantOf, link,
                   jobState, seen, draft, upsets>>

(* The family of this name is taken, whatever its brand is.                *)
FindFamily(l) ==
    /\ at[l] = "create"
    /\ \E title \in TitlesOf[seen[l].bottle] :
          LET found == {f \in familyRows : f.title = title}
          IN  \/ /\ \E f \in found : draft' = [draft EXCEPT ![l] = f]
                 /\ at' = [at EXCEPT ![l] = "insert"]
              \/ /\ found = {}
                 /\ draft' = [draft EXCEPT ![l] =
                                [title |-> title, brand |-> seen[l].brand]]
                 /\ at' = [at EXCEPT ![l] = "family"]
    /\ UNCHANGED <<identity, cluster, parked, familyRows, variantOf, link, jobState,
                   seen, lock, upsets>>

(* The other half of the same statement: what others insert meanwhile, it  *)
(* does not see.                                                           *)
InsertFamily(l) ==
    /\ at[l] = "family"
    /\ familyRows' = familyRows \cup {draft[l]}
    /\ at' = [at EXCEPT ![l] = "insert"]
    /\ UNCHANGED <<identity, cluster, parked, variantOf, link, jobState, seen,
                   draft, lock, upsets>>

(* A new id; the variant is proposed, and the unique index is on the       *)
(* active ones alone.                                                      *)
CreateVariant(l) ==
    /\ at[l] = "insert"
    /\ \E v \in Variants : variantOf[v] = Nothing
    /\ LET v == CHOOSE w \in Variants : variantOf[w] = Nothing
       IN  /\ variantOf' = [variantOf EXCEPT ![v] =
                 [stored |-> [bottle |-> seen[l].bottle, brand |-> draft[l].brand],
                  asked |-> seen[l]]]
           /\ draft' = [draft EXCEPT ![l] = v]
    /\ at' = [at EXCEPT ![l] = "link"]
    /\ UNCHANGED <<identity, cluster, parked, familyRows, link, jobState, seen, lock,
                   upsets>>

(* linkListingToVariant, with the variant just made.                       *)
LinkListing(l) ==
    /\ at[l] = "link"
    /\ link' = [link EXCEPT ![l] = draft[l]]
    /\ at' = [at EXCEPT ![l] = "label"]
    /\ UNCHANGED <<identity, cluster, parked, familyRows, variantOf, jobState, seen,
                   draft, lock, upsets>>

LabelListing(l) ==
    /\ at[l] = "label"
    /\ cluster' = [cluster EXCEPT ![l] = "clustered"]
    /\ lock' = [lock EXCEPT ![seen[l]] = Nothing]
    /\ at' = [at EXCEPT ![l] = "park"]
    /\ UNCHANGED <<identity, parked, familyRows, variantOf, link, jobState,
                   seen, draft, upsets>>

(* Mutant: what stays unclustered is not parked.                           *)
ParkNothing(l) ==
    /\ at[l] = "park"
    /\ jobState' = [jobState EXCEPT ![l] = "none"]
    /\ at' = [at EXCEPT ![l] = "idle"]
    /\ seen' = [seen EXCEPT ![l] = Nothing]
    /\ draft' = [draft EXCEPT ![l] = Nothing]
    /\ UNCHANGED <<identity, cluster, parked, familyRows, variantOf, link, lock,
                   upsets>>

(* parkIfStillUnclustered, the last thing the job does.                    *)
Park(l) ==
    /\ at[l] = "park"
    /\ parked' = IF cluster[l] = "unclustered" THEN parked \cup {l} ELSE parked
    /\ jobState' = [jobState EXCEPT ![l] = "none"]
    /\ at' = [at EXCEPT ![l] = "idle"]
    /\ seen' = [seen EXCEPT ![l] = Nothing]
    /\ draft' = [draft EXCEPT ![l] = Nothing]
    /\ UNCHANGED <<identity, cluster, familyRows, variantOf, link, lock,
                   upsets>>

(* The job dies where it is, and its session's lock with it; the queue     *)
(* tries it again, or has no attempt left.                                 *)
FailJob(l) ==
    /\ at[l] # "idle"
    /\ upsets < MaxUpsets
    /\ upsets' = upsets + 1
    /\ \E next \in {"waiting", "none"} : jobState' = [jobState EXCEPT ![l] = next]
    /\ lock' = [i \in Identities |-> IF lock[i] = l THEN Nothing ELSE lock[i]]
    /\ at' = [at EXCEPT ![l] = "idle"]
    /\ seen' = [seen EXCEPT ![l] = Nothing]
    /\ draft' = [draft EXCEPT ![l] = Nothing]
    /\ UNCHANGED <<identity, cluster, parked, familyRows, variantOf, link>>

-----------------------------------------------------------------------------

(* applyWineIdentity: another identity, another chance; then the job of    *)
(* the re-extraction, which the running one absorbs.                       *)
Reidentify(l) ==
    /\ upsets < MaxUpsets
    /\ upsets' = upsets + 1
    /\ \E i \in Identities \ {identity[l]} : identity' = [identity EXCEPT ![l] = i]
    /\ cluster' = [cluster EXCEPT ![l] = IF @ = "clustered" THEN @ ELSE "unclustered"]
    /\ parked' = parked \ {l}
    /\ jobState' = Queued({l})
    /\ UNCHANGED <<familyRows, variantOf, link, at, seen, draft, lock>>

RetryDue(l) ==
    /\ l \in parked
    /\ upsets < MaxUpsets
    /\ upsets' = upsets + 1
    /\ parked' = parked \ {l}
    /\ UNCHANGED <<identity, cluster, familyRows, variantOf, link, jobState, at,
                   seen, draft, lock>>

JobStep(l) ==
    \/ Begin(l) \/ FindNoVariant(l) \/ FindWeak(l) \/ FindVariant(l)
    \/ ReadListing(l) \/ TakeLock(l) \/ GiveUpLock(l) \/ LookForVariant(l)
    \/ FindFamily(l) \/ InsertFamily(l) \/ CreateVariant(l) \/ LinkListing(l)
    \/ LabelListing(l) \/ Park(l)

SweepNext ==
    \/ Sweep
    \/ \E l \in Unplaced : JobStep(l) \/ FailJob(l) \/ Reidentify(l) \/ RetryDue(l)

SweepSpec == SweepInit /\ [][SweepNext]_sweepVars

(* The scheduler ticks and the workers take the jobs that wait.            *)
SweepFairness == WF_sweepVars(Sweep) /\ \A l \in Unplaced : WF_sweepVars(JobStep(l))

FairSweepSpec == SweepSpec /\ SweepFairness

-----------------------------------------------------------------------------

SweepTypeOK ==
    /\ identity \in [Unplaced -> Identities]
    /\ cluster \in [Unplaced -> {"unclustered", "searching", "clustered",
                                 "needs_review", "rejected_all"}]
    /\ parked \subseteq Unplaced
    /\ familyRows \subseteq Families
    /\ variantOf \in [Variants -> [stored : Identities, asked : Identities]
                                      \cup {Nothing}]
    /\ link \in [Unplaced -> Variants \cup {Nothing}]
    /\ jobState \in [Unplaced -> {"none", "waiting", "active"}]
    /\ at \in [Unplaced -> {"idle", "first", "second", "promote", "waitlock",
                            "locked", "create", "family", "insert", "link",
                            "label", "park"}]
    /\ seen \in [Unplaced -> Identities \cup {Nothing}]
    /\ draft \in [Unplaced -> Families \cup Variants \cup {Nothing}]
    /\ lock \in [Identities -> Unplaced \cup {Nothing}]
    /\ upsets \in 0..MaxUpsets

(* A variant that stands under the identity it was asked for.              *)
Kept(v) == variantOf[v] # Nothing /\ variantOf[v].stored = variantOf[v].asked

(* Listings of one wine that are promoted at the same time, while          *)
(* re-extraction changes what they are and jobs die with the lock held,    *)
(* never make two variants that both stand under the identity they were    *)
(* asked for.  It is the most the code promises: a variant filed in a      *)
(* family of another brand is not found under its own, and the next        *)
(* listing of the wine makes another.                                      *)
OneVariantPerIdentity ==
    \A v, w \in Variants :
        Kept(v) /\ Kept(w) /\ variantOf[v].stored = variantOf[w].stored => v = w

(* No listing starves behind the head of the backlog: whatever the engine  *)
(* keeps answering for the others, one that waits is evaluated, and leaves *)
(* the backlog.                                                            *)
NoListingStarves ==
    \A l \in Unplaced : l \in Backlog ~> l \notin Backlog

=============================================================================
