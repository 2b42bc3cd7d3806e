----------------------------- MODULE Migrations -----------------------------
(***************************************************************************)
(* The migrations of the database, run by every instance of the program    *)
(* that starts (migrate): under a session lock, each file in a transaction *)
(* of its own that also records it.  Instances of two releases may start   *)
(* together, wait for the lock at most as long as a statement may take,    *)
(* fail on a file, die at any point and start again.                       *)
(***************************************************************************)
EXTENDS Naturals, Sequences, SequencesExt

CONSTANTS
    Instances,
    Files,        \* instance -> how many migration files its release ships
    MaxStarts,    \* bound: starts of one instance
    Nobody

ASSUME MigrationsAssumption ==
    /\ Files \in [Instances -> Nat]
    /\ MaxStarts \in Nat
    /\ Nobody \notin Instances

VARIABLES
    stage,      \* where the start of each instance is
    next,       \* the file it looks at
    known,      \* what it has read of schema_migrations
    starts,
    migrator,   \* the session that holds the lock
    effects     \* the files whose transaction has committed, in order

migrationVars == <<stage, next, known, starts, migrator, effects>>

MigrationInit ==
    /\ stage = [i \in Instances |-> "down"]
    /\ next = [i \in Instances |-> 1]
    /\ known = [i \in Instances |-> {}]
    /\ starts = [i \in Instances |-> 0]
    /\ migrator = Nobody
    /\ effects = <<>>

Recorded == ToSet(effects)

Boot(i) ==
    /\ stage[i] \in {"down", "failed"}
    /\ starts[i] < MaxStarts
    /\ starts' = [starts EXCEPT ![i] = @ + 1]
    /\ stage' = [stage EXCEPT ![i] = "waiting"]
    /\ UNCHANGED <<next, known, migrator, effects>>

(* Mutant: no lock is taken.                                               *)
GetLockAlways(i) ==
    /\ stage[i] = "waiting"
    /\ migrator' = i
    /\ stage' = [stage EXCEPT ![i] = "locked"]
    /\ UNCHANGED <<next, known, starts, effects>>

GetLock(i) ==
    /\ stage[i] = "waiting"
    /\ migrator = Nobody
    /\ migrator' = i
    /\ stage' = [stage EXCEPT ![i] = "locked"]
    /\ UNCHANGED <<next, known, starts, effects>>

(* The rows of schema_migrations, read once.                               *)
ReadApplied(i) ==
    /\ stage[i] = "locked"
    /\ known' = [known EXCEPT ![i] = Recorded]
    /\ next' = [next EXCEPT ![i] = 1]
    /\ stage' = [stage EXCEPT ![i] = "applying"]
    /\ UNCHANGED <<starts, migrator, effects>>

(* A file that is recorded is passed over, whatever its checksum.          *)
SkipFile(i) ==
    /\ stage[i] = "applying"
    /\ next[i] <= Files[i] /\ next[i] \in known[i]
    /\ next' = [next EXCEPT ![i] = @ + 1]
    /\ UNCHANGED <<stage, known, starts, migrator, effects>>

(* BEGIN, the file, INSERT, COMMIT; id is the primary key of the table.    *)
ApplyFile(i) ==
    /\ stage[i] = "applying"
    /\ next[i] <= Files[i] /\ next[i] \notin known[i]
    /\ IF next[i] \in Recorded
       THEN stage' = [stage EXCEPT ![i] = "conflict"] /\ UNCHANGED <<next, effects>>
       ELSE /\ effects' = Append(effects, next[i])
            /\ next' = [next EXCEPT ![i] = @ + 1]
            /\ UNCHANGED stage
    /\ UNCHANGED <<known, starts, migrator>>

LockReleased(i) == migrator' = IF migrator = i THEN Nobody ELSE migrator

FinishMigrations(i) ==
    /\ stage[i] = "applying"
    /\ next[i] > Files[i]
    /\ stage' = [stage EXCEPT ![i] = "up"]
    /\ LockReleased(i)
    /\ UNCHANGED <<next, known, starts, effects>>

(* A file fails and is rolled back, or the wait for the lock times out:    *)
(* the error leaves migrate and the process exits.                         *)
MigrationFails(i) ==
    /\ \/ stage[i] = "applying" /\ next[i] <= Files[i] /\ next[i] \notin known[i]
       \/ stage[i] = "waiting" /\ migrator # Nobody
    /\ stage' = [stage EXCEPT ![i] = "failed"]
    /\ LockReleased(i)
    /\ UNCHANGED <<next, known, starts, effects>>

(* The process dies, and the lock of its session with it.                  *)
InstanceDies(i) ==
    /\ stage[i] \in {"waiting", "locked", "applying"}
    /\ stage' = [stage EXCEPT ![i] = "down"]
    /\ LockReleased(i)
    /\ UNCHANGED <<next, known, starts, effects>>

MigrationStep(i) ==
    \/ Boot(i) \/ GetLock(i) \/ ReadApplied(i) \/ SkipFile(i) \/ ApplyFile(i)
    \/ FinishMigrations(i) \/ MigrationFails(i) \/ InstanceDies(i)

MigrationNext == \E i \in Instances : MigrationStep(i)

MigrationSpec == MigrationInit /\ [][MigrationNext]_migrationVars

-----------------------------------------------------------------------------

MigrationTypeOK ==
    /\ stage \in [Instances -> {"down", "waiting", "locked", "applying", "up",
                                "failed", "conflict"}]
    /\ next \in [Instances -> Nat] /\ known \in [Instances -> SUBSET Nat]
    /\ \A i \in Instances : next[i] \in 1..Files[i] + 1
    /\ starts \in [Instances -> 0..MaxStarts]
    /\ migrator \in Instances \cup {Nobody}
    /\ effects \in Seq(Nat)

(* However starts, failures and deaths of instances of both releases       *)
(* overlap, the files take effect once each and in their order, no         *)
(* instance trips over a file another one has applied, and an instance     *)
(* that is up has the whole of its schema.                                 *)
MigratedOnceInOrder ==
    /\ effects = [k \in 1..Len(effects) |-> k]
    /\ \A i \in Instances :
          /\ stage[i] # "conflict"
          /\ stage[i] = "up" => 1..Files[i] \subseteq Recorded
=============================================================================
