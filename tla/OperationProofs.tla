-------------------------- MODULE OperationProofs --------------------------
(***************************************************************************)
(* Proofs for what runs the market: Migrations, Settings, Alerts,          *)
(* ImportBatch, DecisionLog and JobLedger, for any values of their         *)
(* constants.  Each component has a section of its own: what is inductive  *)
(* beside its property, and the theorem.                                   *)
(***************************************************************************)
EXTENDS Migrations, Settings, Alerts, ImportBatch, DecisionLog, JobLedger,
        FiniteSetTheorems, SequenceTheorems, WellFoundedInduction, TLAPS

(* A set of natural numbers that has a member has a least one, and a       *)
(* bounded one has a greatest.  Each is shown on the member with the       *)
(* fewest below or above it: a smallest set of a family of finite sets.    *)
LEMMA HasLeast ==
    ASSUME NEW T \in SUBSET Nat, T # {}
    PROVE  \E m \in T : \A n \in T : m <= n
<1> DEFINE Below(x) == {y \in T : y < x}
           F == {Below(x) : x \in T}
<1>1. \A x \in T : Below(x) \in FiniteSubsetsOf(Nat)
  <2> SUFFICES ASSUME NEW x \in T PROVE Below(x) \in FiniteSubsetsOf(Nat) OBVIOUS
  <2>0. x \in Nat OBVIOUS
  <2>1. Below(x) \subseteq 0..x
    <3>1. \A y \in T : y < x => y \in 0..x BY <2>0
    <3> QED BY <3>1
  <2>2. IsFiniteSet(0..x) BY <2>0, FS_Interval
  <2>3. IsFiniteSet(Below(x)) BY <2>1, <2>2, FS_Subset
  <2> QED BY <2>1, <2>3 DEF FiniteSubsetsOf
<1>2. F \subseteq FiniteSubsetsOf(Nat) /\ F # {}
  BY <1>1
<1>3. PICK x \in F : \A y \in F : ~ (<<y, x>> \in StrictSubsetOrdering(Nat))
  BY <1>2, FS_StrictSubsetOrderingWellFounded, WFMin
<1>4. PICK m \in T : x = Below(m) OBVIOUS
<1>5. ASSUME NEW n \in T, n < m PROVE FALSE
  <2>1. m \in Nat /\ n \in Nat OBVIOUS
  <2>2. Below(n) \subseteq Below(m) /\ n \in Below(m) /\ n \notin Below(n)
    <3>1. \A k \in T : \A y : y \in Below(k) <=> y \in T /\ y < k OBVIOUS
    <3>2. \A y \in T : y < n => y < m BY <1>5, <2>1
    <3>3. ~(n < n) BY <2>1
    <3> HIDE DEF Below
    <3> QED BY <1>5, <3>1, <3>2, <3>3
  <2>3. Below(n) \in SUBSET Nat /\ Below(m) \in SUBSET Nat OBVIOUS
  <2>4. <<Below(n), Below(m)>> \in StrictSubsetOrdering(Nat)
    <3> HIDE DEF Below
    <3> QED BY <2>2, <2>3 DEF StrictSubsetOrdering
  <2>5. Below(n) \in F OBVIOUS
  <2> QED BY <1>3, <1>4, <2>4, <2>5
<1>6. \A n \in T : m <= n
  <2>1. \A n \in T : n \in Nat /\ m \in Nat OBVIOUS
  <2> QED BY <1>5, <2>1
<1> QED BY <1>6

LEMMA BoundedHasGreatest ==
    ASSUME NEW N \in Nat, NEW T \in SUBSET (0..N), T # {}
    PROVE  \E m \in T : \A n \in T : n <= m
<1> DEFINE Above(x) == {y \in T : y > x}
           F == {Above(x) : x \in T}
<1>1. \A x \in T : Above(x) \in FiniteSubsetsOf(0..N)
  <2> SUFFICES ASSUME NEW x \in T PROVE Above(x) \in FiniteSubsetsOf(0..N) OBVIOUS
  <2>1. Above(x) \subseteq 0..N OBVIOUS
  <2>2. IsFiniteSet(0..N) BY FS_Interval
  <2>3. IsFiniteSet(Above(x)) BY <2>1, <2>2, FS_Subset
  <2> QED BY <2>1, <2>3 DEF FiniteSubsetsOf
<1>2. F \subseteq FiniteSubsetsOf(0..N) /\ F # {}
  BY <1>1
<1>3. PICK x \in F : \A y \in F : ~ (<<y, x>> \in StrictSubsetOrdering(0..N))
  BY <1>2, FS_StrictSubsetOrderingWellFounded, WFMin
<1>4. PICK m \in T : x = Above(m) OBVIOUS
<1>5. ASSUME NEW n \in T, n > m PROVE FALSE
  <2>1. T \subseteq Int /\ m \in Int /\ n \in Int OBVIOUS
  <2>2. Above(n) \subseteq Above(m) /\ n \in Above(m) /\ n \notin Above(n)
    <3>1. \A k \in T : \A y : y \in Above(k) <=> y \in T /\ y > k OBVIOUS
    <3>2. \A y \in T : y > n => y > m BY <1>5, <2>1
    <3>3. ~(n > n) BY <2>1
    <3> HIDE DEF Above
    <3> QED BY <1>5, <3>1, <3>2, <3>3
  <2>3. Above(n) \in SUBSET (0..N) /\ Above(m) \in SUBSET (0..N) OBVIOUS
  <2>4. <<Above(n), Above(m)>> \in StrictSubsetOrdering(0..N)
    <3> HIDE DEF Above
    <3> QED BY <2>2, <2>3 DEF StrictSubsetOrdering
  <2>5. Above(n) \in F OBVIOUS
  <2> QED BY <1>3, <1>4, <2>4, <2>5
<1>6. \A n \in T : n <= m
  <2>1. \A n \in T : n \in Int /\ m \in Int OBVIOUS
  <2> QED BY <1>5, <2>1
<1> QED BY <1>6

-----------------------------------------------------------------------------
Exclusive == \A i \in Instances : stage[i] \in {"locked", "applying"} => migrator = i

Informed == \A i \in Instances : stage[i] = "applying" =>
    /\ known[i] \subseteq Recorded
    /\ Recorded \subseteq known[i] \cup 1..next[i] - 1
    /\ next[i] - 1 <= Len(effects)

MigrationInv == MigrationTypeOK /\ Exclusive /\ Informed /\ MigratedOnceInOrder

-----------------------------------------------------------------------------
(* What is recorded while the files have taken effect in their order.      *)
LEMMA RecordedUpTo ==
    ASSUME effects \in Seq(Nat), effects = [k \in 1..Len(effects) |-> k]
    PROVE  Recorded = 1..Len(effects)
<1>1. DOMAIN effects = 1..Len(effects)
    OBVIOUS
<1>2. \A k \in 1..Len(effects) : effects[k] = k
    OBVIOUS
<1> QED
    BY <1>1, <1>2 DEF Recorded, ToSet

(* The next file of a release, appended to the files before it.            *)
LEMMA NextInOrder ==
    ASSUME effects \in Seq(Nat), effects = [k \in 1..Len(effects) |-> k],
           effects' = Append(effects, Len(effects) + 1)
    PROVE  /\ effects' \in Seq(Nat)
           /\ Len(effects') = Len(effects) + 1
           /\ effects' = [k \in 1..Len(effects') |-> k]
           /\ Recorded' = 1..Len(effects) + 1
<1>1. effects' \in Seq(Nat) /\ Len(effects') = Len(effects) + 1
    OBVIOUS
<1>2. \A k \in 1..Len(effects') : effects'[k] = k
  <2> TAKE k \in 1..Len(effects')
  <2>1. CASE k \in 1..Len(effects)
    <3>1. effects'[k] = effects[k]
        BY <2>1
    <3>2. effects[k] = k
        BY <2>1
    <3> QED
        BY <3>1, <3>2
  <2>2. CASE k = Len(effects) + 1
      BY <2>2
  <2> QED
      BY <2>1, <2>2, <1>1
<1>3. effects' = [k \in 1..Len(effects') |-> k]
    BY <1>1, <1>2
<1>4. DOMAIN effects' = 1..Len(effects')
    BY <1>1
<1>5. Recorded' = 1..Len(effects')
    BY <1>2, <1>4 DEF Recorded, ToSet
<1> QED
    BY <1>1, <1>3, <1>5

-----------------------------------------------------------------------------
LEMMA InitMigrationInv ==
    ASSUME MigrationInit
    PROVE  MigrationInv
<1>1. effects \in Seq(Nat) /\ Len(effects) = 0
    BY DEF MigrationInit
<1>2. effects = [k \in 1..Len(effects) |-> k]
    BY <1>1
<1>3. MigrationTypeOK
    BY <1>1, MigrationsAssumption DEF MigrationInit, MigrationTypeOK
<1> QED
    BY <1>2, <1>3 DEF MigrationInit, MigrationInv, Exclusive, Informed, MigratedOnceInOrder

(* Of a transaction that commits, only that of the holder, at the first    *)
(* file that nobody has applied.                                           *)
LEMMA ApplyKeeps ==
    ASSUME MigrationInv, NEW i \in Instances, ApplyFile(i)
    PROVE  MigrationInv'
<1> USE MigrationsAssumption
<1> DEFINE n == Len(effects)
<1>1. effects \in Seq(Nat) /\ effects = [k \in 1..n |-> k] /\ n \in Nat
    BY DEF MigrationInv, MigrationTypeOK, MigratedOnceInOrder
<1>2. Recorded = 1..n
    BY <1>1, RecordedUpTo
<1>3. stage[i] = "applying" /\ next[i] \in Nat /\ next[i] >= 1
    BY DEF ApplyFile, MigrationInv, MigrationTypeOK
<1>4. next[i] = n + 1
    BY <1>1, <1>2, <1>3 DEF ApplyFile, MigrationInv, Informed
<1>5. next[i] \notin Recorded
    BY <1>1, <1>2, <1>4
<1>6. /\ effects' = Append(effects, n + 1)
      /\ next' = [next EXCEPT ![i] = @ + 1]
      /\ UNCHANGED <<stage, known, starts, migrator>>
    BY <1>4, <1>5 DEF ApplyFile
<1>7. /\ effects' \in Seq(Nat) /\ Len(effects') = n + 1
      /\ effects' = [k \in 1..Len(effects') |-> k]
      /\ Recorded' = 1..n + 1
    BY <1>1, <1>6, NextInOrder
<1>8. next'[i] = n + 2 /\ \A j \in Instances : j # i => next'[j] = next[j]
    BY <1>1, <1>4, <1>6 DEF MigrationInv, MigrationTypeOK
<1>9. MigrationTypeOK'
  <2>1. n + 1 <= Files[i]
      BY <1>4 DEF ApplyFile
  <2>2. next' \in [Instances -> Nat]
      BY <1>1, <1>6, <1>4 DEF MigrationInv, MigrationTypeOK
  <2>3. \A j \in Instances : next'[j] \in 1..Files[j] + 1
      BY <1>1, <1>6, <1>8, <2>1 DEF MigrationInv, MigrationTypeOK
  <2> QED
      BY <1>6, <1>7, <2>2, <2>3 DEF MigrationInv, MigrationTypeOK
<1>10. Exclusive'
    BY <1>6 DEF MigrationInv, Exclusive
<1>11. Informed'
  <2> SUFFICES ASSUME NEW j \in Instances, stage'[j] = "applying"
               PROVE  /\ known'[j] \subseteq Recorded'
                      /\ Recorded' \subseteq known'[j] \cup 1..next'[j] - 1
                      /\ next'[j] - 1 <= Len(effects')
      BY DEF Informed
  <2>1. j = i
      BY <1>3, <1>6 DEF MigrationInv, Exclusive
  <2>2. known'[i] \subseteq 1..n
      BY <1>2, <1>3, <1>6 DEF MigrationInv, Informed
  <2> QED
      BY <2>1, <2>2, <1>1, <1>7, <1>8
<1>12. MigratedOnceInOrder'
  <2> SUFFICES ASSUME NEW j \in Instances
               PROVE  /\ stage'[j] # "conflict"
                      /\ stage'[j] = "up" => 1..Files[j] \subseteq Recorded'
      BY <1>7 DEF MigratedOnceInOrder
  <2> QED
      BY <1>1, <1>2, <1>6, <1>7 DEF MigrationInv, MigratedOnceInOrder
<1> QED
    BY <1>9, <1>10, <1>11, <1>12 DEF MigrationInv

(* No other step changes what has taken effect.                            *)
LEMMA OthersKeep ==
    ASSUME MigrationInv, NEW i \in Instances,
           \/ Boot(i) \/ GetLock(i) \/ ReadApplied(i) \/ SkipFile(i)
           \/ FinishMigrations(i) \/ MigrationFails(i) \/ InstanceDies(i)
    PROVE  MigrationInv'
<1> USE MigrationsAssumption DEF MigrationInv
<1>1. /\ effects \in Seq(Nat) /\ Len(effects) \in Nat
      /\ Recorded = 1..Len(effects)
    BY RecordedUpTo DEF MigrationTypeOK, MigratedOnceInOrder
<1>2. CASE Boot(i)
  <2>1. MigrationTypeOK'
      BY <1>2 DEF Boot, MigrationTypeOK
  <2> QED
      BY <1>2, <2>1 DEF Boot, MigrationTypeOK, Exclusive, Informed, MigratedOnceInOrder,
                        Recorded
<1>3. CASE GetLock(i)
  <2>1. MigrationTypeOK'
      BY <1>3 DEF GetLock, MigrationTypeOK
  <2>2. \A j \in Instances : stage[j] \notin {"locked", "applying"}
      BY <1>3 DEF GetLock, Exclusive
  <2> QED
      BY <1>3, <2>1, <2>2 DEF GetLock, MigrationTypeOK, Exclusive, Informed,
                              MigratedOnceInOrder, Recorded
<1>4. CASE ReadApplied(i)
  <2>1. MigrationTypeOK'
      BY <1>1, <1>4 DEF ReadApplied, MigrationTypeOK
  <2>2. stage' = [stage EXCEPT ![i] = "applying"] /\ Recorded' = Recorded
      BY <1>4 DEF ReadApplied, Recorded
  <2>3. known'[i] = Recorded /\ next'[i] = 1
      BY <1>4 DEF ReadApplied, MigrationTypeOK
  <2>4. \A j \in Instances : j # i =>
           known'[j] = known[j] /\ next'[j] = next[j] /\ stage'[j] = stage[j]
      BY <1>4 DEF ReadApplied, MigrationTypeOK
  <2>5. Informed'
      BY <1>1, <1>4, <2>2, <2>3, <2>4 DEF ReadApplied, Informed
  <2> QED
      BY <1>4, <2>1, <2>5 DEF ReadApplied, MigrationTypeOK, Exclusive,
                              MigratedOnceInOrder, Recorded
<1>5. CASE SkipFile(i)
  <2>1. MigrationTypeOK'
      BY <1>5 DEF SkipFile, MigrationTypeOK
  <2>2. next[i] \in 1..Len(effects)
      BY <1>1, <1>5 DEF SkipFile, Informed
  <2>3. Recorded' = Recorded /\ known' = known /\ stage' = stage
      BY <1>5 DEF SkipFile, Recorded
  <2>4. next'[i] = next[i] + 1 /\ \A j \in Instances : j # i => next'[j] = next[j]
      BY <1>5 DEF SkipFile, MigrationTypeOK
  <2>5. next[i] \in known[i] /\ next[i] \in Nat
      BY <1>5 DEF SkipFile, MigrationTypeOK
  <2>6. Informed'
      BY <1>1, <1>5, <2>2, <2>3, <2>4, <2>5 DEF SkipFile, Informed
  <2> QED
      BY <1>5, <2>1, <2>6 DEF SkipFile, MigrationTypeOK, Exclusive, MigratedOnceInOrder,
                              Recorded
<1>6. CASE FinishMigrations(i)
  <2>1. MigrationTypeOK'
      BY <1>6 DEF FinishMigrations, LockReleased, MigrationTypeOK
  <2>2. 1..Files[i] \subseteq Recorded
      BY <1>1, <1>6 DEF FinishMigrations, MigrationTypeOK, Informed
  <2>3. \A j \in Instances : j # i => stage[j] \notin {"locked", "applying"}
      BY <1>6 DEF FinishMigrations, Exclusive
  <2> QED
      BY <1>6, <2>1, <2>2, <2>3 DEF FinishMigrations, MigrationTypeOK, Exclusive, Informed,
                                    MigratedOnceInOrder, Recorded
<1>7. CASE MigrationFails(i)
  <2>1. MigrationTypeOK'
      BY <1>7 DEF MigrationFails, LockReleased, MigrationTypeOK
  <2> QED
      BY <1>7, <2>1 DEF MigrationFails, LockReleased, MigrationTypeOK, Exclusive, Informed,
                        MigratedOnceInOrder, Recorded
<1>8. CASE InstanceDies(i)
  <2>1. MigrationTypeOK'
      BY <1>8 DEF InstanceDies, LockReleased, MigrationTypeOK
  <2> QED
      BY <1>8, <2>1 DEF InstanceDies, LockReleased, MigrationTypeOK, Exclusive, Informed,
                        MigratedOnceInOrder, Recorded
<1> QED
    BY <1>2, <1>3, <1>4, <1>5, <1>6, <1>7, <1>8

LEMMA NextMigrationInv ==
    ASSUME MigrationInv, [MigrationNext]_migrationVars
    PROVE  MigrationInv'
<1>1. CASE MigrationNext
    BY <1>1, ApplyKeeps, OthersKeep DEF MigrationNext, MigrationStep
<1>2. CASE UNCHANGED migrationVars
    BY <1>2 DEF migrationVars, MigrationInv, MigrationTypeOK, Exclusive, Informed,
                MigratedOnceInOrder, Recorded
<1> QED
    BY <1>1, <1>2

(* However starts, failures and deaths of any number of instances overlap  *)
(* (migrate), the files take effect once each, in their order, and before  *)
(* an instance is up.                                                      *)
THEOREM MigratedInOrder == MigrationSpec => [](MigrationTypeOK /\ MigratedOnceInOrder)
<1>1. MigrationInv => MigrationTypeOK /\ MigratedOnceInOrder
    BY DEF MigrationInv
<1> QED
    BY <1>1, InitMigrationInv, NextMigrationInv, PTL DEF MigrationSpec

-----------------------------------------------------------------------------
(* Settings.  ServedWasInForce is inductive with how long ago what a load  *)
(* has read and what a copy holds was in force when the load began and     *)
(* when the copy was stored.                                               *)
Settled == Plain \cup {"setting"}

(* The version of the taxonomy is taken from a copy that may be late.      *)
Late(c, k) == IF c = "apiTaxonomy" /\ k = "setting" /\ "apiSettings" \in Copies
              THEN Ttl["apiSettings"] - 1 + LoadTime ELSE 0

(* v was in force of k at t, or not more than d before it.                 *)
Held(k, v, t, d) == v \in DOMAIN lastIn[k] /\ t <= lastIn[k][v] + d

HistoryOK ==
    /\ tick \in Nat \ {0} /\ DOMAIN lastIn = Settled
    /\ \A k \in Settled : \A v \in DOMAIN lastIn[k] : lastIn[k][v] \in Nat /\ lastIn[k][v] <= tick
    /\ \A k \in Settled : InForce(k) \in DOMAIN lastIn[k] /\ lastIn[k][InForce(k)] = tick

OneActive ==
    /\ versions \in Seq(BOOLEAN)
    /\ \A v, w \in DOMAIN versions : versions[v] /\ versions[w] => v = w

RowsOK ==
    /\ plain \in [Plain -> Nat \ {0}]
    /\ edit \in [Admins -> [at : {"idle", "deactivate", "insert"}, from : Nat]]

LoadRow(c, l) ==
    /\ l = [began |-> l.began, got |-> l.got] /\ l.began \in Nat
    /\ DOMAIN l.got \subseteq Keys(c)
    /\ l.began # 0 => /\ l.began <= tick /\ tick <= l.began + LoadTime
                      /\ \A k \in DOMAIN l.got : Held(k, l.got[k], l.began, Late(c, k))

CopyRow(c, r) ==
    /\ r = [at |-> r.at, got |-> r.got] /\ r.at \in Nat
    /\ r # Empty => /\ DOMAIN r.got = Keys(c) /\ r.at <= tick
                    /\ \A k \in Keys(c) : Held(k, r.got[k], r.at, LoadTime + Late(c, k))

Loading ==
    /\ DOMAIN load = Copies
    /\ \A c \in Copies : DOMAIN load[c] = Loaders
    /\ \A c \in Copies, i \in Loaders : LoadRow(c, load[c][i])

Served == DOMAIN copy = Copies /\ \A c \in Copies : CopyRow(c, copy[c])

SettingsInv == HistoryOK /\ OneActive /\ RowsOK /\ Loading /\ Served

LEMMA Lateness ==
    ASSUME NEW c \in Copies, NEW k
    PROVE  /\ Ttl[c] \in Nat \ {0} /\ LoadTime \in Nat /\ Late(c, k) \in Nat
           /\ Lag(c, k) = Ttl[c] - 1 + LoadTime + Late(c, k)
           /\ Keys(c) \subseteq Settled
<1>1. Ttl[c] \in Nat \ {0} /\ LoadTime \in Nat
  BY SettingsAssumption
<1>2. "apiSettings" \in Copies => Ttl["apiSettings"] \in Nat \ {0}
  BY SettingsAssumption
<1> QED BY <1>1, <1>2 DEF Late, Lag, Keys, Settled, Plain

LEMMA ServedInTime == SettingsInv => ServedWasInForce
<1> SUFFICES ASSUME SettingsInv, NEW c \in Copies, InTime(c), NEW k \in Keys(c)
             PROVE  tick - lastIn[k][copy[c].got[k]] <= Lag(c, k)
  BY DEF ServedWasInForce
<1>1. CopyRow(c, copy[c]) /\ copy[c] # Empty /\ tick - copy[c].at < Ttl[c]
  BY DEF SettingsInv, Served, InTime
<1>2. /\ copy[c].at \in Nat /\ copy[c].at <= tick /\ tick \in Nat
      /\ Held(k, copy[c].got[k], copy[c].at, LoadTime + Late(c, k))
  BY <1>1 DEF CopyRow, SettingsInv, HistoryOK
<1>3. lastIn[k][copy[c].got[k]] \in Nat
  BY <1>2, Lateness DEF Held, SettingsInv, HistoryOK
<1> QED BY <1>1, <1>2, <1>3, Lateness DEF Held

LEMMA ServedTypes == SettingsInv => SettingsTypeOK
<1> SUFFICES ASSUME SettingsInv PROVE SettingsTypeOK
  OBVIOUS
<1> DEFINE on == {v \in DOMAIN versions : versions[v]}
<1>1. Cardinality(on) <= 1
  <2>1. CASE on = {}
    BY <2>1, FS_EmptySet
  <2>2. CASE on # {}
    <3>1. PICK v \in on : TRUE
      BY <2>2
    <3>2. on = {v}
      BY <3>1 DEF SettingsInv, OneActive
    <3> QED BY <3>2, FS_Singleton
  <2> QED BY <2>1, <2>2
<1>2. \A c \in Copies : copy[c] # Empty => DOMAIN copy[c].got = Keys(c)
  BY DEF SettingsInv, Served, CopyRow
<1>3. \A c \in Copies, i \in Loaders : DOMAIN load[c][i].got \subseteq Keys(c)
  BY DEF SettingsInv, Loading, LoadRow
<1> QED BY <1>1, <1>2, <1>3 DEF SettingsInv, RowsOK, SettingsTypeOK

LEMMA SettingsStart == SettingsInit => SettingsInv
<1> SUFFICES ASSUME SettingsInit PROVE SettingsInv
  OBVIOUS
<1>1. versions \in Seq(BOOLEAN) /\ DOMAIN versions = {1} /\ versions[1] = TRUE
  BY DEF SettingsInit
<1>2. OneActive /\ ActiveVersion(versions) = 1
  BY <1>1 DEF OneActive, ActiveVersion
<1>3. HistoryOK
  BY <1>2 DEF SettingsInit, HistoryOK, Settled, InForce, Plain
<1>4. RowsOK
  BY DEF SettingsInit, RowsOK, NotEditing
<1>5. Loading
  BY DEF SettingsInit, Loading, LoadRow, NotLoading
<1>6. Served
  BY DEF SettingsInit, Served, CopyRow, Empty
<1> QED BY <1>2, <1>3, <1>4, <1>5, <1>6 DEF SettingsInv

(* What has been in force, whatever the copies do.                         *)
Remembers ==
    /\ HistoryOK' /\ tick <= tick'
    /\ \A k \in Settled : \A v \in DOMAIN lastIn[k] :
          v \in DOMAIN lastIn'[k] /\ lastIn[k][v] <= lastIn'[k][v]

LEMMA ComesRemembers ==
    ASSUME HistoryOK, NEW k \in Settled, NEW v, Comes(k, v), UNCHANGED tick,
           InForce(k)' = v, \A j \in Settled \ {k} : InForce(j)' = InForce(j)
    PROVE  Remembers
<1>1. /\ DOMAIN lastIn' = Settled
      /\ \A j \in Settled \ {k} : lastIn'[j] = lastIn[j]
      /\ lastIn'[k] = [w \in DOMAIN lastIn[k] \cup {v} |-> IF w = v THEN tick ELSE lastIn[k][w]]
  BY DEF HistoryOK, Comes
<1> QED BY <1>1 DEF HistoryOK, Remembers

LEMMA HistoryKept ==
    ASSUME HistoryOK, UNCHANGED <<versions, plain, tick, lastIn>>
    PROVE  Remembers
<1>1. \A k \in Settled : InForce(k)' = InForce(k)
  BY DEF InForce
<1> QED BY <1>1 DEF HistoryOK, Remembers

LEMMA Remembered ==
    ASSUME HistoryOK, Remembers, NEW k \in Settled, NEW v, NEW t \in Nat, NEW d \in Nat,
           Held(k, v, t, d)
    PROVE  Held(k, v, t, d)'
BY DEF Held, HistoryOK, Remembers

LEMMA CopyRowKept ==
    ASSUME HistoryOK, Remembers, NEW c \in Copies, NEW r, CopyRow(c, r)
    PROVE  CopyRow(c, r)'
<1>1. CASE r = Empty
  BY <1>1 DEF CopyRow
<1>2. CASE r # Empty
  <2>1. r.at <= tick'
    BY <1>2 DEF CopyRow, HistoryOK, Remembers
  <2>2. ASSUME NEW k \in Keys(c) PROVE Held(k, r.got[k], r.at, LoadTime + Late(c, k))'
    <3>1. Held(k, r.got[k], r.at, LoadTime + Late(c, k)) /\ r.at \in Nat
      BY <1>2, <2>2 DEF CopyRow
    <3>2. k \in Settled /\ LoadTime + Late(c, k) \in Nat
      BY <2>2, Lateness
    <3> QED BY <3>1, <3>2, Remembered
  <2> QED BY <1>2, <2>1, <2>2 DEF CopyRow
<1> QED BY <1>1, <1>2

LEMMA LoadRowKept ==
    ASSUME HistoryOK, Remembers, NEW c \in Copies, NEW l, LoadRow(c, l),
           l.began # 0 => tick' <= l.began + LoadTime
    PROVE  LoadRow(c, l)'
<1>1. CASE l.began = 0
  BY <1>1 DEF LoadRow
<1>2. CASE l.began # 0
  <2>1. l.began <= tick'
    BY <1>2 DEF LoadRow, HistoryOK, Remembers
  <2>2. ASSUME NEW k \in DOMAIN l.got PROVE Held(k, l.got[k], l.began, Late(c, k))'
    <3>1. Held(k, l.got[k], l.began, Late(c, k)) /\ l.began \in Nat
      BY <1>2, <2>2 DEF LoadRow
    <3>2. k \in Settled /\ Late(c, k) \in Nat
      BY <2>2, Lateness DEF LoadRow
    <3> QED BY <3>1, <3>2, Remembered
  <2> QED BY <1>2, <2>1, <2>2 DEF LoadRow
<1> QED BY <1>1, <1>2

(* The copies and the loads of a step that leaves them, or some, alone.    *)
LEMMA CopiesKept ==
    ASSUME SettingsInv, Remembers, DOMAIN copy' = Copies,
           \A c \in Copies : copy'[c] = copy[c] \/ copy'[c] = Empty \/ CopyRow(c, copy[c])'
    PROVE  Served'
<1>1. \A c \in Copies : CopyRow(c, Empty)'
  BY DEF CopyRow, Empty
<1>2. ASSUME NEW c \in Copies, copy'[c] = copy[c] PROVE CopyRow(c, copy[c])'
  <2>1. PICK r : r = copy[c]
    OBVIOUS
  <2>2. CopyRow(c, r)
    BY <2>1 DEF SettingsInv, Served
  <2>3. CopyRow(c, r)'
    BY <2>2, CopyRowKept DEF SettingsInv
  <2> QED BY <1>2, <2>1, <2>3
<1> QED BY <1>1, <1>2 DEF Served

LEMMA LoadsKept ==
    ASSUME SettingsInv, Remembers, UNCHANGED load,
           tick' = tick \/ \A c \in Copies, i \in Loaders :
                               load[c][i].began # 0 => tick' <= load[c][i].began + LoadTime
    PROVE  Loading'
<1>1. ASSUME NEW c \in Copies, NEW i \in Loaders PROVE LoadRow(c, load[c][i])'
  <2>1. LoadRow(c, load[c][i])
    BY DEF SettingsInv, Loading
  <2>2. load[c][i].began # 0 => tick' <= load[c][i].began + LoadTime
    BY <2>1 DEF LoadRow
  <2> QED BY <2>1, <2>2, LoadRowKept DEF SettingsInv
<1> QED BY <1>1 DEF SettingsInv, Loading

LEMMA OneLoadChanges ==
    ASSUME SettingsInv, Remembers, UNCHANGED tick, NEW c \in Copies, NEW i \in Loaders,
           NEW l, load' = [load EXCEPT ![c][i] = l], LoadRow(c, l)'
    PROVE  Loading'
<1>1. /\ DOMAIN load' = Copies /\ \A d \in Copies : DOMAIN load'[d] = Loaders
      /\ \A d \in Copies, j \in Loaders :
            load'[d][j] = IF d = c /\ j = i THEN l ELSE load[d][j]
  BY DEF SettingsInv, Loading
<1>2. ASSUME NEW d \in Copies, NEW j \in Loaders PROVE LoadRow(d, load[d][j])'
  <2>1. LoadRow(d, load[d][j])
    BY DEF SettingsInv, Loading
  <2>2. load[d][j].began # 0 => tick' <= load[d][j].began + LoadTime
    BY <2>1 DEF LoadRow
  <2> QED BY <2>1, <2>2, LoadRowKept DEF SettingsInv
<1> QED BY <1>1, <1>2 DEF Loading

LEMMA EditKeeps ==
    ASSUME SettingsInv, NEW a \in Admins,
           ReadActive(a) \/ Deactivate(a) \/ InsertVersion(a) \/ EditFails(a)
    PROVE  SettingsInv'
<1>1. CASE ReadActive(a) \/ EditFails(a)
  <2>1. UNCHANGED <<versions, plain, copy, load, tick, lastIn>>
    BY <1>1 DEF ReadActive, EditFails, tableVars, copyVars
  <2>2. Remembers
    BY <2>1, HistoryKept DEF SettingsInv
  <2>3. Loading' /\ Served'
    BY <2>1, <2>2, LoadsKept, CopiesKept DEF SettingsInv, Served
  <2>4. ActiveVersion(versions) \in Nat
    BY DEF ActiveVersion, SettingsInv, OneActive
  <2>5. edit' \in [Admins -> [at : {"idle", "deactivate", "insert"}, from : Nat]]
    BY <1>1, <2>4 DEF ReadActive, EditFails, SettingsInv, RowsOK, NotEditing
  <2> QED BY <2>1, <2>2, <2>3, <2>5 DEF SettingsInv, OneActive, RowsOK, Remembers
<1>2. CASE Deactivate(a)
  <2>1. UNCHANGED <<plain, copy, load, tick>> /\ Comes("setting", 0)
    BY <1>2 DEF Deactivate, copyVars
  <2>2. versions' \in Seq(BOOLEAN) /\ \A v \in DOMAIN versions' : versions'[v] = FALSE
    <3>1. DOMAIN versions = 1..Len(versions) /\ Len(versions) \in Nat
      BY DEF SettingsInv, OneActive
    <3>2. versions' = [v \in 1..Len(versions) |-> FALSE]
      BY <1>2, <3>1 DEF Deactivate
    <3> QED BY <3>1, <3>2
  <2>3. OneActive' /\ ActiveVersion(versions') = 0
    BY <2>2 DEF OneActive, ActiveVersion
  <2>4. Remembers
    <3>1. "setting" \in Settled /\ InForce("setting")' = 0
      BY <2>3 DEF InForce, Settled
    <3>2. \A j \in Settled \ {"setting"} : InForce(j)' = InForce(j)
      BY <2>1 DEF InForce
    <3> QED BY <2>1, <3>1, <3>2, ComesRemembers DEF SettingsInv
  <2>5. Loading' /\ Served'
    BY <2>1, <2>4, LoadsKept, CopiesKept DEF SettingsInv, Served
  <2>6. RowsOK'
    BY <1>2 DEF Deactivate, SettingsInv, RowsOK
  <2> QED BY <2>3, <2>4, <2>5, <2>6 DEF SettingsInv, Remembers
<1>3. CASE InsertVersion(a)
  <2>1. UNCHANGED <<plain, load, tick>> /\ edit' = [edit EXCEPT ![a] = NotEditing]
    BY <1>3 DEF InsertVersion
  <2>2. RowsOK'
    BY <2>1 DEF SettingsInv, RowsOK, NotEditing
  <2>3. CASE Len(versions) = edit[a].from /\ ActiveVersion(versions) = 0
    <3> DEFINE n == Len(versions) + 1
    <3>1. /\ versions' = Append(versions, TRUE) /\ Comes("setting", n)
          /\ copy' = [c \in Copies |-> IF c = "apiSettings" THEN Empty ELSE copy[c]]
      BY <1>3, <2>3 DEF InsertVersion
    <3>2. \A v \in DOMAIN versions : versions[v] = FALSE
      <4>1. \A v \in DOMAIN versions : v # 0 /\ versions[v] \in BOOLEAN
        BY DEF SettingsInv, OneActive
      <4> QED BY <2>3, <4>1 DEF ActiveVersion
    <3>3. /\ versions' \in Seq(BOOLEAN) /\ n \in DOMAIN versions' /\ versions'[n] = TRUE
          /\ \A v \in DOMAIN versions' : v # n => versions'[v] = FALSE
      <4>1. versions \in Seq(BOOLEAN) /\ DOMAIN versions = 1..Len(versions) /\ Len(versions) \in Nat
        BY DEF SettingsInv, OneActive
      <4> QED BY <3>1, <3>2, <4>1
    <3>4. OneActive' /\ ActiveVersion(versions') = n
      BY <3>3 DEF OneActive, ActiveVersion
    <3>5. Remembers
      <4>1. "setting" \in Settled /\ InForce("setting")' = n
        BY <3>4 DEF InForce, Settled
      <4>2. \A j \in Settled \ {"setting"} : InForce(j)' = InForce(j)
        BY <2>1 DEF InForce
      <4> QED BY <2>1, <3>1, <4>1, <4>2, ComesRemembers DEF SettingsInv
    <3>6. Loading' /\ Served'
      BY <2>1, <3>1, <3>5, LoadsKept, CopiesKept
    <3> QED BY <2>2, <3>4, <3>5, <3>6 DEF SettingsInv, Remembers
  <2>4. CASE ~(Len(versions) = edit[a].from /\ ActiveVersion(versions) = 0)
    <3>1. UNCHANGED <<versions, copy, lastIn>>
      BY <1>3, <2>4 DEF InsertVersion
    <3>2. Remembers
      BY <2>1, <3>1, HistoryKept DEF SettingsInv
    <3>3. Loading' /\ Served'
      BY <2>1, <3>1, <3>2, LoadsKept, CopiesKept DEF SettingsInv, Served
    <3> QED BY <2>2, <3>1, <3>2, <3>3 DEF SettingsInv, OneActive, Remembers
  <2> QED BY <2>3, <2>4
<1> QED BY <1>1, <1>2, <1>3

LEMMA OverwriteKeeps ==
    ASSUME SettingsInv, NEW k \in Plain, Overwrite(k) PROVE SettingsInv'
<1>1. /\ UNCHANGED <<versions, edit, load, tick>> /\ Comes(k, plain[k] + 1)
      /\ plain' = [plain EXCEPT ![k] = plain[k] + 1]
      /\ copy' = [c \in Copies |-> IF c \in Api /\ k \in Keys(c) THEN Empty ELSE copy[c]]
  BY DEF Overwrite
<1>2. k \in Settled /\ k # "setting" /\ plain'[k] = plain[k] + 1
      /\ \A j \in Plain \ {k} : plain'[j] = plain[j]
  BY <1>1 DEF SettingsInv, RowsOK, Plain, Settled
<1>3. Remembers
  <2>1. InForce(k)' = plain[k] + 1
    BY <1>2 DEF InForce
  <2>2. \A j \in Settled \ {k} : InForce(j)' = InForce(j)
    BY <1>1, <1>2 DEF InForce, Settled
  <2> QED BY <1>1, <1>2, <2>1, <2>2, ComesRemembers DEF SettingsInv
<1>4. Loading' /\ Served'
  BY <1>1, <1>3, LoadsKept, CopiesKept
<1>5. RowsOK'
  BY <1>1 DEF SettingsInv, RowsOK
<1> QED BY <1>1, <1>3, <1>4, <1>5 DEF SettingsInv, OneActive, Remembers

LEMMA LoadKeeps ==
    ASSUME SettingsInv, NEW c \in Copies, NEW i \in Loaders,
           \/ BeginLoad(c, i) \/ StoreCopy(c, i) \/ LoadFails(c, i)
           \/ \E k \in Keys(c) : ReadKey(c, i, k)
    PROVE  SettingsInv'
<1>1. UNCHANGED <<versions, plain, edit, tick, lastIn>>
  BY DEF BeginLoad, StoreCopy, LoadFails, ReadKey, tableVars
<1>2. Remembers
  BY <1>1, HistoryKept DEF SettingsInv
<1>3. LoadRow(c, load[c][i]) /\ tick \in Nat \ {0} /\ LoadTime \in Nat
  BY SettingsAssumption DEF SettingsInv, Loading, HistoryOK
<1>4. OneActive' /\ RowsOK' /\ HistoryOK'
  BY <1>1, <1>2 DEF SettingsInv, OneActive, RowsOK, Remembers
<1>5. ASSUME NEW l, LoadRow(c, l) PROVE LoadRow(c, l)'
  <2>1. l.began # 0 => tick' <= l.began + LoadTime
    BY <1>1, <1>5 DEF LoadRow
  <2> QED BY <1>2, <1>5, <2>1, LoadRowKept DEF SettingsInv
<1>6. LoadRow(c, NotLoading)
  BY DEF LoadRow, NotLoading
<1>7. CASE BeginLoad(c, i)
  <2>0. PICK l : l = [began |-> tick, got |-> <<>>]
    OBVIOUS
  <2>1. load' = [load EXCEPT ![c][i] = l] /\ UNCHANGED copy
    <3>1. load[c][i] = NotLoading /\ load' = [load EXCEPT ![c][i].began = tick] /\ UNCHANGED copy
      BY <1>7 DEF BeginLoad
    <3>2. [load[c][i] EXCEPT !.began = tick] = l
      BY <2>0, <3>1 DEF NotLoading
    <3> QED BY <3>1, <3>2 DEF SettingsInv, Loading
  <2>2. LoadRow(c, l)
    BY <1>3, <2>0 DEF LoadRow
  <2>3. Loading'
    BY <1>1, <1>2, <1>5, <2>1, <2>2, OneLoadChanges
  <2>4. Served'
    BY <1>2, <2>1, CopiesKept DEF SettingsInv, Served
  <2> QED BY <1>4, <2>3, <2>4 DEF SettingsInv
<1>8. CASE LoadFails(c, i)
  <2>1. load' = [load EXCEPT ![c][i] = NotLoading] /\ UNCHANGED copy
    BY <1>8 DEF LoadFails
  <2>2. Loading'
    BY <1>1, <1>2, <1>5, <1>6, <2>1, OneLoadChanges
  <2>3. Served'
    BY <1>2, <2>1, CopiesKept DEF SettingsInv, Served
  <2> QED BY <1>4, <2>2, <2>3 DEF SettingsInv
<1>9. CASE StoreCopy(c, i)
  <2>0. PICK r : r = [at |-> tick, got |-> load[c][i].got]
    OBVIOUS
  <2>1. /\ load[c][i].began # 0 /\ DOMAIN load[c][i].got = Keys(c)
        /\ load' = [load EXCEPT ![c][i] = NotLoading] /\ copy' = [copy EXCEPT ![c] = r]
    BY <1>9, <2>0 DEF StoreCopy
  <2>2. Loading'
    BY <1>1, <1>2, <1>5, <1>6, <2>1, OneLoadChanges
  <2>3. CopyRow(c, r)
    <3>1. ASSUME NEW k \in Keys(c) PROVE Held(k, r.got[k], r.at, LoadTime + Late(c, k))
      <4>1. Held(k, load[c][i].got[k], load[c][i].began, Late(c, k))
        BY <1>3, <2>1, <3>1 DEF LoadRow
      <4>2. load[c][i].began \in Nat /\ tick <= load[c][i].began + LoadTime
        BY <1>3, <2>1 DEF LoadRow
      <4>3. k \in Settled /\ Late(c, k) \in Nat
        BY <3>1, Lateness
      <4>4. lastIn[k][load[c][i].got[k]] \in Nat
        BY <4>1, <4>3 DEF Held, SettingsInv, HistoryOK
      <4> QED BY <1>3, <2>0, <4>1, <4>2, <4>3, <4>4 DEF Held
    <3> QED BY <1>3, <2>0, <2>1, <3>1 DEF CopyRow
  <2>4. CopyRow(c, r)'
    BY <1>2, <2>3, CopyRowKept DEF SettingsInv
  <2>5. Served'
    BY <1>2, <2>1, <2>4, CopiesKept DEF SettingsInv, Served
  <2> QED BY <1>4, <2>2, <2>5 DEF SettingsInv
<1>10. CASE \E k \in Keys(c) : ReadKey(c, i, k)
  <2>1. PICK k \in Keys(c) : ReadKey(c, i, k)
    BY <1>10
  <2> DEFINE byCopy == c = "apiTaxonomy" /\ k = "setting" /\ "apiSettings" \in Copies
             v == IF byCopy THEN copy["apiSettings"].got[k] ELSE InForce(k)
             was == load[c][i]
  <2>0. PICK l : l = [was EXCEPT !.got = [x \in DOMAIN was.got \cup {k} |-> IF x = k THEN v ELSE was.got[x]]]
    OBVIOUS
  <2>2. /\ was.began # 0 /\ k \notin DOMAIN was.got /\ (byCopy => InTime("apiSettings"))
        /\ load' = [load EXCEPT ![c][i] = l] /\ UNCHANGED copy
    BY <2>0, <2>1 DEF ReadKey, SettingsInv, Loading
  <2>3. k \in Settled /\ Late(c, k) \in Nat
    BY Lateness
  <2>4. Held(k, v, tick, Late(c, k))
    <3>1. CASE ~byCopy
      BY <1>3, <2>3, <3>1 DEF Held, SettingsInv, HistoryOK
    <3>2. CASE byCopy
      <4>1. k \in Keys("apiSettings") /\ "apiSettings" \in Copies
        BY <3>2 DEF Keys
      <4>2. tick - lastIn[k][v] <= Lag("apiSettings", k)
        BY <2>2, <3>2, <4>1, ServedInTime DEF ServedWasInForce
      <4>3. v \in DOMAIN lastIn[k]
        BY <2>2, <3>2, <4>1 DEF SettingsInv, Served, CopyRow, InTime, Held
      <4>4. Lag("apiSettings", k) = Ttl["apiSettings"] - 1 + LoadTime
        BY <4>1, SettingsAssumption DEF Lag
      <4>5. Late(c, k) = Ttl["apiSettings"] - 1 + LoadTime
        BY <3>2 DEF Late
      <4>6. lastIn[k][v] \in Nat
        BY <2>3, <4>3 DEF SettingsInv, HistoryOK
      <4> HIDE DEF v
      <4> QED BY <1>3, <2>3, <4>2, <4>3, <4>4, <4>5, <4>6 DEF Held
    <3> QED BY <3>1, <3>2
  <2> HIDE DEF v
  <2>5. l.began = was.began /\ l = [began |-> l.began, got |-> l.got]
        /\ l.got = [x \in DOMAIN was.got \cup {k} |-> IF x = k THEN v ELSE was.got[x]]
    BY <1>3, <2>0 DEF LoadRow
  <2>6. LoadRow(c, l)
    <3>1. was.began \in Nat /\ was.began <= tick /\ tick <= was.began + LoadTime
          /\ DOMAIN was.got \subseteq Keys(c)
      BY <1>3, <2>2 DEF LoadRow
    <3>2. ASSUME NEW x \in DOMAIN l.got PROVE Held(x, l.got[x], was.began, Late(c, x))
      <4>1. CASE x = k
        <5>1. lastIn[k][v] \in Nat
          BY <2>3, <2>4 DEF Held, SettingsInv, HistoryOK
        <5> QED BY <1>3, <2>3, <2>4, <2>5, <3>1, <4>1, <5>1 DEF Held
      <4>2. CASE x # k
        BY <1>3, <2>2, <2>5, <3>2, <4>2 DEF LoadRow
      <4> QED BY <4>1, <4>2
    <3> QED BY <2>5, <3>1, <3>2 DEF LoadRow
  <2>7. Loading'
    BY <1>1, <1>2, <1>5, <2>2, <2>6, OneLoadChanges
  <2>8. Served'
    BY <1>2, <2>2, CopiesKept DEF SettingsInv, Served
  <2> QED BY <1>4, <2>7, <2>8 DEF SettingsInv
<1> QED BY <1>7, <1>8, <1>9, <1>10

LEMMA TimeKeeps ==
    ASSUME SettingsInv, TimePasses PROVE SettingsInv'
<1>1. /\ UNCHANGED <<versions, plain, edit, copy, load>> /\ tick' = tick + 1
      /\ lastIn' = [k \in DOMAIN lastIn |-> [lastIn[k] EXCEPT ![InForce(k)] = tick + 1]]
  BY DEF TimePasses, tableVars, copyVars
<1>2. Remembers
  <2>1. \A k \in Settled : InForce(k)' = InForce(k)
    BY <1>1 DEF InForce
  <2>2. DOMAIN lastIn' = Settled /\ tick' \in Nat \ {0} /\ tick <= tick'
    BY <1>1 DEF SettingsInv, HistoryOK
  <2>3. ASSUME NEW k \in Settled
        PROVE  /\ DOMAIN lastIn'[k] = DOMAIN lastIn[k] /\ lastIn'[k][InForce(k)] = tick + 1
               /\ \A v \in DOMAIN lastIn[k] : v # InForce(k) => lastIn'[k][v] = lastIn[k][v]
    BY <1>1 DEF SettingsInv, HistoryOK
  <2>4. \A k \in Settled : \A v \in DOMAIN lastIn[k] : lastIn[k][v] \in Nat /\ lastIn[k][v] <= tick
    BY DEF SettingsInv, HistoryOK
  <2>5. \A k \in Settled : InForce(k) \in DOMAIN lastIn[k]
    BY DEF SettingsInv, HistoryOK
  <2>6. tick \in Nat
    BY DEF SettingsInv, HistoryOK
  <2> QED BY <1>1, <2>1, <2>2, <2>3, <2>4, <2>5, <2>6 DEF HistoryOK, Remembers
<1>3. Loading'
  <2>1. ASSUME NEW c \in Copies, NEW i \in Loaders, load[c][i].began # 0
        PROVE  tick' <= load[c][i].began + LoadTime
    <3>1. tick - load[c][i].began < LoadTime
      BY <2>1 DEF TimePasses
    <3>2. load[c][i].began \in Nat /\ tick \in Nat /\ LoadTime \in Nat
      BY SettingsAssumption DEF SettingsInv, Loading, LoadRow, HistoryOK
    <3> QED BY <1>1, <3>1, <3>2
  <2> QED BY <1>1, <1>2, <2>1, LoadsKept
<1>4. Served'
  BY <1>1, <1>2, CopiesKept DEF SettingsInv, Served
<1> QED BY <1>1, <1>2, <1>3, <1>4 DEF SettingsInv, OneActive, RowsOK, Remembers

(* Whatever changes, overlapping loads, late stores and failures there     *)
(* have been, what the API and the worker work by was in force not longer  *)
(* ago than the TTLs and the loads allow.                                  *)
THEOREM ServedAlwaysInForce == SettingsSpec => [](SettingsTypeOK /\ ServedWasInForce)
<1>1. SettingsInit => SettingsInv
  BY SettingsStart
<1>2. SettingsInv /\ [SettingsNext]_settingsVars => SettingsInv'
  <2> SUFFICES ASSUME SettingsInv, [SettingsNext]_settingsVars PROVE SettingsInv'
    OBVIOUS
  <2>1. CASE UNCHANGED settingsVars
    <3>1. UNCHANGED <<versions, plain, edit, copy, load, tick, lastIn>>
      BY <2>1 DEF settingsVars
    <3>2. Remembers
      BY <3>1, HistoryKept DEF SettingsInv
    <3>3. Loading' /\ Served'
      BY <3>1, <3>2, LoadsKept, CopiesKept DEF SettingsInv, Served
    <3> QED BY <3>1, <3>2, <3>3 DEF SettingsInv, OneActive, RowsOK, Remembers
  <2> QED BY <2>1, EditKeeps, OverwriteKeeps, LoadKeeps, TimeKeeps DEF SettingsNext
<1>3. SettingsInv => SettingsTypeOK /\ ServedWasInForce
  BY ServedInTime, ServedTypes
<1> QED BY <1>1, <1>2, <1>3, PTL DEF SettingsSpec

-----------------------------------------------------------------------------
(* Alerts.  AlertsAreDelivered is inductive with how often a row has been  *)
(* told that is not marked yet: once for every fault, or once more when it *)
(* is just about to be marked.                                             *)
AlertLevels == UNION {LevelsOf[key] : key \in AlertKeys}
AlertRow == [key : AlertKeys, level : AlertLevels, resolved : BOOLEAN, dispatched : BOOLEAN]

AlertRows ==
    /\ alerts \in Seq(AlertRow) /\ received \in Seq(Nat) /\ Len(received) = Len(alerts)
    /\ alertFaults \in Nat
    /\ dispatch \in [at : {"idle", "post", "mark"}, send : SUBSET (DOMAIN alerts)]
    /\ dispatch.at = "idle" => dispatch = NotDispatching

RowTold(i) ==
    /\ alerts[i].dispatched => received[i] > 0
    /\ received[i] <= 1 + alertFaults
    /\ ~alerts[i].dispatched => \/ received[i] <= alertFaults
                                \/ dispatch.at = "mark" /\ i \in dispatch.send
    /\ dispatch.at = "post" /\ i \in dispatch.send => ~alerts[i].dispatched
    /\ dispatch.at = "mark" /\ i \in dispatch.send => received[i] > 0

Telling == webhook => \A i \in DOMAIN alerts : RowTold(i)

AlertInv == AlertRows /\ Telling

LEMMA ToSendPending == \A i \in ToSend : i \in DOMAIN alerts /\ ~alerts[i].dispatched
BY DEF ToSend, AllPending, PendingAlert

LEMMA RowChanges ==
    ASSUME NEW row \in AlertRow
    PROVE  /\ row.dispatched \in BOOLEAN
           /\ [row EXCEPT !.resolved = TRUE] \in AlertRow
           /\ [row EXCEPT !.resolved = TRUE].dispatched = row.dispatched
           /\ [row EXCEPT !.dispatched = TRUE] \in AlertRow
           /\ [row EXCEPT !.dispatched = TRUE].dispatched = TRUE
BY DEF AlertRow

LEMMA AlertStart == AlertsInit => AlertInv
<1> SUFFICES ASSUME AlertsInit PROVE AlertInv
  OBVIOUS
<1>1. DOMAIN alerts = {} /\ alerts \in Seq(AlertRow) /\ received \in Seq(Nat)
  BY DEF AlertsInit
<1>2. NotDispatching \in [at : {"idle", "post", "mark"}, send : SUBSET (DOMAIN alerts)]
  BY DEF NotDispatching
<1> QED BY <1>1, <1>2 DEF AlertsInit, AlertInv, AlertRows, Telling, RowTold

LEMMA RaiseTells ==
    ASSUME AlertInv, NEW key \in AlertKeys, NEW level \in LevelsOf[key], raiseAlert(key, level)
    PROVE  AlertInv'
<1>0. UNCHANGED <<webhook, dispatch, alertFaults>>
  BY DEF raiseAlert
<1>1. CASE UNCHANGED <<alerts, received>>
  BY <1>0, <1>1 DEF AlertInv, AlertRows, Telling, RowTold
<1>2. CASE ~UNCHANGED <<alerts, received>>
  <2> DEFINE row == [key |-> key, level |-> level, resolved |-> FALSE, dispatched |-> FALSE]
  <2>1. alerts' = Append(alerts, row) /\ received' = Append(received, 0)
    BY <1>2 DEF raiseAlert
  <2>2. row \in AlertRow /\ row.dispatched = FALSE
    <3>1. level \in AlertLevels
      BY DEF AlertLevels
    <3> QED BY <3>1 DEF AlertRow
  <2> HIDE DEF row
  <2>3. alerts \in Seq(AlertRow) /\ received \in Seq(Nat) /\ Len(received) = Len(alerts)
        /\ Len(alerts) \in Nat /\ DOMAIN alerts = 1..Len(alerts)
    BY DEF AlertInv, AlertRows
  <2>4. /\ alerts' \in Seq(AlertRow) /\ received' \in Seq(Nat) /\ Len(received') = Len(alerts')
        /\ DOMAIN alerts' = DOMAIN alerts \cup {Len(alerts) + 1}
        /\ \A i \in DOMAIN alerts : alerts'[i] = alerts[i] /\ received'[i] = received[i]
        /\ alerts'[Len(alerts) + 1].dispatched = FALSE /\ received'[Len(alerts) + 1] = 0
    BY <2>1, <2>2, <2>3
  <2>5. AlertRows'
    BY <1>0, <2>4 DEF AlertInv, AlertRows
  <2>6. Len(alerts) + 1 \notin dispatch.send
    BY <2>3 DEF AlertInv, AlertRows
  <2>7. Telling'
    <3> SUFFICES ASSUME webhook, NEW i \in DOMAIN alerts' PROVE RowTold(i)'
      BY <1>0 DEF Telling
    <3>1. CASE i \in DOMAIN alerts
      <4>1. RowTold(i)
        BY <3>1 DEF AlertInv, Telling
      <4> QED BY <1>0, <2>4, <3>1, <4>1 DEF RowTold
    <3>2. CASE i = Len(alerts) + 1
      BY <1>0, <2>4, <2>6, <3>2 DEF AlertInv, AlertRows, RowTold
    <3> QED BY <2>4, <3>1, <3>2
  <2> QED BY <2>5, <2>7 DEF AlertInv
<1> QED BY <1>1, <1>2

LEMMA ResolveTells ==
    ASSUME AlertInv, NEW i \in DOMAIN alerts, ResolveAlert(i) PROVE AlertInv'
<1>1. UNCHANGED <<webhook, dispatch, received, alertFaults>>
      /\ alerts' = [alerts EXCEPT ![i].resolved = TRUE]
  BY DEF ResolveAlert
<1>2. /\ alerts' \in Seq(AlertRow) /\ Len(alerts') = Len(alerts) /\ DOMAIN alerts' = DOMAIN alerts
      /\ \A j \in DOMAIN alerts : alerts'[j].dispatched = alerts[j].dispatched
  <2>1. alerts \in Seq(AlertRow)
    BY DEF AlertInv, AlertRows
  <2>2. [alerts[i] EXCEPT !.resolved = TRUE] \in AlertRow
        /\ [alerts[i] EXCEPT !.resolved = TRUE].dispatched = alerts[i].dispatched
    <3>1. alerts[i] \in AlertRow
      BY <2>1
    <3> QED BY <3>1, RowChanges
  <2>3. alerts' = [alerts EXCEPT ![i] = [alerts[i] EXCEPT !.resolved = TRUE]]
    BY <1>1, <2>1
  <2> QED BY <2>1, <2>2, <2>3
<1> QED BY <1>1, <1>2 DEF AlertInv, AlertRows, Telling, RowTold

LEMMA DispatchTells ==
    ASSUME AlertInv, ReadPending \/ Post \/ PostFails \/ MarkSent \/ DispatcherDies
    PROVE  AlertInv'
<1>0. /\ alerts \in Seq(AlertRow) /\ received \in Seq(Nat) /\ Len(received) = Len(alerts)
      /\ alertFaults \in Nat /\ DOMAIN received = DOMAIN alerts
      /\ dispatch \in [at : {"idle", "post", "mark"}, send : SUBSET (DOMAIN alerts)]
      /\ \A i \in DOMAIN alerts : received[i] \in Nat
  BY DEF AlertInv, AlertRows
<1>1. NotDispatching.at = "idle" /\ NotDispatching.send = {}
      /\ NotDispatching \in [at : {"idle", "post", "mark"}, send : SUBSET (DOMAIN alerts)]
  BY DEF NotDispatching
<1>2. ASSUME Told(dispatch.send)
      PROVE  /\ received' \in Seq(Nat) /\ Len(received') = Len(received)
             /\ \A i \in DOMAIN alerts :
                   received'[i] = IF i \in dispatch.send THEN received[i] + 1 ELSE received[i]
  BY <1>0, <1>2 DEF Told
<1>3. CASE ReadPending
  <2>1. UNCHANGED <<webhook, alerts, received, alertFaults>> /\ dispatch.at = "idle"
        /\ dispatch' = [at |-> IF webhook THEN "post" ELSE "mark", send |-> ToSend]
    BY <1>1, <1>3 DEF ReadPending
  <2>2. dispatch' \in [at : {"idle", "post", "mark"}, send : SUBSET (DOMAIN alerts')]
        /\ dispatch'.at # "idle" /\ (webhook => dispatch'.at = "post")
    BY <2>1, ToSendPending
  <2> QED BY <1>0, <2>1, <2>2, ToSendPending DEF AlertInv, AlertRows, Telling, RowTold
<1>4. CASE Post
  <2>1. UNCHANGED <<webhook, alerts, alertFaults>> /\ dispatch.at = "post"
        /\ dispatch' = [dispatch EXCEPT !.at = "mark"] /\ Told(dispatch.send)
    BY <1>4 DEF Post
  <2>2. dispatch' \in [at : {"idle", "post", "mark"}, send : SUBSET (DOMAIN alerts')]
        /\ dispatch'.at = "mark" /\ dispatch'.send = dispatch.send
    BY <1>0, <2>1
  <2>3. AlertRows'
    BY <1>0, <1>2, <2>1, <2>2 DEF AlertRows
  <2>4. Telling'
    <3> SUFFICES ASSUME webhook, NEW i \in DOMAIN alerts PROVE RowTold(i)'
      BY <2>1 DEF Telling
    <3>1. RowTold(i)
      BY DEF AlertInv, Telling
    <3> QED BY <1>0, <1>2, <2>1, <2>2, <3>1 DEF RowTold
  <2> QED BY <2>3, <2>4 DEF AlertInv
<1>5. CASE PostFails
  <2>1. UNCHANGED <<webhook, alerts>> /\ dispatch.at = "post" /\ alertFaults' = alertFaults + 1
        /\ dispatch' = NotDispatching /\ (Told(dispatch.send) \/ UNCHANGED received)
    BY <1>5 DEF PostFails
  <2>3. AlertRows'
    BY <1>0, <1>1, <1>2, <2>1 DEF AlertRows
  <2>4. Telling'
    <3> SUFFICES ASSUME webhook, NEW i \in DOMAIN alerts PROVE RowTold(i)'
      BY <2>1 DEF Telling
    <3>1. RowTold(i)
      BY DEF AlertInv, Telling
    <3>2. received'[i] = received[i] \/ (i \in dispatch.send /\ received'[i] = received[i] + 1)
      BY <1>2, <2>1
    <3> QED BY <1>0, <1>1, <2>1, <3>1, <3>2 DEF RowTold
  <2> QED BY <2>3, <2>4 DEF AlertInv
<1>6. CASE MarkSent
  <2>1. UNCHANGED <<webhook, received, alertFaults>> /\ dispatch.at = "mark"
        /\ dispatch' = NotDispatching /\ Mark(dispatch.send)
    BY <1>6 DEF MarkSent
  <2>2. /\ alerts' \in Seq(AlertRow) /\ Len(alerts') = Len(alerts) /\ DOMAIN alerts' = DOMAIN alerts
        /\ \A i \in DOMAIN alerts :
              alerts'[i].dispatched <=> (i \in dispatch.send \/ alerts[i].dispatched)
    <3>1. \A i \in DOMAIN alerts : /\ alerts[i] \in AlertRow
                                  /\ [alerts[i] EXCEPT !.dispatched = TRUE] \in AlertRow
                                  /\ [alerts[i] EXCEPT !.dispatched = TRUE].dispatched
                                  /\ alerts[i].dispatched \in BOOLEAN
      <4>1. \A i \in DOMAIN alerts : alerts[i] \in AlertRow
        BY <1>0
      <4> QED BY <4>1, RowChanges
    <3>2. DOMAIN alerts = 1..Len(alerts) /\ Len(alerts) \in Nat
      BY <1>0
    <3>3. alerts' = [i \in 1..Len(alerts) |->
             IF i \in dispatch.send THEN [alerts[i] EXCEPT !.dispatched = TRUE] ELSE alerts[i]]
      BY <2>1, <3>2 DEF Mark
    <3>4. alerts' \in Seq(AlertRow) /\ Len(alerts') = Len(alerts)
      BY <3>1, <3>2, <3>3
    <3> QED BY <3>1, <3>2, <3>3, <3>4
  <2>3. AlertRows'
    BY <1>0, <1>1, <2>1, <2>2 DEF AlertRows
  <2>4. Telling'
    <3> SUFFICES ASSUME webhook, NEW i \in DOMAIN alerts PROVE RowTold(i)'
      BY <2>1, <2>2 DEF Telling
    <3>1. RowTold(i)
      BY DEF AlertInv, Telling
    <3> QED BY <1>0, <1>1, <2>1, <2>2, <3>1 DEF RowTold
  <2> QED BY <2>3, <2>4 DEF AlertInv
<1>7. CASE DispatcherDies
  <2>1. UNCHANGED <<webhook, alerts, received>> /\ alertFaults' = alertFaults + 1
        /\ dispatch' = NotDispatching
    BY <1>7 DEF DispatcherDies
  <2> QED BY <1>0, <1>1, <2>1 DEF AlertInv, AlertRows, Telling, RowTold
<1> QED BY <1>3, <1>4, <1>5, <1>6, <1>7

(* Whatever is raised, resolved, refused or interrupted, and in whatever   *)
(* order: with a webhook a row is marked only when the webhook has been    *)
(* told of it, and told twice only where a fault made the answer unknown.  *)
THEOREM AlertsAlwaysDelivered == AlertsSpec => []AlertsAreDelivered
<1>1. AlertsInit => AlertInv
  BY AlertStart
<1>2. AlertInv /\ [AlertsNext]_alertVars => AlertInv'
  <2> SUFFICES ASSUME AlertInv, [AlertsNext]_alertVars PROVE AlertInv'
    OBVIOUS
  <2>1. CASE UNCHANGED alertVars
    BY <2>1 DEF alertVars, AlertInv, AlertRows, Telling, RowTold
  <2> QED BY <2>1, RaiseTells, ResolveTells, DispatchTells DEF AlertsNext
<1>3. AlertInv => AlertsAreDelivered
  BY DEF AlertInv, Telling, RowTold, AlertsAreDelivered
<1> QED BY <1>1, <1>2, <1>3, PTL DEF AlertsSpec

-----------------------------------------------------------------------------
(* Imports.  A request that finds no family of the name of its row writes  *)
(* one: what it has found may be out of date by then, so that a name has   *)
(* at most as many families as there are requests.  The index keeps the    *)
(* variants of each family apart.                                          *)
VariantRow == [family : Nat, key : {RowKey[r] : r \in ImportRows},
               look : {Likeness[r] : r \in ImportRows}, active : BOOLEAN]
RequestStages == {"idle", "store", "validate", "judge", "select", "start", "commit",
                  "insert", "cancel"}

ImportTyped ==
    /\ made \in [ImportRows -> Nat]
    /\ families \in Seq({FamilyName[r] : r \in ImportRows})
    /\ variants \in Seq(VariantRow)
    /\ request = [c \in Clients |-> request[c]]

(* One active variant of a family and a key.                               *)
CatalogueApart ==
    /\ \A i \in DOMAIN variants : variants[i].family \in DOMAIN families
    /\ \A i, j \in DOMAIN variants :
          /\ variants[i].active /\ variants[j].active
          /\ variants[i].family = variants[j].family /\ variants[i].key = variants[j].key
          => i = j

(* The requests about to write a family of the name of a row.              *)
Founders(r) == {c \in Clients : /\ request[c].at = "insert" /\ request[c].fam = 0
                                /\ FamilyName[First(request[c].todo)] = FamilyName[r]}

FewFamilies(r) ==
    Cardinality(FamiliesOf(r)) + Cardinality(Founders(r)) <= Cardinality(Clients)

RowInCatalogue(r) ==
    /\ made[r] # 0 => made[r] \in DOMAIN variants /\ IsOf(variants[made[r]], r)
    /\ r \in dupOf => LooksKnown(r)

RequestInOrder(c) ==
    LET q == request[c] IN
    /\ q.at \in RequestStages
    /\ q.at # "idle" => q.of \in Batches
    /\ q.at \in {"judge", "start", "commit", "insert"} => q.todo \subseteq ImportRows
    /\ q.at \in {"start", "commit", "insert"} => \A r \in q.took \ q.todo : InCatalogue(r)
    /\ q.at = "insert" =>
          /\ q.todo # {}
          /\ q.fam # 0 => q.fam \in FamiliesOf(First(q.todo))

ImportInv ==
    /\ ImportTyped /\ CatalogueApart
    /\ \A r \in ImportRows : RowInCatalogue(r) /\ FewFamilies(r)
    /\ \A r \in dupOf : LooksKnown(r)
    /\ \A c \in Clients : RequestInOrder(c)

(* Nothing is taken from the catalogue.                                    *)
CatalogueGrows ==
    /\ DOMAIN families \subseteq DOMAIN families'
    /\ \A i \in DOMAIN families : families'[i] = families[i]
    /\ DOMAIN variants \subseteq DOMAIN variants'
    /\ \A i \in DOMAIN variants : variants'[i] = variants[i]

-----------------------------------------------------------------------------
LEMMA RowsAreNumbers == ImportRows \in SUBSET Nat
BY ImportAssumption DEF ImportRows

LEMMA FirstIsOneOf ==
    ASSUME NEW T \in SUBSET ImportRows, T # {}
    PROVE  First(T) \in T
<1>1. T \in SUBSET Nat
  BY RowsAreNumbers
<1>2. \E m \in T : \A n \in T : m <= n
  BY <1>1, HasLeast
<1> QED BY <1>2 DEF First

LEMMA FamiliesAreFew ==
    ASSUME ImportTyped, NEW r
    PROVE  /\ IsFiniteSet(FamiliesOf(r)) /\ IsFiniteSet(Founders(r))
           /\ Cardinality(FamiliesOf(r)) \in Nat /\ Cardinality(Founders(r)) \in Nat
           /\ Cardinality(Clients) \in Nat
           /\ Cardinality(Founders(r)) <= Cardinality(Clients)
<1>1. IsFiniteSet(DOMAIN families)
  <2>1. DOMAIN families = 1..Len(families) /\ Len(families) \in Nat
    BY DEF ImportTyped
  <2> QED BY <2>1, FS_Interval
<1>2. IsFiniteSet(FamiliesOf(r))
  BY <1>1, FS_Subset DEF FamiliesOf
<1>3. Founders(r) \in SUBSET Clients
  BY DEF Founders
<1>4. IsFiniteSet(Clients)
  BY ImportAssumption
<1>5. IsFiniteSet(Founders(r)) /\ Cardinality(Founders(r)) <= Cardinality(Clients)
  BY <1>3, <1>4, FS_Subset
<1> QED BY <1>2, <1>4, <1>5, FS_CardinalityType

(* Where no request comes to write a family of the name, and none of the   *)
(* name is written, there are no more of them.                             *)
LEMMA FewerFounders ==
    ASSUME ImportTyped, NEW r, FewFamilies(r), families' = families,
           Founders(r)' \subseteq Founders(r)
    PROVE  FewFamilies(r)'
<1>1. FamiliesOf(r)' = FamiliesOf(r)
  BY DEF FamiliesOf
<1> PICK V : V = Founders(r)'
  OBVIOUS
<1>2. IsFiniteSet(V) /\ Cardinality(V) <= Cardinality(Founders(r))
  BY FamiliesAreFew, FS_Subset
<1>3. Cardinality(V) \in Nat
  BY <1>2, FS_CardinalityType
<1> PICK f, w, k : f = Cardinality(FamiliesOf(r)) /\ w = Cardinality(Founders(r))
                   /\ k = Cardinality(Clients)
  OBVIOUS
<1>4. f \in Nat /\ w \in Nat /\ k \in Nat /\ f + w <= k
  BY FamiliesAreFew DEF FewFamilies
<1>5. f + Cardinality(V) <= k
  BY <1>2, <1>3, <1>4
<1> QED BY <1>1, <1>5 DEF FewFamilies

LEMMA CatalogueKeeps ==
    ASSUME ImportInv, CatalogueGrows, NEW r
    PROVE  /\ InCatalogue(r) => InCatalogue(r)'
           /\ LooksKnown(r) => LooksKnown(r)'
           /\ FamiliesOf(r) \subseteq FamiliesOf(r)'
           /\ \A i \in DOMAIN variants :
                 IsOf(variants[i], r) => i \in DOMAIN variants' /\ IsOf(variants[i], r)'
<1>1. \A i \in DOMAIN variants : variants[i].family \in DOMAIN families
  BY DEF ImportInv, CatalogueApart
<1>2. \A i \in DOMAIN variants :
          IsOf(variants[i], r) => i \in DOMAIN variants' /\ IsOf(variants[i], r)'
  BY <1>1 DEF CatalogueGrows, IsOf
<1>3. LooksKnown(r) => LooksKnown(r)'
  BY DEF CatalogueGrows, LooksKnown
<1>4. FamiliesOf(r) \subseteq FamiliesOf(r)'
  BY DEF CatalogueGrows, FamiliesOf
<1>5. InCatalogue(r) => InCatalogue(r)'
  BY <1>2 DEF InCatalogue
<1> QED BY <1>2, <1>3, <1>4, <1>5

(* A step of one request leaves the others where they were.                *)
LEMMA OthersStay ==
    ASSUME ImportInv, CatalogueGrows, NEW c \in Clients, NEW q, Goes(c, q),
           RequestInOrder(c)'
    PROVE  \A d \in Clients : RequestInOrder(d)'
<1> SUFFICES ASSUME NEW d \in Clients, d # c PROVE RequestInOrder(d)'
  OBVIOUS
<1>1. request'[d] = request[d]
  BY DEF Goes
<1>2. RequestInOrder(d)
  BY DEF ImportInv
<1>3. \A r : (InCatalogue(r) => InCatalogue(r)') /\ FamiliesOf(r) \subseteq FamiliesOf(r)'
  BY CatalogueKeeps
<1> QED BY <1>1, <1>2, <1>3 DEF RequestInOrder

(* A step of a request that leaves the catalogue alone and is not about to *)
(* write a family.                                                         *)
LEMMA OnlyTheRequest ==
    ASSUME ImportInv, NEW c \in Clients, NEW q, Goes(c, q),
           UNCHANGED <<made, families, variants>>,
           \A r \in dupOf' : LooksKnown(r),
           q.at = "insert" => q.fam # 0,
           request'[c] = q => RequestInOrder(c)'
    PROVE  ImportInv'
<1>1. request' = [d \in Clients |-> request'[d]] /\ request'[c] = q
      /\ \A d \in Clients : d # c => request'[d] = request[d]
  BY DEF Goes, ImportInv, ImportTyped
<1>2. CatalogueGrows
  BY DEF CatalogueGrows
<1>3. \A d \in Clients : RequestInOrder(d)'
  BY <1>1, <1>2, OthersStay
<1>4. ImportTyped' /\ CatalogueApart'
  BY <1>1 DEF ImportInv, ImportTyped, CatalogueApart
<1>5. \A r : LooksKnown(r) => LooksKnown(r)'
  BY <1>2, CatalogueKeeps
<1>6. ASSUME NEW r \in ImportRows PROVE RowInCatalogue(r)' /\ FewFamilies(r)'
  <2>1. RowInCatalogue(r) /\ FewFamilies(r) /\ ImportTyped
    BY DEF ImportInv
  <2>2. Founders(r)' \subseteq Founders(r)
    BY <1>1 DEF Founders
  <2>3. FewFamilies(r)'
    BY <2>1, <2>2, FewerFounders
  <2>4. RowInCatalogue(r)'
    BY <1>5, <2>1 DEF RowInCatalogue, IsOf
  <2> QED BY <2>3, <2>4
<1> QED BY <1>3, <1>4, <1>5, <1>6 DEF ImportInv

LEMMA ImportStart == ImportInit => ImportInv
<1> SUFFICES ASSUME ImportInit PROVE ImportInv
  OBVIOUS
<1>1. ImportTyped
  BY DEF ImportTyped, ImportInit
<1>2. CatalogueApart /\ (\A r \in ImportRows : RowInCatalogue(r)) /\ dupOf = {}
  BY DEF CatalogueApart, RowInCatalogue, ImportInit
<1>3. \A c \in Clients : request[c].at = "idle"
  BY DEF ImportInit, Idle
<1>4. \A c \in Clients : RequestInOrder(c)
  BY <1>3 DEF RequestInOrder, RequestStages
<1>5. ASSUME NEW r \in ImportRows PROVE FewFamilies(r)
  <2>1. FamiliesOf(r) = {}
    BY DEF FamiliesOf, ImportInit
  <2>2. Cardinality(FamiliesOf(r)) = 0
    BY <2>1, FS_EmptySet
  <2> QED BY <1>1, <2>2, FamiliesAreFew DEF FewFamilies
<1> QED BY <1>1, <1>2, <1>4, <1>5 DEF ImportInv

(* The steps of a request up to its rows, and after them.                  *)
LEMMA RequestsKeepImports ==
    ASSUME ImportInv, NEW c \in Clients, NEW b \in Batches,
           Upload(c, b) \/ Validate(c, b) \/ Commit(c, b) \/ Cancel(c, b)
    PROVE  ImportInv'
<1>1. ASSUME NEW q, Goes(c, q), q.at \in {"store", "validate", "select", "cancel"}, q.of = b
      PROVE  ImportInv'
  <2>1. request'[c] = q => RequestInOrder(c)'
    BY <1>1 DEF RequestInOrder, RequestStages
  <2>2. UNCHANGED <<dupOf, made, families, variants>>
    BY DEF Upload, Validate, Commit, Cancel
  <2>3. \A r \in dupOf' : LooksKnown(r)
    BY <2>2 DEF ImportInv
  <2> QED BY <1>1, <2>1, <2>2, <2>3, OnlyTheRequest
<1>2. CASE Upload(c, b)
  BY <1>1, <1>2 DEF Upload
<1>3. CASE Validate(c, b)
  BY <1>1, <1>3 DEF Validate
<1>4. CASE Commit(c, b)
  BY <1>1, <1>4 DEF Commit
<1>5. CASE Cancel(c, b)
  BY <1>1, <1>5 DEF Cancel
<1> QED BY <1>2, <1>3, <1>4, <1>5

LEMMA StagesKeepImports ==
    ASSUME ImportInv, NEW c \in Clients,
           \/ StoreRows(c) \/ StartValidation(c) \/ FinishValidation(c) \/ SelectCommitted(c)
           \/ StartCommit(c) \/ FinishCommit(c) \/ MarkCancelled(c)
    PROVE  ImportInv'
<1> PICK q : q = request[c]
  OBVIOUS
<1>0. RequestInOrder(c) /\ q.at # "idle" /\ q.of \in Batches
  <2>1. RequestInOrder(c)
    BY DEF ImportInv
  <2>2. q.at # "idle"
    BY DEF StoreRows, StartValidation, FinishValidation, SelectCommitted, StartCommit,
           FinishCommit, MarkCancelled
  <2> QED BY <2>1, <2>2 DEF RequestInOrder
<1>1. UNCHANGED <<dupOf, made, families, variants>>
  BY DEF StoreRows, StartValidation, FinishValidation, SelectCommitted, StartCommit,
         FinishCommit, MarkCancelled
<1>2. ASSUME NEW to, Goes(c, to), to.at # "insert",
             request'[c] = to => RequestInOrder(c)'
      PROVE  ImportInv'
  <2>1. \A r \in dupOf' : LooksKnown(r)
    BY <1>1 DEF ImportInv
  <2> QED BY <1>1, <1>2, <2>1, OnlyTheRequest
<1>3. Stored(q.of) \subseteq ImportRows
  BY <1>0 DEF Stored, ImportRows
<1>4. Goes(c, Idle) => ImportInv'
  <2> SUFFICES ASSUME Goes(c, Idle) PROVE ImportInv'
    OBVIOUS
  <2>1. request'[c] = Idle => RequestInOrder(c)'
    BY DEF RequestInOrder, RequestStages, Idle
  <2>2. Idle.at # "insert"
    BY DEF Idle
  <2> QED BY <1>2, <2>1, <2>2
<1>5. CASE StoreRows(c) \/ FinishValidation(c) \/ FinishCommit(c) \/ MarkCancelled(c)
  BY <1>4, <1>5 DEF StoreRows, FinishValidation, FinishCommit, MarkCancelled
<1>6. CASE StartValidation(c)
  <2> DEFINE to == [at |-> "judge", of |-> q.of, todo |-> Stored(q.of)]
  <2>1. Goes(c, to)
    BY <1>6 DEF StartValidation
  <2>2. request'[c] = to => RequestInOrder(c)'
    BY <1>0, <1>3 DEF RequestInOrder, RequestStages
  <2> QED BY <1>2, <2>1, <2>2
<1>7. CASE SelectCommitted(c)
  <2> DEFINE wanted == IF q.warned THEN {"valid", "warning"} ELSE {"valid"}
             rows == {r \in Stored(q.of) : rowStatus[r] \in wanted}
  <2> PICK todo : todo = IF q.skip THEN rows \ dupOf ELSE rows
    OBVIOUS
  <2> DEFINE to == [at |-> "start", of |-> q.of, todo |-> todo, took |-> todo]
  <2>1. Goes(c, to)
    BY <1>7 DEF SelectCommitted
  <2>2. todo \subseteq ImportRows
    BY <1>3
  <2>3. request'[c] = to => RequestInOrder(c)'
    BY <1>0, <2>2 DEF RequestInOrder, RequestStages
  <2> QED BY <1>2, <2>1, <2>3
<1>8. CASE StartCommit(c)
  <2> DEFINE to == [at |-> "commit", of |-> q.of, todo |-> q.todo, took |-> q.took]
  <2>1. Goes(c, to) /\ q.at = "start"
    BY <1>8 DEF StartCommit
  <2>2. q.todo \subseteq ImportRows /\ \A r \in q.took \ q.todo : InCatalogue(r)
    BY <1>0, <2>1 DEF RequestInOrder
  <2>3. \A r \in q.took \ q.todo : InCatalogue(r)'
    BY <1>1, <2>2 DEF InCatalogue, IsOf
  <2>4. request'[c] = to => RequestInOrder(c)'
    BY <1>0, <2>2, <2>3 DEF RequestInOrder, RequestStages
  <2> QED BY <1>2, <2>1, <2>4
<1> QED BY <1>5, <1>6, <1>7, <1>8

-----------------------------------------------------------------------------
LEMMA JudgeKeepsImports ==
    ASSUME ImportInv, NEW c \in Clients, JudgeRow(c)
    PROVE  ImportInv'
<1> PICK q : q = request[c]
  OBVIOUS
<1> PICK r : r = First(q.todo)
  OBVIOUS
<1> PICK to : to = [q EXCEPT !.todo = @ \ {r}]
  OBVIOUS
<1>1. q.at = "judge" /\ RequestInOrder(c)
  BY DEF ImportInv, JudgeRow
<1>2. q.of \in Batches /\ q.todo \subseteq ImportRows
  BY <1>1 DEF RequestInOrder
<1>3. /\ dupOf' = IF Resembles(r, q.of) THEN dupOf \cup {r} ELSE dupOf \ {r}
      /\ Goes(c, to) /\ UNCHANGED <<made, families, variants>>
  BY DEF JudgeRow
<1>4. to.at = q.at /\ to.of = q.of /\ to.todo \subseteq q.todo
  <2>1. q = [q EXCEPT !.todo = @] \/ TRUE
    OBVIOUS
  <2> QED BY <2>1
<1>5. request'[c] = to => RequestInOrder(c)'
  BY <1>1, <1>2, <1>4 DEF RequestInOrder, RequestStages
<1>6. \A s \in dupOf' : LooksKnown(s)
  BY <1>3 DEF ImportInv, Resembles
<1> QED BY <1>1, <1>3, <1>4, <1>5, <1>6, OnlyTheRequest

LEMMA FailKeepsImports ==
    ASSUME ImportInv, NEW c \in Clients, RowFails(c)
    PROVE  ImportInv'
<1> PICK q : q = request[c]
  OBVIOUS
<1> PICK r : r = First(q.todo)
  OBVIOUS
<1> DEFINE to == [at |-> "commit", of |-> q.of, todo |-> q.todo \ {r}, took |-> q.took \ {r}]
<1>1. q.at = "insert" /\ RequestInOrder(c)
  BY DEF ImportInv, RowFails
<1>2. q.of \in Batches /\ q.todo \subseteq ImportRows
      /\ \A s \in q.took \ q.todo : InCatalogue(s)
  BY <1>1 DEF RequestInOrder
<1>3. Goes(c, to) /\ UNCHANGED <<dupOf, made, families, variants>>
  BY DEF RowFails
<1>4. \A s \in to.took \ to.todo : InCatalogue(s)'
  BY <1>2, <1>3 DEF InCatalogue, IsOf
<1>5. request'[c] = to => RequestInOrder(c)'
  BY <1>2, <1>4 DEF RequestInOrder, RequestStages
<1>6. \A s \in dupOf' : LooksKnown(s)
  BY <1>3 DEF ImportInv
<1> QED BY <1>3, <1>5, <1>6, OnlyTheRequest

(* A request that finds no family of the name is one more about to write   *)
(* one; there is none of the name yet, and no more such requests than      *)
(* there are requests.                                                     *)
LEMMA LookKeepsImports ==
    ASSUME ImportInv, NEW c \in Clients, LookForFamily(c)
    PROVE  ImportInv'
<1> PICK q : q = request[c]
  OBVIOUS
<1> PICK r : r = First(q.todo)
  OBVIOUS
<1>1. /\ q.at = "commit" /\ q.todo # {} /\ RequestInOrder(c)
      /\ UNCHANGED <<dupOf, made, families, variants>>
  BY DEF ImportInv, LookForFamily
<1>2. q.of \in Batches /\ q.todo \subseteq ImportRows
      /\ \A s \in q.took \ q.todo : InCatalogue(s)
  BY <1>1 DEF RequestInOrder
<1>3. PICK fam \in IF FamiliesOf(r) = {} THEN {0} ELSE FamiliesOf(r) :
          Goes(c, [at |-> "insert", of |-> q.of, todo |-> q.todo, took |-> q.took,
                   fam |-> fam])
  BY DEF LookForFamily
<1> PICK to : to = [at |-> "insert", of |-> q.of, todo |-> q.todo, took |-> q.took,
                    fam |-> fam]
  OBVIOUS
<1>4. /\ to.at = "insert" /\ to.of = q.of /\ to.todo = q.todo /\ to.took = q.took
      /\ to.fam = fam /\ Goes(c, to)
  BY <1>3
<1>5. CatalogueGrows /\ \A s : FamiliesOf(s)' = FamiliesOf(s)
  BY <1>1 DEF CatalogueGrows, FamiliesOf
<1>6. \A s \in to.took \ to.todo : InCatalogue(s)'
  BY <1>1, <1>2, <1>4 DEF InCatalogue, IsOf
<1>7. fam # 0 => fam \in FamiliesOf(r)'
  BY <1>5
<1>8. request'[c] = to => RequestInOrder(c)'
  BY <1>1, <1>2, <1>4, <1>6, <1>7 DEF RequestInOrder, RequestStages
<1>9. \A s \in dupOf' : LooksKnown(s)
  BY <1>1 DEF ImportInv
<1>10. CASE fam # 0
  BY <1>1, <1>4, <1>8, <1>9, <1>10, OnlyTheRequest
<1>11. CASE fam = 0
  <2>1. request' = [d \in Clients |-> request'[d]] /\ request'[c] = to
        /\ \A d \in Clients : d # c => request'[d] = request[d]
    BY <1>4 DEF Goes, ImportInv, ImportTyped
  <2>2. \A d \in Clients : RequestInOrder(d)'
    BY <1>4, <1>5, <1>8, <2>1, OthersStay
  <2>3. ImportTyped' /\ CatalogueApart'
    BY <1>1, <2>1 DEF ImportInv, ImportTyped, CatalogueApart
  <2>4. FamiliesOf(r) = {}
    <3>1. 0 \notin FamiliesOf(r)
      BY DEF FamiliesOf, ImportInv, ImportTyped
    <3> QED BY <1>11, <3>1
  <2>5. ASSUME NEW s \in ImportRows PROVE FewFamilies(s)'
    <3>1. FewFamilies(s) /\ ImportTyped
      BY DEF ImportInv
    <3>2. CASE FamilyName[s] = FamilyName[r]
      <4>1. FamiliesOf(s)' = {}
        BY <1>5, <2>4, <3>2 DEF FamiliesOf
      <4>2. Cardinality(FamiliesOf(s)') = 0
        BY <4>1, FS_EmptySet
      <4>3. Founders(s)' \in SUBSET Clients
        BY DEF Founders
      <4>4. IsFiniteSet(Founders(s)') /\ Cardinality(Founders(s)') <= Cardinality(Clients)
        BY <4>3, ImportAssumption, FS_Subset
      <4>5. Cardinality(Founders(s)') \in Nat
        BY <4>4, FS_CardinalityType
      <4>6. Cardinality(FamiliesOf(s)') + Cardinality(Founders(s)') <= Cardinality(Clients)
        BY <4>2, <4>4, <4>5
      <4> QED BY <4>6 DEF FewFamilies
    <3>3. CASE FamilyName[s] # FamilyName[r]
      <4>1. Founders(s)' \subseteq Founders(s)
        BY <1>4, <2>1, <3>3 DEF Founders
      <4> QED BY <1>1, <3>1, <4>1, FewerFounders
    <3> QED BY <3>2, <3>3
  <2>6. \A s : LooksKnown(s) => LooksKnown(s)'
    BY <1>5, CatalogueKeeps
  <2>7. \A s \in ImportRows : RowInCatalogue(s)'
    BY <1>1, <2>6 DEF ImportInv, RowInCatalogue, IsOf
  <2> QED BY <1>9, <2>2, <2>3, <2>5, <2>6, <2>7 DEF ImportInv
<1> QED BY <1>10, <1>11

(* The transaction of a row: a family or none is added, a variant or none. *)
LEMMA CommitKeepsImports ==
    ASSUME ImportInv, NEW c \in Clients, CommitRow(c)
    PROVE  ImportInv'
<1> PICK q : q = request[c]
  OBVIOUS
<1> PICK r : r = First(q.todo)
  OBVIOUS
<1> PICK to : to = [at |-> "commit", of |-> q.of, todo |-> q.todo \ {r}, took |-> q.took]
  OBVIOUS
<1> PICK fam : fam = IF q.fam = 0 THEN Len(families) + 1 ELSE q.fam
  OBVIOUS
<1> PICK v : v = [family |-> fam, key |-> RowKey[r], look |-> Likeness[r],
                  active |-> r \in Complete]
  OBVIOUS
<1> DEFINE Names == {FamilyName[s] : s \in ImportRows}
<1>1. /\ q.at = "insert" /\ RequestInOrder(c) /\ CatalogueApart
      /\ made \in [ImportRows -> Nat]
      /\ families \in Seq(Names) /\ variants \in Seq(VariantRow)
  BY DEF ImportInv, ImportTyped, CommitRow
<1>2. /\ q.of \in Batches /\ q.todo \subseteq ImportRows /\ q.todo # {}
      /\ \A s \in q.took \ q.todo : InCatalogue(s)
      /\ q.fam # 0 => q.fam \in FamiliesOf(r)
  BY <1>1 DEF RequestInOrder
<1>3. r \in q.todo /\ r \in ImportRows
  BY <1>2, FirstIsOneOf
<1>4. /\ families' = IF q.fam = 0 THEN Append(families, FamilyName[r]) ELSE families
      /\ IF Conflicts(v) THEN UNCHANGED <<variants, made>>
         ELSE /\ variants' = Append(variants, v)
              /\ made' = [made EXCEPT ![r] = Len(variants) + 1]
      /\ Goes(c, to) /\ dupOf' = dupOf
  BY DEF CommitRow
<1>5. request' = [d \in Clients |-> request'[d]] /\ request'[c] = to
      /\ \A d \in Clients : d # c => request'[d] = request[d]
  BY <1>4 DEF Goes, ImportInv, ImportTyped
<1>6. to.at = "commit" /\ to.of = q.of /\ to.todo = q.todo \ {r} /\ to.took = q.took
  OBVIOUS
<1> HIDE DEF Names
<1>7. /\ families' \in Seq(Names)
      /\ DOMAIN families \subseteq DOMAIN families'
      /\ \A i \in DOMAIN families : families'[i] = families[i]
      /\ fam \in DOMAIN families' /\ families'[fam] = FamilyName[r]
      /\ DOMAIN families' \subseteq DOMAIN families \cup {fam}
      /\ q.fam = 0 => fam \notin DOMAIN families
  <2>1. FamilyName[r] \in Names
    BY <1>3 DEF Names
  <2>2. CASE q.fam = 0
    BY <1>1, <1>4, <2>1, <2>2
  <2>3. CASE q.fam # 0
    BY <1>1, <1>2, <1>4, <2>3 DEF FamiliesOf
  <2> QED BY <2>2, <2>3
<1>8. /\ v \in VariantRow /\ v.family = fam /\ v.key = RowKey[r] /\ v.look = Likeness[r]
  <2>1. fam \in Nat
    BY <1>7
  <2>2. RowKey[r] \in {RowKey[s] : s \in ImportRows}
        /\ Likeness[r] \in {Likeness[s] : s \in ImportRows}
        /\ (r \in Complete) \in BOOLEAN
    BY <1>3
  <2> QED BY <2>1, <2>2 DEF VariantRow
<1>9. /\ variants' \in Seq(VariantRow)
      /\ DOMAIN variants \subseteq DOMAIN variants'
      /\ \A i \in DOMAIN variants : variants'[i] = variants[i]
      /\ \E i \in DOMAIN variants' : variants'[i].family = fam /\ variants'[i].key = RowKey[r]
      /\ \A i \in DOMAIN variants' : i \in DOMAIN variants \/ variants'[i] = v
      /\ \A i, j \in DOMAIN variants' :
            /\ variants'[i].active /\ variants'[j].active
            /\ variants'[i].family = variants'[j].family /\ variants'[i].key = variants'[j].key
            => i = j
  <2>1. \A i, j \in DOMAIN variants :
            /\ variants[i].active /\ variants[j].active
            /\ variants[i].family = variants[j].family /\ variants[i].key = variants[j].key
            => i = j
    BY <1>1 DEF CatalogueApart
  <2>2. CASE Conflicts(v)
    <3>1. /\ variants' = variants
          /\ \E i \in DOMAIN variants : variants[i].family = fam /\ variants[i].key = RowKey[r]
      BY <1>4, <1>8, <2>2 DEF Conflicts
    <3> QED BY <1>1, <2>1, <3>1
  <2>3. CASE ~Conflicts(v)
    <3>1. variants' = Append(variants, v)
      BY <1>4, <2>3
    <3>2. \A i \in DOMAIN variants :
              ~(/\ v.active /\ variants[i].active
                /\ variants[i].family = v.family /\ variants[i].key = v.key)
      BY <2>3 DEF Conflicts
    <3> PICK at : at = Len(variants) + 1
      OBVIOUS
    <3>3. /\ variants' \in Seq(VariantRow)
          /\ DOMAIN variants' = DOMAIN variants \cup {at}
          /\ \A i \in DOMAIN variants : variants'[i] = variants[i]
          /\ variants'[at] = v
      BY <1>1, <1>8, <3>1
    <3>4. ASSUME NEW i \in DOMAIN variants', NEW j \in DOMAIN variants',
                 variants'[i].active /\ variants'[j].active,
                 variants'[i].family = variants'[j].family,
                 variants'[i].key = variants'[j].key
          PROVE  i = j
      <4>1. CASE i \in DOMAIN variants /\ j \in DOMAIN variants
        BY <2>1, <3>3, <3>4, <4>1
      <4>2. CASE i = at /\ j \in DOMAIN variants
        BY <3>2, <3>3, <3>4, <4>2
      <4>3. CASE j = at /\ i \in DOMAIN variants
        BY <3>2, <3>3, <3>4, <4>3
      <4> QED BY <3>3, <4>1, <4>2, <4>3
    <3>5. variants'[at].family = fam /\ variants'[at].key = RowKey[r]
      BY <1>8, <3>3
    <3> QED BY <3>3, <3>4, <3>5
  <2> QED BY <2>2, <2>3
<1>10. CatalogueGrows
  BY <1>7, <1>9 DEF CatalogueGrows
<1>11. /\ \A s : (InCatalogue(s) => InCatalogue(s)') /\ (LooksKnown(s) => LooksKnown(s)')
       /\ InCatalogue(r)'
  <2>1. InCatalogue(r)'
    BY <1>7, <1>9 DEF InCatalogue, IsOf
  <2> QED BY <1>10, <2>1, CatalogueKeeps
<1>12. CatalogueApart'
  <2>1. \A i \in DOMAIN variants' : variants'[i].family \in DOMAIN families'
    BY <1>1, <1>7, <1>8, <1>9 DEF CatalogueApart
  <2> QED BY <1>9, <2>1 DEF CatalogueApart
<1>13. /\ made' \in [ImportRows -> Nat]
       /\ \A s \in ImportRows : s # r => made'[s] = made[s]
       /\ \/ made'[r] = made[r]
          \/ made'[r] \in DOMAIN variants' /\ variants'[made'[r]] = v
  <2>1. CASE Conflicts(v)
    BY <1>1, <1>4, <2>1
  <2>2. CASE ~Conflicts(v)
    <3> PICK at : at = Len(variants) + 1
      OBVIOUS
    <3>1. made' = [made EXCEPT ![r] = at] /\ variants' = Append(variants, v)
      BY <1>4, <2>2
    <3>2. at \in Nat /\ at \in DOMAIN variants' /\ variants'[at] = v
      BY <1>1, <1>8, <3>1
    <3>3. /\ made' \in [ImportRows -> Nat] /\ made'[r] = at
          /\ \A s \in ImportRows : s # r => made'[s] = made[s]
      BY <1>1, <1>3, <3>1, <3>2
    <3> QED BY <3>2, <3>3
  <2> QED BY <2>1, <2>2
<1>14. ImportTyped'
  BY <1>5, <1>7, <1>9, <1>13 DEF ImportTyped, Names
<1>15. ASSUME NEW s \in ImportRows PROVE RowInCatalogue(s)'
  <2>1. RowInCatalogue(s)
    BY DEF ImportInv
  <2>2. CASE made'[s] = made[s]
    <3> PICK k : k = made[s]
      OBVIOUS
    <3>1. k # 0 => k \in DOMAIN variants /\ IsOf(variants[k], s)
      BY <2>1 DEF RowInCatalogue
    <3>2. k # 0 => k \in DOMAIN variants' /\ IsOf(variants[k], s)'
      BY <1>10, <3>1, CatalogueKeeps
    <3>3. made'[s] # 0 => made'[s] \in DOMAIN variants' /\ IsOf(variants[made[s]], s)'
      BY <2>2, <3>2 DEF IsOf
    <3> QED BY <1>4, <1>11, <2>1, <3>3 DEF RowInCatalogue
  <2>3. CASE s = r /\ made'[r] \in DOMAIN variants' /\ variants'[made'[r]] = v
    BY <1>4, <1>7, <1>8, <1>11, <2>1, <2>3 DEF RowInCatalogue, IsOf
  <2> QED BY <1>13, <2>2, <2>3
<1>16. RequestInOrder(c)'
  <2>1. \A s \in to.took \ to.todo : InCatalogue(s)'
    BY <1>2, <1>6, <1>11
  <2> QED BY <1>2, <1>5, <1>6, <2>1 DEF RequestInOrder, RequestStages
<1>17. \A d \in Clients : RequestInOrder(d)'
  BY <1>4, <1>10, <1>16, OthersStay
<1>18. \A s \in dupOf' : LooksKnown(s)'
  BY <1>4, <1>11 DEF ImportInv
<1>19. ASSUME NEW s \in ImportRows PROVE FewFamilies(s)'
  <2>1. FewFamilies(s) /\ ImportTyped
    BY DEF ImportInv
  <2>2. Founders(s)' \subseteq Founders(s)
    BY <1>5, <1>6 DEF Founders
  <2>3. CASE families' = families
    BY <2>1, <2>2, <2>3, FewerFounders
  <2>4. CASE q.fam = 0 /\ FamilyName[s] # FamilyName[r]
    <3>1. FamiliesOf(s)' = FamiliesOf(s)
      BY <1>7, <2>4 DEF FamiliesOf
    <3>2. IsFiniteSet(Founders(s)') /\ Cardinality(Founders(s)') <= Cardinality(Founders(s))
      BY <2>1, <2>2, FamiliesAreFew, FS_Subset
    <3>3. Cardinality(Founders(s)') \in Nat
      BY <3>2, FS_CardinalityType
    <3> QED BY <2>1, <3>1, <3>2, <3>3, FamiliesAreFew DEF FewFamilies
  <2>5. CASE q.fam = 0 /\ FamilyName[s] = FamilyName[r]
    <3>1. FamiliesOf(s)' = FamiliesOf(s) \cup {fam} /\ fam \notin FamiliesOf(s)
      BY <1>7, <2>5 DEF FamiliesOf
    <3>2. Founders(s)' = Founders(s) \ {c} /\ c \in Founders(s)
      BY <1>1, <1>5, <1>6, <2>5 DEF Founders
    <3>3. Cardinality(FamiliesOf(s)') = Cardinality(FamiliesOf(s)) + 1
      BY <2>1, <3>1, FamiliesAreFew, FS_AddElement
    <3>4. Cardinality(Founders(s)') = Cardinality(Founders(s)) - 1
      BY <2>1, <3>2, FamiliesAreFew, FS_RemoveElement
    <3> QED BY <2>1, <3>3, <3>4, FamiliesAreFew DEF FewFamilies
  <2>6. q.fam # 0 => families' = families
    BY <1>4
  <2> QED BY <2>3, <2>4, <2>5, <2>6
<1> QED BY <1>12, <1>14, <1>15, <1>17, <1>18, <1>19 DEF ImportInv

LEMMA StopKeepsImports == ASSUME ImportInv, ApiStops PROVE ImportInv'
<1>1. request' = [c \in Clients |-> Idle] /\ UNCHANGED <<dupOf, made, families, variants>>
  BY DEF ApiStops
<1>2. \A c \in Clients : RequestInOrder(c)'
  BY <1>1 DEF RequestInOrder, RequestStages, Idle
<1>3. ImportTyped' /\ CatalogueApart' /\ \A r \in dupOf' : LooksKnown(r)'
  BY <1>1 DEF ImportInv, ImportTyped, CatalogueApart, LooksKnown
<1>4. ASSUME NEW r \in ImportRows PROVE RowInCatalogue(r)' /\ FewFamilies(r)'
  <2>1. Founders(r)' \subseteq Founders(r)
    BY <1>1 DEF Founders, Idle
  <2>2. FewFamilies(r)'
    BY <1>1, <2>1, FewerFounders DEF ImportInv
  <2> QED BY <1>1, <2>2 DEF ImportInv, RowInCatalogue, LooksKnown, IsOf
<1> QED BY <1>2, <1>3, <1>4 DEF ImportInv

LEMMA ImportStep == ImportInv /\ [ImportNext]_importVars => ImportInv'
<1> SUFFICES ASSUME ImportInv, [ImportNext]_importVars PROVE ImportInv'
  OBVIOUS
<1>1. ASSUME NEW c \in Clients, NEW b \in Batches,
             Upload(c, b) \/ Validate(c, b) \/ Commit(c, b) \/ Cancel(c, b)
      PROVE  ImportInv'
  BY <1>1, RequestsKeepImports
<1>2. ASSUME NEW c \in Clients,
             \/ StoreRows(c) \/ StartValidation(c) \/ FinishValidation(c)
             \/ SelectCommitted(c) \/ StartCommit(c) \/ FinishCommit(c) \/ MarkCancelled(c)
      PROVE  ImportInv'
  BY <1>2, StagesKeepImports
<1>3. ASSUME NEW c \in Clients, JudgeRow(c) \/ LookForFamily(c) \/ RowFails(c) \/ CommitRow(c)
      PROVE  ImportInv'
  BY <1>3, JudgeKeepsImports, LookKeepsImports, FailKeepsImports, CommitKeepsImports
<1>4. CASE ApiStops
  BY <1>4, StopKeepsImports
<1>5. CASE UNCHANGED importVars
  BY <1>5 DEF ImportInv, ImportTyped, CatalogueApart, FewFamilies, Founders, InCatalogue,
              IsOf, LooksKnown, RowInCatalogue, RequestInOrder, FamiliesOf, importVars
<1> QED BY <1>1, <1>2, <1>3, <1>4, <1>5 DEF ImportNext

LEMMA ImportInvLandsOnce == ImportInv => ImportLandsOnce
<1> SUFFICES ASSUME ImportInv PROVE ImportLandsOnce
  OBVIOUS
<1>1. ASSUME NEW r \in ImportRows, NEW i \in ActiveOf(r), NEW j \in ActiveOf(r),
             variants[i].family = variants[j].family
      PROVE  i = j
  <2>1. /\ i \in DOMAIN variants /\ j \in DOMAIN variants
        /\ variants[i].active /\ variants[i].key = RowKey[r]
        /\ variants[j].active /\ variants[j].key = RowKey[r]
    BY DEF ActiveOf, IsOf
  <2> QED BY <1>1, <2>1 DEF ImportInv, CatalogueApart
<1>2. ASSUME NEW r \in ImportRows
      PROVE  Cardinality(FamiliesOf(r)) <= Cardinality(Clients)
  <2>1. FewFamilies(r) /\ ImportTyped
    BY DEF ImportInv
  <2> QED BY <2>1, FamiliesAreFew DEF FewFamilies
<1>3. \A r \in ImportRows : made[r] # 0 => IsOf(variants[made[r]], r)
  BY DEF ImportInv, RowInCatalogue
<1>4. ASSUME NEW c \in Clients, request[c].at \in {"commit", "insert"},
             NEW r \in request[c].took \ request[c].todo
      PROVE  InCatalogue(r)
  BY <1>4 DEF ImportInv, RequestInOrder
<1> QED BY <1>1, <1>2, <1>3, <1>4 DEF ImportLandsOnce, ImportInv

(* For any number of requests at once: however they interleave, wherever   *)
(* the API stops and however often a batch is validated and committed      *)
(* again, no family has an identity twice, a name has at most as many      *)
(* families as there are requests, and what a commit has counted is in the *)
(* catalogue.                                                              *)
THEOREM ImportsAlwaysLandOnce == ImportSpec => []ImportLandsOnce
BY ImportStart, ImportStep, ImportInvLandsOnce, PTL DEF ImportSpec

-----------------------------------------------------------------------------
(* The log of decisions.  What the retention has selected stays without a  *)
(* reference while it waits: a verified decision confirms only what the    *)
(* relation refers to already, since it has held the relation from before  *)
(* its read; only the case of a doubtful one can come to refer to a        *)
(* selected row, and that row was then no longer the latest.               *)
Places == 1..MaxDecisionRows
DecisionRow == [triple : Triples, content : Decisions \cup {"verified"},
                by : {"engine", "human"}, at : Places]
Transaction == [pc : {"write"}, triple : Triples, content : Decisions, at : Places,
                confirms : Places \cup {NoReference}]

LogRows ==
    /\ entries \subseteq DecisionRow
    /\ current \in [Triples -> Places \cup {NoReference}]
    /\ caseOf \in [Triples -> Places \cup {NoReference}]
    /\ deciding \in [Deciders -> Transaction \cup {NotDeciding}]

Writes(w) == deciding[w].pc = "write"
Verifies(w) == Writes(w) /\ deciding[w].content = "verified"
ByEngine(r) == r.by = "engine" /\ r.content = "verified"

(* No two rows, and no two transactions, have the same place. *)
Numbered ==
    /\ \A d, e \in entries : d.at = e.at => d = e
    /\ \A w \in Deciders : Writes(w) => \A d \in entries : d.at # deciding[w].at
    /\ \A v, w \in Deciders :
           Writes(v) /\ Writes(w) /\ deciding[v].at = deciding[w].at => v = w

(* What a transaction is about to confirm. *)
ConfirmsOlder(w) ==
    /\ deciding[w].confirms < deciding[w].at
    /\ \A d \in entries : d.at = deciding[w].confirms => d.triple = deciding[w].triple
    /\ \A v \in Deciders : Writes(v) => deciding[v].at # deciding[w].confirms
    /\ deciding[w].content = "verified"
           => current[deciding[w].triple] = deciding[w].confirms
Confirming ==
    \A w \in Deciders :
        Writes(w) /\ deciding[w].confirms # NoReference => ConfirmsOlder(w)

(* A live relation refers to the latest decision of the engine that        *)
(* verified it, and one transaction at a time verifies.                    *)
Foremost ==
    /\ \A r \in entries :
           ByEngine(r) => current[r.triple] # NoReference /\ r.at <= current[r.triple]
    /\ \A t \in Triples : current[t] # NoReference =>
           \E r \in entries : ByEngine(r) /\ r.triple = t /\ r.at = current[t]
OneVerifies ==
    \A w \in Deciders : Verifies(w) =>
        /\ \A r \in entries :
               ByEngine(r) /\ r.triple = deciding[w].triple => r.at < deciding[w].at
        /\ \A v \in Deciders :
               Verifies(v) /\ deciding[v].triple = deciding[w].triple => v = w

SupersededRow(d) ==
    /\ d \in entries /\ d.by = "engine"
    /\ \E n \in entries \ doomed : n.triple = d.triple /\ n.at > d.at
    /\ \A t \in Triples : current[t] # d.at
    /\ \A t \in Triples : caseOf[t] = d.at => d.at \in confirmedLate
Superseded == \A d \in doomed : SupersededRow(d)

LogInv == LogRows /\ Numbered /\ Confirming /\ Foremost /\ OneVerifies /\ Superseded

LEMMA LogStart == LogInit => LogInv
<1> SUFFICES ASSUME LogInit PROVE LogInv
  OBVIOUS
<1> USE DEF LogInit
<1>1. \A w \in Deciders : deciding[w] = NotDeciding /\ deciding[w].pc = "idle"
  BY DEF NotDeciding
<1>2. LogRows
  BY DEF LogRows
<1>3. \A w \in Deciders : ~Writes(w)
  BY <1>1 DEF Writes
<1> QED BY <1>1, <1>2, <1>3
        DEF LogInv, Numbered, Confirming, Foremost, OneVerifies, Superseded, Verifies

-----------------------------------------------------------------------------
LEMMA TransactionFields ==
    ASSUME LogRows, NEW w \in Deciders
    PROVE  /\ deciding[w].pc \in {"idle", "write"}
           /\ deciding[w].pc # "idle" <=> Writes(w)
           /\ Writes(w) => /\ deciding[w] \in Transaction
                           /\ deciding[w].triple \in Triples
                           /\ deciding[w].content \in Decisions
                           /\ deciding[w].at \in Places
                           /\ deciding[w].confirms \in Places \cup {NoReference}
<1>1. deciding[w] \in Transaction \cup {NotDeciding}
  BY DEF LogRows
<1> QED BY <1>1 DEF Transaction, NotDeciding, Writes

LEMMA RowFields ==
    ASSUME LogRows, NEW d \in entries
    PROVE  /\ d.triple \in Triples
           /\ d.by \in {"engine", "human"} /\ d.at \in Places
BY DEF LogRows, DecisionRow

(* The latest row of a triple, as the SELECT finds it.                     *)
LEMMA LatestIsGreatest ==
    ASSUME LogRows, NEW t \in Triples, Of(t) # {}
    PROVE  /\ Latest(t) \in entries /\ Latest(t).triple = t
           /\ \A e \in entries : e.triple = t => e.at <= Latest(t).at
<1> DEFINE T == {d.at : d \in Of(t)}
<1>1. T \in SUBSET (0..MaxDecisionRows) /\ T # {}
  BY RowFields DEF Of, Places
<1>2. PICK m \in T : \A n \in T : n <= m
  BY <1>1, BoundedHasGreatest, LogAssumption
<1>3. \E d \in Of(t) : \A e \in Of(t) : e.at <= d.at
  BY <1>2
<1>4. Latest(t) \in Of(t) /\ \A e \in Of(t) : e.at <= Latest(t).at
  BY <1>3 DEF Latest
<1> QED BY <1>4 DEF Of

(* A transaction that starts now is later than every row and every other. *)
LEMMA NowIsNew ==
    ASSUME LogRows
    PROVE  /\ Now \in Nat /\ Now > 0
           /\ \A d \in entries : d.at < Now
           /\ \A w \in Deciders : Writes(w) => deciding[w].at < Now
<1> DEFINE T == {d.at : d \in entries} \cup Busy \cup {0}
<1>1. \A d \in entries : d.at \in 0..MaxDecisionRows /\ d.at \in T
  BY RowFields, LogAssumption DEF Places
<1>2. \A w \in Deciders : Writes(w) => deciding[w].at \in 0..MaxDecisionRows /\ deciding[w].at \in T
  BY TransactionFields, LogAssumption DEF Places, Busy
<1>3. Busy \subseteq 0..MaxDecisionRows
  BY <1>2, TransactionFields DEF Busy
<1>4. T \in SUBSET (0..MaxDecisionRows) /\ 0 \in T
  <2>1. {d.at : d \in entries} \subseteq 0..MaxDecisionRows /\ {0} \subseteq 0..MaxDecisionRows
    BY <1>1, LogAssumption
  <2> QED BY <1>3, <2>1
<1>5. PICK m \in T : \A n \in T : n <= m
  BY <1>4, BoundedHasGreatest, LogAssumption
<1>6. \A n \in T : n \in Nat
  BY <1>4
<1>7. Max(T) \in T /\ \A n \in T : Max(T) >= n
  <2> HIDE DEF T
  <2>1. \A n \in T : m >= n
    BY <1>5, <1>6
  <2> QED BY <2>1 DEF Max
<1>8. Now = Max(T) + 1
  BY DEF Now
<1> HIDE DEF T
<1>9. PICK top : top = Max(T)
  OBVIOUS
<1>10. top \in Nat /\ Now = top + 1 /\ \A n \in T : n \in Nat /\ n < top + 1
  BY <1>6, <1>7, <1>8, <1>9
<1> QED BY <1>1, <1>2, <1>10

-----------------------------------------------------------------------------
(* A read starts a transaction and changes no row and no reference. *)
LEMMA ReadKeepsLog ==
    ASSUME LogInv, NEW w \in Deciders, NEW t \in Triples, NEW c \in Decisions,
           ReadLatest(w, t, c)
    PROVE  LogInv'
<1> PICK n : n = Now
  OBVIOUS
<1> PICK held : held <=> RelationHeld(t)
  OBVIOUS
<1> DEFINE same == Of(t) # {} /\ Latest(t).by = "engine" /\ Latest(t).content = c
           tx == [pc |-> "write", triple |-> t, content |-> c, at |-> n,
                  confirms |-> IF same THEN Latest(t).at ELSE NoReference]
<1>1. /\ deciding[w].pc = "idle" /\ n <= MaxDecisionRows
      /\ c = "verified" => ~held
      /\ deciding' = [deciding EXCEPT ![w] = tx]
      /\ UNCHANGED <<entries, current, caseOf, doomed, confirmedLate>>
  BY DEF ReadLatest
<1>2. LogRows /\ Numbered /\ Confirming /\ Foremost /\ OneVerifies /\ Superseded
  BY DEF LogInv
<1>3. /\ n \in Nat /\ n > 0 /\ \A d \in entries : d.at < n
      /\ \A v \in Deciders : Writes(v) => deciding[v].at < n
  BY <1>2, NowIsNew
<1>4. n \in Places
  BY <1>1, <1>3, LogAssumption DEF Places
<1> PICK cf : cf = tx.confirms
  OBVIOUS
<1>5. \/ cf = NoReference
      \/ /\ cf \in Places
         /\ \E d \in entries : /\ d.at = cf /\ d.triple = t /\ d.by = "engine" /\ d.content = c
                               /\ \A e \in entries : e.triple = t => e.at <= cf
  <2>1. CASE same
    BY <1>2, <2>1, LatestIsGreatest, RowFields
  <2> QED BY <2>1
<1>6. tx \in Transaction /\ tx = [pc |-> "write", triple |-> t, content |-> c, at |-> n, confirms |-> cf]
  BY <1>4, <1>5 DEF Transaction
<1> HIDE DEF tx
<1>7. /\ \A v \in Deciders : v # w => deciding'[v] = deciding[v]
      /\ deciding'[w].pc = "write" /\ deciding'[w].triple = t /\ deciding'[w].content = c
      /\ deciding'[w].at = n /\ deciding'[w].confirms = cf
  BY <1>1, <1>2, <1>6 DEF LogRows
<1>8. /\ \A v \in Deciders : v # w => (Writes(v)' <=> Writes(v)) /\ (Verifies(v)' <=> Verifies(v))
      /\ Writes(w)' /\ ~Writes(w)
      /\ Verifies(w)' <=> c = "verified"
  BY <1>1, <1>7 DEF Writes, Verifies
<1>9. LogRows'
  BY <1>1, <1>2, <1>6 DEF LogRows
<1>10. Numbered'
  <2>1. \A v \in Deciders : v # w /\ Writes(v) => deciding[v].at # n
    BY <1>2, <1>3, TransactionFields DEF Places
  <2>2. \A d \in entries : d.at # n
    BY <1>2, <1>3, RowFields DEF Places
  <2> QED BY <1>1, <1>2, <1>7, <1>8, <2>1, <2>2 DEF Numbered
<1>11. Confirming'
  <2> SUFFICES ASSUME NEW v \in Deciders, Writes(v)', deciding'[v].confirms # NoReference
               PROVE  ConfirmsOlder(v)'
    BY DEF Confirming
  <2>1. CASE v # w
    <3>1. Writes(v) /\ deciding[v].confirms # NoReference /\ ConfirmsOlder(v)
      BY <1>2, <1>7, <1>8, <2>1 DEF Confirming
    <3>2. n # deciding[v].confirms
      BY <1>2, <1>3, <3>1, TransactionFields DEF ConfirmsOlder, Places
    <3> QED BY <1>1, <1>7, <1>8, <2>1, <3>1, <3>2 DEF ConfirmsOlder
  <2>2. CASE v = w
    <3>1. PICK d \in entries : /\ d.at = cf /\ d.triple = t /\ d.by = "engine" /\ d.content = c
                               /\ \A e \in entries : e.triple = t => e.at <= cf
      BY <1>5, <1>7, <2>2
    <3>2. cf < n
      BY <1>3, <3>1
    <3>3. \A e \in entries : e.at = cf => e.triple = t
      BY <1>2, <3>1 DEF Numbered
    <3>4. \A u \in Deciders : Writes(u)' => deciding'[u].at # cf
      <4>1. n # cf
        BY <1>2, <1>3, <3>1, <3>2, RowFields DEF Places
      <4> QED BY <1>2, <1>7, <1>8, <3>1, <4>1 DEF Numbered
    <3>5. c = "verified" => current[t] = cf
      <4> SUFFICES ASSUME c = "verified" PROVE current[t] = cf
        OBVIOUS
      <4>1. current[t] # NoReference /\ cf <= current[t]
        BY <1>2, <3>1 DEF Foremost, ByEngine
      <4>2. current[t] <= cf
        BY <1>2, <3>1, <4>1 DEF Foremost
      <4>3. current[t] \in Nat /\ cf \in Nat
        BY <1>2, <3>1, <4>1, RowFields DEF LogRows, Places
      <4> QED BY <4>1, <4>2, <4>3
    <3> QED BY <1>1, <1>7, <2>2, <3>2, <3>3, <3>4, <3>5 DEF ConfirmsOlder
  <2> QED BY <2>1, <2>2
<1>12. Foremost' /\ Superseded'
  BY <1>1, <1>2 DEF Foremost, Superseded, SupersededRow, ByEngine
<1>13. OneVerifies'
  <2>1. c = "verified" => \A v \in Deciders : Verifies(v) => deciding[v].triple # t
    BY <1>1, <1>2, TransactionFields DEF RelationHeld, Verifies
  <2> QED BY <1>1, <1>2, <1>3, <1>7, <1>8, <2>1 DEF OneVerifies, ByEngine
<1> QED BY <1>9, <1>10, <1>11, <1>12, <1>13 DEF LogInv

(* A confirmation moves a reference to a row that is there. *)
LEMMA ConfirmKeepsLog ==
    ASSUME LogInv, NEW w \in Deciders, Confirm(w)
    PROVE  LogInv'
<1> PICK tx : tx = deciding[w]
  OBVIOUS
<1> PICK latest : latest = Latest(tx.triple)
  OBVIOUS
<1> DEFINE confirmed == {d \in entries : d.at = tx.confirms}
<1>1. /\ tx.pc = "write" /\ confirmed # {}
      /\ Refer(tx.triple, tx.content, tx.confirms)
      /\ confirmedLate' = IF latest \in confirmed THEN confirmedLate
                          ELSE confirmedLate \cup {tx.confirms}
      /\ deciding' = [deciding EXCEPT ![w] = NotDeciding]
      /\ UNCHANGED <<entries, doomed>>
  BY DEF Confirm
<1>2. LogRows /\ Numbered /\ Confirming /\ Foremost /\ OneVerifies /\ Superseded
  BY DEF LogInv
<1> PICK d \in entries : d.at = tx.confirms
  BY <1>1
<1>3. Writes(w) /\ tx.triple \in Triples /\ tx.confirms \in Places /\ tx.confirms # NoReference
  <2>1. d.at \in Places /\ NoReference \notin Places
    BY <1>2, RowFields, LogAssumption DEF Places
  <2> QED BY <1>1, <1>2, <2>1, TransactionFields DEF Writes
<1>4. ConfirmsOlder(w) /\ d.triple = tx.triple
  BY <1>2, <1>3 DEF Confirming, ConfirmsOlder
<1>5. \A v \in Deciders : v # w => deciding'[v] = deciding[v]
  BY <1>1, <1>2 DEF LogRows
<1>6. deciding'[w].pc = "idle"
  BY <1>1, <1>2 DEF LogRows, NotDeciding
<1>7. \A v \in Deciders : /\ Writes(v)' => v # w /\ Writes(v)
                          /\ Verifies(v)' => v # w /\ Verifies(v)
  BY <1>5, <1>6 DEF Writes, Verifies
<1>8. current' = current
  <2>1. CASE tx.content = "verified"
    <3>1. current[tx.triple] = tx.confirms /\ current' = [current EXCEPT ![tx.triple] = tx.confirms]
      BY <1>1, <1>4, <2>1 DEF Refer, ConfirmsOlder
    <3> QED BY <1>2, <1>3, <3>1 DEF LogRows
  <2> QED BY <1>1, <2>1 DEF Refer
<1>9. /\ caseOf' \in [Triples -> Places \cup {NoReference}]
      /\ \A t \in Triples : caseOf'[t] = caseOf[t] \/ (t = tx.triple /\ caseOf'[t] = tx.confirms)
  <2>1. caseOf \in [Triples -> Places \cup {NoReference}]
    BY <1>2 DEF LogRows
  <2>2. caseOf' = caseOf \/ caseOf' = [caseOf EXCEPT ![tx.triple] = tx.confirms]
    BY <1>1 DEF Refer
  <2>3. CASE caseOf' = caseOf
    BY <2>1, <2>3
  <2>4. CASE caseOf' = [caseOf EXCEPT ![tx.triple] = tx.confirms]
    BY <1>3, <2>1, <2>4
  <2> QED BY <2>2, <2>3, <2>4
<1>10. LogRows'
  BY <1>1, <1>2, <1>8, <1>9 DEF LogRows
<1>11. Numbered' /\ Foremost' /\ OneVerifies'
  <2>1. Numbered'
    BY <1>1, <1>2, <1>5, <1>7 DEF Numbered
  <2>2. Foremost'
    BY <1>1, <1>2, <1>8 DEF Foremost, ByEngine
  <2>3. OneVerifies'
    BY <1>1, <1>2, <1>5, <1>7 DEF OneVerifies, ByEngine
  <2> QED BY <2>1, <2>2, <2>3
<1>12. Confirming'
  <2> SUFFICES ASSUME NEW v \in Deciders, Writes(v)', deciding'[v].confirms # NoReference
               PROVE  ConfirmsOlder(v)'
    BY DEF Confirming
  <2>1. v # w /\ ConfirmsOlder(v)
    BY <1>2, <1>5, <1>7 DEF Confirming
  <2> QED BY <1>1, <1>5, <1>7, <1>8, <2>1 DEF ConfirmsOlder
<1>13. Superseded'
  <2> SUFFICES ASSUME NEW e \in doomed PROVE SupersededRow(e)'
    BY <1>1 DEF Superseded
  <2>1. SupersededRow(e)
    BY <1>2 DEF Superseded
  <2>2. ASSUME NEW t \in Triples, caseOf'[t] = e.at PROVE e.at \in confirmedLate'
    <3>1. CASE caseOf'[t] = caseOf[t]
      BY <1>1, <2>1, <2>2, <3>1 DEF SupersededRow
    <3>2. CASE t = tx.triple /\ caseOf'[t] = tx.confirms
      <4>1. e = d
        BY <1>2, <2>1, <2>2, <3>2 DEF Numbered, SupersededRow
      <4>2. PICK n \in entries : n.triple = tx.triple /\ n.at > d.at
        BY <1>4, <2>1, <4>1 DEF SupersededRow
      <4>3. latest \notin confirmed
        <5> SUFFICES ASSUME latest \in confirmed PROVE FALSE
          OBVIOUS
        <5>1. latest.at = d.at
          OBVIOUS
        <5>2. Of(tx.triple) # {}
          BY <4>2 DEF Of
        <5>3. n.at <= latest.at
          BY <1>2, <1>3, <4>2, <5>2, LatestIsGreatest
        <5> QED BY <1>2, <4>2, <5>1, <5>3, RowFields DEF Places
      <4> QED BY <1>1, <2>2, <3>2, <4>3
    <3> QED BY <1>9, <3>1, <3>2
  <2> QED BY <1>1, <1>8, <2>1, <2>2 DEF SupersededRow
<1> QED BY <1>10, <1>11, <1>12, <1>13 DEF LogInv

LEMMA ConfirmNothingKeepsLog ==
    ASSUME LogInv, NEW w \in Deciders, ConfirmNothing(w)
    PROVE  LogInv'
<1>1. /\ deciding' = [deciding EXCEPT ![w] = NotDeciding]
      /\ UNCHANGED <<entries, current, caseOf, doomed, confirmedLate>>
  BY DEF ConfirmNothing
<1>2. LogRows /\ Numbered /\ Confirming /\ Foremost /\ OneVerifies /\ Superseded
  BY DEF LogInv
<1>3. \A v \in Deciders : v # w => deciding'[v] = deciding[v]
  BY <1>1, <1>2 DEF LogRows
<1>4. deciding'[w].pc = "idle"
  BY <1>1, <1>2 DEF LogRows, NotDeciding
<1>5. \A v \in Deciders : /\ Writes(v)' => v # w /\ Writes(v)
                          /\ Verifies(v)' => v # w /\ Verifies(v)
  BY <1>3, <1>4 DEF Writes, Verifies
<1>6. LogRows'
  BY <1>1, <1>2 DEF LogRows
<1>7. Numbered' /\ Foremost' /\ OneVerifies' /\ Superseded'
  BY <1>1, <1>2, <1>3, <1>5
     DEF Numbered, Foremost, OneVerifies, ByEngine, Superseded, SupersededRow
<1>8. Confirming'
  <2> SUFFICES ASSUME NEW v \in Deciders, Writes(v)', deciding'[v].confirms # NoReference
               PROVE  ConfirmsOlder(v)'
    BY DEF Confirming
  <2>1. v # w /\ ConfirmsOlder(v)
    BY <1>2, <1>3, <1>5 DEF Confirming
  <2> QED BY <1>1, <1>3, <1>5, <2>1 DEF ConfirmsOlder
<1> QED BY <1>6, <1>7, <1>8 DEF LogInv

(* A new row, of the engine or of a person, is later than what is there. *)
LEMMA InsertKeepsLog ==
    ASSUME LogInv, NEW w \in Deciders, InsertDecision(w)
    PROVE  LogInv'
<1> PICK tx : tx = deciding[w]
  OBVIOUS
<1> PICK row : row = [triple |-> tx.triple, content |-> tx.content, by |-> "engine", at |-> tx.at]
  OBVIOUS
<1>1. /\ tx.pc = "write" /\ tx.confirms = NoReference
      /\ entries' = entries \cup {row}
      /\ Refer(tx.triple, tx.content, tx.at)
      /\ deciding' = [deciding EXCEPT ![w] = NotDeciding]
      /\ UNCHANGED <<doomed, confirmedLate>>
  BY DEF InsertDecision
<1>2. LogRows /\ Numbered /\ Confirming /\ Foremost /\ OneVerifies /\ Superseded
  BY DEF LogInv
<1>3. /\ Writes(w) /\ tx.triple \in Triples /\ tx.content \in Decisions
      /\ tx.at \in Places /\ tx.at # NoReference
  BY <1>1, <1>2, TransactionFields, LogAssumption DEF Writes, Places
<1>4. /\ row \in DecisionRow /\ row.triple = tx.triple /\ row.content = tx.content
      /\ row.by = "engine" /\ row.at = tx.at
  BY <1>3 DEF DecisionRow
<1>5. /\ \A v \in Deciders : v # w => deciding'[v] = deciding[v]
      /\ deciding'[w].pc = "idle"
  BY <1>1, <1>2 DEF LogRows, NotDeciding
<1>6. \A v \in Deciders : /\ Writes(v)' => v # w /\ Writes(v)
                          /\ Verifies(v)' => v # w /\ Verifies(v)
  BY <1>5 DEF Writes, Verifies
<1>7. /\ \A d \in entries : d.at # tx.at
      /\ \A v \in Deciders : v # w /\ Writes(v) => deciding[v].at # tx.at
  BY <1>2, <1>3 DEF Numbered
<1>8. /\ current' \in [Triples -> Places \cup {NoReference}]
      /\ \A t \in Triples : IF tx.content = "verified" /\ t = tx.triple
                             THEN current'[t] = tx.at ELSE current'[t] = current[t]
  BY <1>1, <1>2, <1>3 DEF Refer, LogRows
<1>9. /\ caseOf' \in [Triples -> Places \cup {NoReference}]
      /\ \A t \in Triples : caseOf'[t] = caseOf[t] \/ caseOf'[t] = tx.at
  BY <1>1, <1>2, <1>3 DEF Refer, LogRows
<1>10. LogRows'
  BY <1>1, <1>2, <1>4, <1>8, <1>9 DEF LogRows
<1>11. Numbered'
  BY <1>1, <1>2, <1>4, <1>5, <1>6, <1>7 DEF Numbered
<1>12. Confirming'
  <2> SUFFICES ASSUME NEW v \in Deciders, Writes(v)', deciding'[v].confirms # NoReference
               PROVE  ConfirmsOlder(v)'
    BY DEF Confirming
  <2>1. v # w /\ Writes(v) /\ deciding'[v] = deciding[v] /\ ConfirmsOlder(v)
    BY <1>2, <1>5, <1>6 DEF Confirming
  <2>2. tx.at # deciding[v].confirms
    BY <1>3, <2>1 DEF ConfirmsOlder
  <2>3. deciding[v].content = "verified" => current'[deciding[v].triple] = current[deciding[v].triple]
    <3> SUFFICES ASSUME deciding[v].content = "verified"
                 PROVE  current'[deciding[v].triple] = current[deciding[v].triple]
      OBVIOUS
    <3>1. deciding[v].triple \in Triples
      BY <1>2, <2>1, TransactionFields
    <3>2. ~(tx.content = "verified" /\ deciding[v].triple = tx.triple)
      BY <1>2, <1>3, <2>1 DEF OneVerifies, Verifies
    <3> QED BY <1>8, <3>1, <3>2
  <2> QED BY <1>1, <1>4, <1>5, <1>6, <2>1, <2>2, <2>3 DEF ConfirmsOlder
<1>13. Foremost'
  <2>1. ASSUME NEW r \in entries', ByEngine(r)
        PROVE  current'[r.triple] # NoReference /\ r.at <= current'[r.triple]
    <3>1. CASE r = row
      BY <1>3, <1>4, <1>8, <2>1, <3>1 DEF ByEngine, Places
    <3>2. CASE r \in entries /\ tx.content = "verified" /\ r.triple = tx.triple
      <4>1. r.at < tx.at
        BY <1>2, <1>3, <2>1, <3>2 DEF OneVerifies, Verifies, Writes
      <4> QED BY <1>2, <1>3, <1>8, <3>2, <4>1, RowFields DEF Places
    <3>3. CASE r \in entries /\ ~(tx.content = "verified" /\ r.triple = tx.triple)
      BY <1>2, <1>8, <2>1, <3>3, RowFields DEF Foremost
    <3> QED BY <1>1, <3>1, <3>2, <3>3
  <2>2. ASSUME NEW t \in Triples, current'[t] # NoReference
        PROVE  \E r \in entries' : ByEngine(r) /\ r.triple = t /\ r.at = current'[t]
    <3>1. CASE tx.content = "verified" /\ t = tx.triple
      BY <1>1, <1>4, <1>8, <3>1 DEF ByEngine
    <3>2. CASE ~(tx.content = "verified" /\ t = tx.triple)
      BY <1>1, <1>2, <1>8, <2>2, <3>2 DEF Foremost
    <3> QED BY <3>1, <3>2
  <2> QED BY <2>1, <2>2 DEF Foremost, ByEngine
<1>14. OneVerifies'
  <2> SUFFICES ASSUME NEW v \in Deciders, Verifies(v)'
               PROVE  /\ \A r \in entries' : ByEngine(r) /\ r.triple = deciding'[v].triple
                                                => r.at < deciding'[v].at
                      /\ \A u \in Deciders :
                             Verifies(u)' /\ deciding'[u].triple = deciding'[v].triple => u = v
    BY DEF OneVerifies, ByEngine
  <2>1. v # w /\ Verifies(v) /\ deciding'[v] = deciding[v]
    BY <1>5, <1>6
  <2>2. ~(ByEngine(row) /\ row.triple = deciding[v].triple)
    BY <1>2, <1>3, <1>4, <2>1 DEF OneVerifies, Verifies, ByEngine
  <2> QED BY <1>1, <1>2, <1>5, <1>6, <2>1, <2>2 DEF OneVerifies
<1>15. Superseded'
  <2> SUFFICES ASSUME NEW e \in doomed PROVE SupersededRow(e)'
    BY <1>1 DEF Superseded
  <2>1. SupersededRow(e) /\ e.at # tx.at
    BY <1>2, <1>7 DEF Superseded, SupersededRow
  <2>2. PICK n \in entries \ doomed : n.triple = e.triple /\ n.at > e.at
    BY <2>1 DEF SupersededRow
  <2>3. n \in entries' \ doomed'
    BY <1>1
  <2> QED BY <1>1, <1>8, <1>9, <2>1, <2>2, <2>3 DEF SupersededRow
<1> QED BY <1>10, <1>11, <1>12, <1>13, <1>14, <1>15 DEF LogInv

LEMMA ApproveKeepsLog ==
    ASSUME LogInv, NEW t \in Triples, ApproveByHand(t)
    PROVE  LogInv'
<1> PICK n : n = Now
  OBVIOUS
<1> PICK row : row = [triple |-> t, content |-> "verified", by |-> "human", at |-> n]
  OBVIOUS
<1>1. /\ n <= MaxDecisionRows /\ entries' = entries \cup {row}
      /\ UNCHANGED <<current, caseOf, deciding, doomed, confirmedLate>>
  BY DEF ApproveByHand
<1>2. LogRows /\ Numbered /\ Confirming /\ Foremost /\ OneVerifies /\ Superseded
  BY DEF LogInv
<1>3. /\ n \in Nat /\ n > 0 /\ \A d \in entries : d.at < n
      /\ \A v \in Deciders : Writes(v) => deciding[v].at < n
  BY <1>2, NowIsNew
<1>4. n \in Places
  BY <1>1, <1>3, LogAssumption DEF Places
<1>5. row.triple = t /\ row.by = "human" /\ row.at = n /\ ~ByEngine(row)
  BY DEF ByEngine
<1>6. \A v \in Deciders : (Writes(v)' <=> Writes(v)) /\ (Verifies(v)' <=> Verifies(v))
  BY <1>1 DEF Writes, Verifies
<1>7. LogRows'
  <2>1. row \in DecisionRow
    BY <1>4 DEF DecisionRow
  <2> QED BY <1>1, <1>2, <2>1 DEF LogRows
<1>8. Numbered'
  <2>1. /\ \A d \in entries : d.at # n
        /\ \A v \in Deciders : Writes(v) => deciding[v].at # n
    BY <1>2, <1>3, TransactionFields, RowFields DEF Places
  <2> QED BY <1>1, <1>2, <1>5, <1>6, <2>1 DEF Numbered
<1>9. Confirming'
  <2> SUFFICES ASSUME NEW v \in Deciders, Writes(v), deciding[v].confirms # NoReference
               PROVE  ConfirmsOlder(v)'
    BY <1>1, <1>6 DEF Confirming
  <2>1. ConfirmsOlder(v)
    BY <1>2 DEF Confirming
  <2>2. n # deciding[v].confirms
    BY <1>2, <1>3, <2>1, TransactionFields DEF ConfirmsOlder, Places
  <2> QED BY <1>1, <1>5, <1>6, <2>1, <2>2 DEF ConfirmsOlder
<1>10. Foremost' /\ OneVerifies'
  <2>1. Foremost'
    BY <1>1, <1>2, <1>5 DEF Foremost, ByEngine
  <2>2. OneVerifies'
    BY <1>1, <1>2, <1>5, <1>6 DEF OneVerifies, ByEngine
  <2> QED BY <2>1, <2>2
<1>11. Superseded'
  BY <1>1, <1>2 DEF Superseded, SupersededRow
<1> QED BY <1>7, <1>8, <1>9, <1>10, <1>11 DEF LogInv

-----------------------------------------------------------------------------
(* What the DELETE selects is superseded, and by a row it does not select: *)
(* the latest of the triple is not outdated.                               *)
LEMMA SelectKeepsLog ==
    ASSUME LogInv, SelectDoomed
    PROVE  LogInv'
<1>1. /\ doomed' \subseteq Prunable
      /\ UNCHANGED <<entries, current, caseOf, deciding, confirmedLate>>
  BY DEF SelectDoomed
<1>2. LogRows /\ Numbered /\ Confirming /\ Foremost /\ OneVerifies /\ Superseded
  BY DEF LogInv
<1>3. LogRows' /\ Numbered' /\ Confirming' /\ Foremost' /\ OneVerifies'
  BY <1>1, <1>2 DEF LogRows, Numbered, Confirming, ConfirmsOlder, Foremost, OneVerifies,
                    ByEngine, Writes, Verifies
<1>4. Superseded'
  <2> SUFFICES ASSUME NEW d \in doomed' PROVE SupersededRow(d)'
    BY DEF Superseded
  <2>1. d \in entries /\ d.by = "engine" /\ Unreferenced(d) /\ Outdated(d)
    BY <1>1 DEF Prunable
  <2>2. d.triple \in Triples /\ d.at \in Nat
    BY <1>2, <2>1, RowFields DEF Places
  <2>3. PICK n \in entries : n.triple = d.triple /\ n.at > d.at
    BY <2>1 DEF Outdated
  <2>4. PICK l : l = Latest(d.triple)
    OBVIOUS
  <2>5. /\ l \in entries /\ l.triple = d.triple
        /\ \A e \in entries : e.triple = d.triple => e.at <= l.at
    <3>1. Of(d.triple) # {}
      BY <2>1 DEF Of
    <3> QED BY <1>2, <2>2, <2>4, <3>1, LatestIsGreatest
  <2>6. l.at > d.at
    BY <1>2, <2>2, <2>3, <2>5, RowFields DEF Places
  <2>7. ~Outdated(l)
    BY <1>2, <2>5, RowFields DEF Outdated, Places
  <2>8. l \notin doomed'
    BY <1>1, <2>7 DEF Prunable
  <2>9. \A t \in Triples : current[t] # d.at /\ caseOf[t] # d.at
    BY <2>1 DEF Unreferenced, References
  <2> QED BY <1>1, <2>1, <2>5, <2>6, <2>8, <2>9 DEF SupersededRow
<1> QED BY <1>3, <1>4 DEF LogInv

LEMMA DeleteKeepsLog ==
    ASSUME LogInv, DeleteDoomed
    PROVE  LogInv' /\ current' = current
<1>1. /\ entries' = entries \ doomed /\ doomed' = {}
      /\ UNCHANGED <<deciding, confirmedLate>>
      /\ current' = [t \in Triples |-> IF \E d \in doomed : d.at = current[t]
                                       THEN NoReference ELSE current[t]]
      /\ caseOf' = [t \in Triples |-> IF \E d \in doomed : d.at = caseOf[t]
                                      THEN NoReference ELSE caseOf[t]]
  BY DEF DeleteDoomed
<1>2. LogRows /\ Numbered /\ Confirming /\ Foremost /\ OneVerifies /\ Superseded
  BY DEF LogInv
<1>3. current' = current
  <2>1. \A t \in Triples : ~\E d \in doomed : d.at = current[t]
    BY <1>2 DEF Superseded, SupersededRow
  <2> QED BY <1>1, <1>2, <2>1 DEF LogRows
<1>4. \A v \in Deciders : (Writes(v)' <=> Writes(v)) /\ (Verifies(v)' <=> Verifies(v))
  BY <1>1 DEF Writes, Verifies
<1>5. LogRows'
  BY <1>1, <1>2, <1>3 DEF LogRows
<1>6. Numbered' /\ OneVerifies'
  BY <1>1, <1>2, <1>4 DEF Numbered, OneVerifies, ByEngine
<1>7. Confirming'
  <2> SUFFICES ASSUME NEW v \in Deciders, Writes(v), deciding[v].confirms # NoReference
               PROVE  ConfirmsOlder(v)'
    BY <1>1, <1>4 DEF Confirming
  <2> QED BY <1>1, <1>2, <1>3, <1>4 DEF Confirming, ConfirmsOlder
<1>8. Foremost'
  <2>1. \A t \in Triples, r \in doomed : r.at # current[t]
    BY <1>2 DEF Superseded, SupersededRow
  <2> QED BY <1>1, <1>2, <1>3, <2>1 DEF Foremost, ByEngine
<1>9. Superseded'
  BY <1>1 DEF Superseded
<1> QED BY <1>3, <1>5, <1>6, <1>7, <1>8, <1>9 DEF LogInv

-----------------------------------------------------------------------------
LEMMA LogStep == LogInv /\ [LogNext]_logVars => LogInv'
<1> SUFFICES ASSUME LogInv, [LogNext]_logVars PROVE LogInv'
  OBVIOUS
<1>1. ASSUME NEW w \in Deciders, NEW t \in Triples, NEW c \in Decisions, ReadLatest(w, t, c)
      PROVE  LogInv'
  BY <1>1, ReadKeepsLog
<1>2. ASSUME NEW w \in Deciders, Confirm(w) \/ ConfirmNothing(w) \/ InsertDecision(w)
      PROVE  LogInv'
  BY <1>2, ConfirmKeepsLog, ConfirmNothingKeepsLog, InsertKeepsLog
<1>3. ASSUME NEW t \in Triples, ApproveByHand(t) PROVE LogInv'
  BY <1>3, ApproveKeepsLog
<1>4. CASE SelectDoomed
  BY <1>4, SelectKeepsLog
<1>5. CASE DeleteDoomed
  BY <1>5, DeleteKeepsLog
<1>6. CASE UNCHANGED logVars
  BY <1>6 DEF LogInv, LogRows, Numbered, Confirming, ConfirmsOlder, Foremost, OneVerifies,
              ByEngine, Writes, Verifies, Superseded, SupersededRow, logVars
<1> QED BY <1>1, <1>2, <1>3, <1>4, <1>5, <1>6 DEF LogNext

LEMMA LogAlwaysSound == LogSpec => []LogInv
BY LogStart, LogStep, PTL DEF LogSpec

(* A step that takes a row away is the DELETE, and what it takes is        *)
(* superseded.                                                             *)
LEMMA FoundationsStayOnStep == LogInv /\ [LogNext]_logVars => [FoundationsStay]_logVars
<1> SUFFICES ASSUME LogInv, LogNext PROVE FoundationsStay
  OBVIOUS
<1>1. LogRows /\ Numbered /\ Superseded
  BY DEF LogInv
<1>2. \A r \in Places : r # NoReference
  BY LogAssumption DEF Places
<1> DEFINE StillRefer ==
        \A t \in Triples : /\ current[t] # NoReference => current'[t] # NoReference
                           /\ caseOf[t] # NoReference => caseOf'[t] # NoReference
<1>3. ASSUME entries \subseteq entries', StillRefer
      PROVE  FoundationsStay
  <2>1. \A d \in entries : d.at >= d.at
    BY <1>1, RowFields DEF Places
  <2>2. \A d \in entries : \E e \in entries' : e.triple = d.triple /\ e.at >= d.at
    BY <1>3, <2>1
  <2>3. entries \ entries' = {}
    BY <1>3
  <2>4. /\ \A d \in entries \ entries' : d.by = "engine"
        /\ \A d \in entries : Latest(d.triple) = d =>
               \E e \in entries' : e.triple = d.triple /\ e.at >= d.at
    BY <2>2, <2>3
  <2> QED BY <1>3, <2>4 DEF FoundationsStay
<1>4. ASSUME NEW t \in Triples, NEW c, NEW r \in Places, Refer(t, c, r)
      PROVE  StillRefer
  <2>1. current' = current \/ current' = [current EXCEPT ![t] = r]
    BY <1>4 DEF Refer
  <2>2. caseOf' = caseOf \/ caseOf' = [caseOf EXCEPT ![t] = r]
    BY <1>4 DEF Refer
  <2> QED BY <1>1, <1>2, <2>1, <2>2 DEF LogRows
<1>5. ASSUME NEW w \in Deciders, Confirm(w) PROVE FoundationsStay
  <2>1. PICK d \in entries : d.at = deciding[w].confirms
    BY <1>5 DEF Confirm
  <2>2. /\ deciding[w].confirms \in Places /\ deciding[w].triple \in Triples
    BY <1>1, <1>5, <2>1, RowFields, TransactionFields DEF Confirm, Writes
  <2>3. Refer(deciding[w].triple, deciding[w].content, deciding[w].confirms)
        /\ entries' = entries
    BY <1>5 DEF Confirm
  <2> QED BY <1>3, <1>4, <2>2, <2>3
<1>6. ASSUME NEW w \in Deciders, InsertDecision(w) PROVE FoundationsStay
  <2>1. deciding[w].at \in Places /\ deciding[w].triple \in Triples
    BY <1>1, <1>6, TransactionFields DEF InsertDecision, Writes
  <2>2. Refer(deciding[w].triple, deciding[w].content, deciding[w].at)
        /\ entries \subseteq entries'
    BY <1>6 DEF InsertDecision
  <2> QED BY <1>3, <1>4, <2>1, <2>2
<1>7. ASSUME UNCHANGED <<current, caseOf>>, entries \subseteq entries' PROVE FoundationsStay
  BY <1>3, <1>7
<1>8. CASE DeleteDoomed
  <2>1. current' = current /\ entries' = entries \ doomed /\ UNCHANGED confirmedLate
    BY <1>8, DeleteKeepsLog DEF DeleteDoomed
  <2>2. \A d \in entries \ entries' : d.by = "engine"
    BY <1>1, <2>1 DEF Superseded, SupersededRow
  <2>3. ASSUME NEW d \in entries
        PROVE  \E e \in entries' : e.triple = d.triple /\ e.at >= d.at
    <3>1. CASE d \in doomed
      <4>1. PICK n \in entries \ doomed : n.triple = d.triple /\ n.at > d.at
        BY <1>1, <3>1 DEF Superseded, SupersededRow
      <4>2. n.at >= d.at
        BY <1>1, <4>1, RowFields DEF Places
      <4> QED BY <2>1, <4>1, <4>2
    <3>2. CASE d \notin doomed
      <4>1. d.at >= d.at
        BY <1>1, RowFields DEF Places
      <4> QED BY <2>1, <3>2, <4>1
    <3> QED BY <3>1, <3>2
  <2>4. ASSUME NEW t \in Triples, caseOf[t] # NoReference, caseOf[t] \notin confirmedLate
        PROVE  caseOf'[t] # NoReference
    <3>1. ~\E d \in doomed : d.at = caseOf[t]
      BY <1>1, <2>4 DEF Superseded, SupersededRow
    <3> QED BY <1>8, <2>4, <3>1 DEF DeleteDoomed
  <2> HIDE DEF LogInv
  <2>5. \A t \in Triples : current[t] # NoReference => current'[t] # NoReference
    BY <2>1
  <2> QED BY <2>2, <2>3, <2>4, <2>5 DEF FoundationsStay
<1>9. CASE SelectDoomed
  BY <1>7, <1>9 DEF SelectDoomed
<1>10. ASSUME NEW w \in Deciders, ConfirmNothing(w) PROVE FoundationsStay
  BY <1>7, <1>10 DEF ConfirmNothing
<1>11. ASSUME NEW w \in Deciders, NEW t \in Triples, NEW c \in Decisions, ReadLatest(w, t, c)
       PROVE  FoundationsStay
  BY <1>7, <1>11 DEF ReadLatest
<1>12. ASSUME NEW t \in Triples, ApproveByHand(t) PROVE FoundationsStay
  BY <1>7, <1>12 DEF ApproveByHand
<1> QED BY <1>5, <1>6, <1>8, <1>9, <1>10, <1>11, <1>12 DEF LogNext

(* The retention takes nothing that something is built on: what people     *)
(* decided stays, so does the latest decision of each triple, what a live  *)
(* relation refers to, and what a case refers to unless it was confirmed   *)
(* after a newer one had superseded it.                                    *)
THEOREM FoundationsAlwaysKept == LogSpec => FoundationsKept
<1>1. LogInv /\ [LogNext]_logVars => [FoundationsStay]_logVars
  BY FoundationsStayOnStep
<1> QED BY <1>1, LogAlwaysSound, PTL DEF LogSpec, FoundationsKept

-----------------------------------------------------------------------------
(* The ledger of jobs.  A row that stands alone tells the outcome of its   *)
(* job, or the job is still going to end and write it: it is with BullMQ   *)
(* and not yet ended, or an enqueuer is about to add it.  Of two rows of   *)
(* an operation none has succeeded, so that the retention never leaves one *)
(* of them alone.                                                          *)
LedgerRow == [op : Operations \cup {"recheck"}, status : LedgerStatuses, finished : Nat]
JobStates == Outstanding \cup {"none", "completed", "failed"}
BullJob == [state : JobStates, attempt : Nat, stalls : Nat]
Asking == [at : {"idle", "look", "remove", "add", "row"}, op : Operations \cup {"none"}]

LedgerTyped ==
    /\ bull \in [Operations -> BullJob]
    /\ hand \in [Operations -> {"none", "taken", "marked", "ended"}]
    /\ ledger \in Seq(LedgerRow)
    /\ asker \in [Enqueuers -> Asking]
    /\ \A e \in Enqueuers : asker[e].at # "idle" => asker[e].op \in Operations
    /\ outcome \in [Operations -> LedgerStatuses \cup {"none"}]
    /\ clock \in Nat \ {0}

HandHoldsActive == \A o \in Operations : hand[o] # "none" => bull[o].state = "active"

(* The rows of the rechecks, and the time of every row.                    *)
RowsDated ==
    \A i \in DOMAIN ledger :
        /\ ledger[i].finished < clock
        /\ ledger[i].op = "recheck" => ledger[i].status = "succeeded"

TwoRowsWait ==
    \A i, j \in DOMAIN ledger :
        ledger[i].op = ledger[j].op /\ ledger[i].op \in Operations /\ i # j =>
            ledger[i].status \notin {"running", "succeeded"}

BeingAdded(o) == \E e \in Enqueuers : asker[e].at = "add" /\ asker[e].op = o
Pending(o) ==
    \/ bull[o].state \in Outstanding /\ hand[o] # "ended"
    \/ bull[o].state = "none" /\ BeingAdded(o)

RowTells(o, i) ==
    /\ ledger[i].status = outcome[o]
    /\ o = "apply" /\ ~rechecked =>
           /\ ledger[i].finished > 0
           /\ \A k \in DOMAIN ledger :
                  ledger[k].op = "recheck" => ledger[k].finished < ledger[i].finished

Alone(i) == \A j \in DOMAIN ledger : ledger[j].op = ledger[i].op => j = i

LoneRowsTell ==
    \A i \in DOMAIN ledger :
        ledger[i].op \in Operations \ muddled /\ Alone(i) =>
            RowTells(ledger[i].op, i) \/ Pending(ledger[i].op)

LedgerInv ==
    /\ LedgerTyped /\ HandHoldsActive /\ RowsDated /\ TwoRowsWait /\ LoneRowsTell

LEMMA LedgerStart == LedgerInit => LedgerInv
<1> SUFFICES ASSUME LedgerInit PROVE LedgerInv
  OBVIOUS
<1> USE DEF LedgerInit
<1>1. Gone \in BullJob /\ NotAsking \in Asking
  BY DEF Gone, BullJob, JobStates, NotAsking, Asking
<1>2. LedgerTyped
  BY <1>1 DEF LedgerTyped, NotAsking
<1>3. DOMAIN ledger = {}
  OBVIOUS
<1> QED BY <1>2, <1>3 DEF LedgerInv, HandHoldsActive, RowsDated, TwoRowsWait, LoneRowsTell

-----------------------------------------------------------------------------
LEMMA TwoRunsCount ==
    ASSUME LedgerTyped, NEW o
    PROVE  Cardinality(RunsOf(o)) > 1 <=>
               \E i, j \in DOMAIN ledger : ledger[i].op = o /\ ledger[j].op = o /\ i # j
<1>1. IsFiniteSet(RunsOf(o)) /\ Cardinality(RunsOf(o)) \in Nat
  <2>1. Len(ledger) \in Nat /\ DOMAIN ledger = 1..Len(ledger)
    BY DEF LedgerTyped
  <2>2. IsFiniteSet(DOMAIN ledger)
    BY <2>1, FS_Interval
  <2>3. RunsOf(o) \in SUBSET (DOMAIN ledger)
    BY DEF RunsOf
  <2> QED BY <2>2, <2>3, FS_Subset, FS_CardinalityType
<1>2. Cardinality(RunsOf(o)) = 0 <=> RunsOf(o) = {}
  BY <1>1, FS_EmptySet
<1>3. Cardinality(RunsOf(o)) = 1 <=> \E i : RunsOf(o) = {i}
  BY <1>1, FS_Singleton
<1>4. ASSUME Cardinality(RunsOf(o)) > 1
      PROVE  \E i, j \in RunsOf(o) : i # j
  <2>1. PICK n \in Nat : n = Cardinality(RunsOf(o))
    BY <1>1
  <2>2. RunsOf(o) # {} /\ \A i : RunsOf(o) # {i}
    BY <1>2, <1>3, <1>4, <2>1
  <2> QED BY <2>2
<1>5. ASSUME NEW i \in RunsOf(o), NEW j \in RunsOf(o), i # j
      PROVE  Cardinality(RunsOf(o)) > 1
  <2>1. RunsOf(o) # {} /\ \A k : RunsOf(o) # {k}
    BY <1>5
  <2>2. PICK n \in Nat : n = Cardinality(RunsOf(o))
    BY <1>1
  <2>3. n # 0 /\ n # 1
    BY <1>2, <1>3, <2>1, <2>2
  <2> QED BY <2>2, <2>3
<1>6. \A i : i \in RunsOf(o) <=> i \in DOMAIN ledger /\ ledger[i].op = o
  BY DEF RunsOf
<1> QED BY <1>4, <1>5, <1>6

(* A step that leaves the rows as they are. *)
LEMMA SameRows ==
    ASSUME LedgerInv, LedgerTyped', HandHoldsActive', ledger' = ledger, clock' >= clock,
           \A o \in Operations \ muddled' :
               /\ o \notin muddled
               /\ \/ Pending(o)'
                  \/ ~Pending(o) /\ UNCHANGED <<outcome, rechecked>>
    PROVE  LedgerInv'
<1>1. clock \in Nat /\ clock' \in Nat /\ \A i \in DOMAIN ledger : ledger[i].finished \in Nat
  <2>1. \A i \in DOMAIN ledger : ledger[i] \in LedgerRow
    BY DEF LedgerInv, LedgerTyped
  <2> QED BY <2>1 DEF LedgerInv, LedgerTyped, LedgerRow
<1>2. RowsDated' /\ TwoRowsWait'
  BY <1>1 DEF LedgerInv, RowsDated, TwoRowsWait
<1>3. ASSUME NEW i \in DOMAIN ledger', ledger'[i].op \in Operations \ muddled', Alone(i)'
      PROVE  RowTells(ledger[i].op, i)' \/ Pending(ledger[i].op)'
  <2>1. PICK o : o = ledger[i].op
    OBVIOUS
  <2>2. o \in Operations \ muddled /\ Alone(i)
    BY <1>3, <2>1 DEF Alone
  <2>3. CASE Pending(o)'
    BY <2>1, <2>3
  <2>4. CASE ~Pending(o) /\ UNCHANGED <<outcome, rechecked>>
    <3>1. RowTells(o, i)
      BY <2>1, <2>2, <2>4 DEF LedgerInv, LoneRowsTell
    <3>2. RowTells(o, i)'
      BY <2>4, <3>1 DEF RowTells
    <3> QED BY <2>1, <3>2
  <2> QED BY <1>3, <2>1, <2>3, <2>4
<1>4. LoneRowsTell'
  BY <1>3 DEF LoneRowsTell
<1> QED BY <1>2, <1>4 DEF LedgerInv

LEMMA JobFields ==
    ASSUME LedgerTyped, NEW o \in Operations
    PROVE  /\ bull[o] \in BullJob /\ bull[o].state \in JobStates
           /\ [Gone EXCEPT !.state = "prioritized"] \in BullJob
           /\ \A s \in JobStates : /\ [bull[o] EXCEPT !.state = s] \in BullJob
                                   /\ [bull[o] EXCEPT !.state = s].state = s
BY DEF LedgerTyped, BullJob, Gone, JobStates, Outstanding

(* The enqueuers, up to the row.                                           *)
LEMMA AskingKeepsLedger ==
    ASSUME LedgerInv, NEW e \in Enqueuers,
           (\E o \in Operations : Submit(e, o)) \/ Look(e) \/ RemoveJob(e) \/ AddJob(e)
    PROVE  LedgerInv'
<1>0. LedgerTyped /\ HandHoldsActive
  BY DEF LedgerInv
<1>1. /\ UNCHANGED <<hand, ledger, outcome, clock, muddled, rechecked>>
      /\ clock \in Nat
  BY <1>0 DEF Submit, Look, RemoveJob, AddJob, toldVars, jobVars, LedgerTyped
<1>2. asker[e] \in Asking /\ asker \in [Enqueuers -> Asking]
  BY <1>0 DEF LedgerTyped
<1>3. CASE (\E o \in Operations : Submit(e, o)) \/ Look(e)
  <2>1. bull' = bull /\ asker[e].at # "add"
    BY <1>3 DEF Submit, Look, jobVars
  <2>2. /\ asker' \in [Enqueuers -> Asking]
        /\ \A f \in Enqueuers : f # e => asker'[f] = asker[f]
        /\ asker'[e].at # "idle" => asker'[e].op \in Operations
    <3>1. ASSUME NEW o \in Operations, Submit(e, o)
          PROVE  /\ asker' \in [Enqueuers -> Asking]
                 /\ \A f \in Enqueuers : f # e => asker'[f] = asker[f]
                 /\ asker'[e].op \in Operations
      BY <1>2, <3>1 DEF Submit, Asking
    <3>2. CASE Look(e)
      <4>0. asker[e].op \in Operations
        BY <1>0, <3>2 DEF LedgerTyped, Look
      <4>1. PICK to \in Asking : asker' = [asker EXCEPT ![e] = to]
                                 /\ (to.at # "idle" => to.op \in Operations)
        <5>1. /\ NotAsking \in Asking /\ NotAsking.at = "idle"
              /\ \A at \in {"add", "remove"} :
                     /\ [asker[e] EXCEPT !.at = at] \in Asking
                     /\ [asker[e] EXCEPT !.at = at].op \in Operations
          BY <1>2, <4>0 DEF Asking, NotAsking
        <5>2. \/ asker' = [asker EXCEPT ![e] = NotAsking]
              \/ asker' = [asker EXCEPT ![e] = [asker[e] EXCEPT !.at = "add"]]
              \/ asker' = [asker EXCEPT ![e] = [asker[e] EXCEPT !.at = "remove"]]
          BY <3>2 DEF Look
        <5> QED BY <5>1, <5>2
      <4> QED BY <1>2, <4>1
    <3> QED BY <1>3, <3>1, <3>2
  <2>3. LedgerTyped' /\ HandHoldsActive'
    BY <1>0, <1>1, <2>1, <2>2 DEF LedgerTyped, HandHoldsActive
  <2>4. ASSUME NEW o \in Operations, Pending(o) PROVE Pending(o)'
    BY <1>1, <2>1, <2>2, <2>4 DEF Pending, BeingAdded
  <2> QED BY <1>1, <2>3, <2>4, SameRows
<1>4. CASE RemoveJob(e) \/ AddJob(e)
  <2>1. PICK o : o = asker[e].op
    OBVIOUS
  <2>2. o \in Operations
    BY <1>0, <1>4, <2>1 DEF LedgerTyped, RemoveJob, AddJob
  <2>3. PICK at \in {"add", "row"} : asker' = [asker EXCEPT ![e].at = at]
    BY <1>4 DEF RemoveJob, AddJob
  <2>4. /\ asker' \in [Enqueuers -> Asking]
        /\ \A f \in Enqueuers : f # e => asker'[f] = asker[f]
        /\ asker'[e].at = at /\ asker'[e].op = o
    <3>1. [asker[e] EXCEPT !.at = at] \in Asking /\ [asker[e] EXCEPT !.at = at].op = o
          /\ [asker[e] EXCEPT !.at = at].at = at
      BY <1>2, <2>1 DEF Asking
    <3>2. asker' = [asker EXCEPT ![e] = [asker[e] EXCEPT !.at = at]]
      BY <2>3
    <3> QED BY <1>2, <3>1, <3>2
  <2>5. /\ bull' \in [Operations -> BullJob]
        /\ \A p \in Operations : p # o => bull'[p] = bull[p]
        /\ \/ /\ bull'[o] = bull[o] /\ (RemoveJob(e) => bull[o].state = "active")
              /\ AddJob(e) => bull[o].state # "none"
           \/ RemoveJob(e) /\ bull'[o].state = "none" /\ bull[o].state # "active"
           \/ AddJob(e) /\ bull'[o].state = "prioritized" /\ bull[o].state = "none"
    <3>1. bull \in [Operations -> BullJob]
      BY <1>0 DEF LedgerTyped
    <3>2. bull[o] \in BullJob
      BY <2>2, <3>1
    <3>3. Gone \in BullJob /\ Gone.state = "none" /\ [Gone EXCEPT !.state = "prioritized"] \in BullJob
          /\ [Gone EXCEPT !.state = "prioritized"].state = "prioritized"
      BY DEF Gone, BullJob, JobStates, Outstanding
    <3>4. CASE RemoveJob(e)
      <4>1. bull' = [bull EXCEPT ![o] = IF bull[o].state = "active" THEN bull[o] ELSE Gone]
        BY <2>1, <3>4 DEF RemoveJob
      <4>2. ~AddJob(e)
        BY <3>4 DEF RemoveJob, AddJob
      <4> QED BY <2>2, <3>1, <3>2, <3>3, <3>4, <4>1, <4>2
    <3>5. CASE AddJob(e)
      <4>1. bull' = [bull EXCEPT ![o] = IF bull[o].state = "none"
                                        THEN [Gone EXCEPT !.state = "prioritized"] ELSE bull[o]]
        BY <2>1, <3>5 DEF AddJob
      <4>2. ~RemoveJob(e)
        BY <3>5 DEF RemoveJob, AddJob
      <4> QED BY <2>2, <3>1, <3>2, <3>3, <3>5, <4>1, <4>2
    <3> QED BY <1>4, <3>4, <3>5
  <2>6. LedgerTyped'
    BY <1>0, <1>1, <2>2, <2>4, <2>5 DEF LedgerTyped
  <2>7. HandHoldsActive'
    BY <1>0, <1>1, <2>5 DEF HandHoldsActive
  <2>8. ASSUME NEW p \in Operations, Pending(p) PROVE Pending(p)'
    <3>1. CASE p # o
      BY <1>1, <2>4, <2>5, <2>8, <3>1, <2>1 DEF Pending, BeingAdded
    <3>2. CASE p = o /\ RemoveJob(e)
      <4>1. asker'[e].at = "add"
        <5>1. asker' = [asker EXCEPT ![e].at = "add"]
          BY <3>2 DEF RemoveJob
        <5> QED BY <1>2, <5>1
      <4>2. CASE bull'[o] = bull[o] /\ bull[o].state = "active"
        BY <1>1, <2>8, <3>2, <4>2 DEF Pending, Outstanding
      <4>3. CASE bull'[o].state = "none"
        BY <2>4, <3>2, <4>1, <4>3 DEF Pending, BeingAdded
      <4>4. ~AddJob(e)
        BY <3>2 DEF RemoveJob, AddJob
      <4> QED BY <2>5, <3>2, <4>2, <4>3, <4>4
    <3>3. CASE p = o /\ AddJob(e)
      <4>1. CASE bull'[o].state = "prioritized" /\ bull[o].state = "none"
        BY <1>0, <1>1, <3>3, <4>1 DEF Pending, Outstanding, HandHoldsActive
      <4>2. CASE bull'[o] = bull[o] /\ bull[o].state # "none"
        BY <1>1, <2>8, <3>3, <4>2 DEF Pending
      <4>3. ~RemoveJob(e)
        BY <3>3 DEF RemoveJob, AddJob
      <4> QED BY <2>5, <3>3, <4>1, <4>2, <4>3
    <3> QED BY <1>4, <3>1, <3>2, <3>3
  <2> QED BY <1>1, <2>6, <2>7, <2>8, SameRows
<1> QED BY <1>3, <1>4

(* A step that leaves rows and enqueuers alone and moves one job.          *)
LEMMA OneJobMoves ==
    ASSUME LedgerInv, NEW o \in Operations,
           UNCHANGED <<ledger, asker, clock, outcome, rechecked>>,
           NEW job \in BullJob, bull' = [bull EXCEPT ![o] = job],
           NEW h \in {"none", "taken", "marked", "ended"}, hand' = [hand EXCEPT ![o] = h],
           h # "none" => job.state = "active",
           muddled \subseteq muddled', muddled' \subseteq muddled \cup {o},
           \/ o \in muddled'
           \/ job.state \in Outstanding /\ h # "ended"
           \/ ~Pending(o)
    PROVE  LedgerInv'
<1>0. LedgerTyped /\ HandHoldsActive
  BY DEF LedgerInv
<1>1. /\ bull' \in [Operations -> BullJob] /\ bull'[o] = job
      /\ \A p \in Operations : p # o => bull'[p] = bull[p]
  <2>1. bull \in [Operations -> BullJob]
    BY <1>0 DEF LedgerTyped
  <2> QED BY <2>1
<1>2. /\ hand' \in [Operations -> {"none", "taken", "marked", "ended"}] /\ hand'[o] = h
      /\ \A p \in Operations : p # o => hand'[p] = hand[p]
  <2>1. hand \in [Operations -> {"none", "taken", "marked", "ended"}]
    BY <1>0 DEF LedgerTyped
  <2> QED BY <2>1
<1>3. LedgerTyped' /\ HandHoldsActive'
  BY <1>0, <1>1, <1>2 DEF LedgerTyped, HandHoldsActive
<1>4. clock' >= clock
  BY <1>0 DEF LedgerTyped
<1>5. ASSUME NEW p \in Operations \ muddled'
      PROVE  /\ p \notin muddled
             /\ \/ Pending(p)'
                \/ ~Pending(p) /\ UNCHANGED <<outcome, rechecked>>
  <2>1. CASE p = o
    BY <1>1, <1>2, <1>5, <2>1 DEF Pending, Outstanding
  <2>2. CASE p # o
    <3>1. Pending(p)' <=> Pending(p)
      BY <1>1, <1>2, <2>2 DEF Pending, BeingAdded
    <3> QED BY <3>1
  <2> QED BY <2>1, <2>2
<1> QED BY <1>3, <1>4, <1>5, SameRows

LEMMA TakingKeepsLedger ==
    ASSUME LedgerInv, NEW o \in Operations, TakeJob(o)
    PROVE  LedgerInv'
<1>0. LedgerTyped
  BY DEF LedgerInv
<1>1. PICK job : job = [bull[o] EXCEPT !.state = "active"]
  OBVIOUS
<1>2. job \in BullJob /\ job.state = "active" /\ "active" \in Outstanding
  BY <1>0, <1>1, JobFields DEF JobStates, Outstanding
<1>3. bull' = [bull EXCEPT ![o] = job] /\ hand' = [hand EXCEPT ![o] = "taken"]
      /\ UNCHANGED <<ledger, asker, clock, outcome, rechecked, muddled>>
  BY <1>1 DEF TakeJob, toldVars
<1> QED BY <1>2, <1>3, OneJobMoves

LEMMA JobUpdated ==
    ASSUME NEW r \in BullJob, NEW s \in JobStates, NEW n \in Nat
    PROVE  /\ [r EXCEPT !.state = s, !.attempt = n] \in BullJob
           /\ [r EXCEPT !.stalls = n, !.state = s] \in BullJob
           /\ [r EXCEPT !.stalls = n, !.state = s].state = s
BY DEF BullJob

LEMMA SettlingKeepsLedger ==
    ASSUME LedgerInv, NEW o \in Operations, SettleJob(o)
    PROVE  LedgerInv'
<1>0. LedgerTyped /\ HandHoldsActive
  BY DEF LedgerInv
<1>1. /\ bull[o] \in BullJob /\ bull[o].attempt \in Nat /\ bull[o].stalls \in Nat
      /\ {"completed", "failed", "delayed"} \subseteq JobStates
  <2>1. bull[o] \in BullJob
    BY <1>0 DEF LedgerTyped
  <2> QED BY <2>1 DEF BullJob, JobStates, Outstanding
<1>2. PICK job \in BullJob : bull' = [bull EXCEPT ![o] = job]
  <2>1. PICK s \in JobStates : s = CASE outcome[o] = "succeeded" -> "completed"
                                     [] outcome[o] = "dead_letter" -> "failed"
                                     [] OTHER -> "delayed"
    BY <1>1
  <2>2. PICK n \in Nat : n = IF outcome[o] = "failed" THEN bull[o].attempt + 1 ELSE bull[o].attempt
    BY <1>1
  <2>3. bull' = [bull EXCEPT ![o].state = s, ![o].attempt = n]
    BY <2>1, <2>2 DEF SettleJob
  <2>4. bull' = [bull EXCEPT ![o] = [bull[o] EXCEPT !.state = s, !.attempt = n]]
    <3>1. bull \in [Operations -> BullJob]
      BY <1>0 DEF LedgerTyped
    <3> QED BY <2>3, <3>1
  <2>5. [bull[o] EXCEPT !.state = s, !.attempt = n] \in BullJob
    BY <1>1, JobUpdated
  <2> QED BY <2>4, <2>5
<1>3. ~Pending(o)
  BY <1>0 DEF SettleJob, Pending, HandHoldsActive
<1>4. hand' = [hand EXCEPT ![o] = "none"]
      /\ UNCHANGED <<ledger, asker, clock, outcome, rechecked, muddled>>
  BY DEF SettleJob, toldVars
<1> QED BY <1>2, <1>3, <1>4, OneJobMoves

LEMMA DyingKeepsLedger ==
    ASSUME LedgerInv, NEW o \in Operations, Die(o)
    PROVE  LedgerInv'
<1>0. LedgerTyped
  BY DEF LedgerInv
<1>1. bull[o] \in BullJob /\ bull[o].attempt \in Nat /\ bull[o].stalls \in Nat
  <2>1. bull[o] \in BullJob
    BY <1>0 DEF LedgerTyped
  <2> QED BY <2>1 DEF BullJob
<1>2. PICK s \in {"prioritized", "failed"} : s = IF bull[o].stalls < JobStalls THEN "prioritized" ELSE "failed"
  OBVIOUS
<1>n. PICK n \in Nat : n = bull[o].stalls + 1
  BY <1>1
<1>3. PICK job : job = [bull[o] EXCEPT !.stalls = n, !.state = s]
  OBVIOUS
<1>4. job \in BullJob /\ job.state = s
  <2>1. s \in JobStates
    BY DEF JobStates, Outstanding
  <2> QED BY <1>1, <1>3, <2>1, JobUpdated
<1>5. bull' = [bull EXCEPT ![o] = job]
  <2>1. bull' = [bull EXCEPT ![o].stalls = @ + 1, ![o].state = s]
    BY <1>2 DEF Die
  <2>2. bull \in [Operations -> BullJob]
    BY <1>0 DEF LedgerTyped
  <2>3. bull' = [bull EXCEPT ![o] = [bull[o] EXCEPT !.stalls = n, !.state = s]]
    BY <1>n, <2>1, <2>2
  <2> QED BY <1>3, <2>3
<1>6. /\ hand' = [hand EXCEPT ![o] = "none"]
      /\ muddled' = IF s = "prioritized" THEN muddled ELSE muddled \cup {o}
      /\ UNCHANGED <<ledger, asker, clock, outcome, rechecked>>
  BY <1>2 DEF Die
<1> QED BY <1>2, <1>4, <1>5, <1>6, OneJobMoves DEF Outstanding

-----------------------------------------------------------------------------
(* A step that rewrites the rows of one operation.                         *)
LEMMA RowsOfOne ==
    ASSUME LedgerInv, LedgerTyped', HandHoldsActive', NEW o \in Operations, clock' >= clock,
           DOMAIN ledger' = DOMAIN ledger,
           \A i \in DOMAIN ledger :
               /\ ledger'[i].op = ledger[i].op
               /\ ledger[i].op # o => ledger'[i] = ledger[i]
               /\ ledger[i].op = o => ledger'[i].finished < clock',
           \/ ledger' = ledger
           \/ \A i \in DOMAIN ledger :
                  ledger[i].op = o => ledger'[i].status \notin {"running", "succeeded"}
           \/ \A i, j \in DOMAIN ledger : ledger[i].op = o /\ ledger[j].op = o => i = j,
           \A p \in Operations : p # o =>
               /\ p \in muddled <=> p \in muddled'
               /\ Pending(p) <=> Pending(p)'
               /\ outcome'[p] = outcome[p]
               /\ p = "apply" => rechecked' = rechecked,
           \/ o \in muddled'
           \/ Pending(o)'
           \/ \A i \in DOMAIN ledger : ledger'[i].op = o /\ Alone(i)' => RowTells(o, i)'
    PROVE  LedgerInv'
<1>1. clock \in Nat /\ clock' \in Nat
      /\ \A i \in DOMAIN ledger : ledger[i].finished \in Nat /\ ledger'[i].finished \in Nat
  <2>1. \A i \in DOMAIN ledger : ledger[i] \in LedgerRow /\ ledger'[i] \in LedgerRow
    BY DEF LedgerInv, LedgerTyped
  <2> QED BY <2>1 DEF LedgerInv, LedgerTyped, LedgerRow
<1>2. RowsDated'
  <2>1. "recheck" # o
    BY LedgerAssumption
  <2>2. RowsDated
    BY DEF LedgerInv
  <2>3. ASSUME NEW i \in DOMAIN ledger
        PROVE  ledger'[i].finished < clock'
               /\ (ledger'[i].op = "recheck" => ledger'[i].status = "succeeded")
    BY <1>1, <2>1, <2>2 DEF RowsDated
  <2> QED BY <2>3 DEF RowsDated
<1>3. TwoRowsWait'
  <2>1. TwoRowsWait
    BY DEF LedgerInv
  <2>2. ASSUME NEW i \in DOMAIN ledger, NEW j \in DOMAIN ledger, i # j,
               ledger'[i].op = ledger'[j].op, ledger'[i].op \in Operations
        PROVE  ledger'[i].status \notin {"running", "succeeded"}
    <3>1. ledger[i].op = ledger[j].op /\ ledger[i].op \in Operations
      BY <2>2
    <3>2. ledger[i].status \notin {"running", "succeeded"}
      BY <2>1, <2>2, <3>1 DEF TwoRowsWait
    <3>3. CASE ledger[i].op = o
      BY <2>2, <3>1, <3>2, <3>3
    <3>4. CASE ledger[i].op # o
      BY <3>2, <3>4
    <3> QED BY <3>3, <3>4
  <2> QED BY <2>2 DEF TwoRowsWait
<1>4. ASSUME NEW i \in DOMAIN ledger', ledger'[i].op \in Operations \ muddled', Alone(i)'
      PROVE  RowTells(ledger[i].op, i)' \/ Pending(ledger[i].op)'
  <2>1. PICK p : p = ledger[i].op
    OBVIOUS
  <2>2. ledger'[i].op = p /\ p \in Operations \ muddled'
    BY <1>4, <2>1
  <2>3. CASE p = o
    BY <1>4, <2>2, <2>3
  <2>4. CASE p # o
    <3>1. Alone(i)
      BY <1>4 DEF Alone
    <3>2. RowTells(p, i) \/ Pending(p)
      BY <2>1, <2>2, <2>4, <3>1 DEF LedgerInv, LoneRowsTell
    <3>3. ASSUME RowTells(p, i) PROVE RowTells(p, i)'
      <4>1. ledger'[i] = ledger[i]
        BY <2>1, <2>4
      <4>2. \A k \in DOMAIN ledger : ledger'[k].op = "recheck" => ledger'[k] = ledger[k]
        BY LedgerAssumption
      <4> QED BY <2>2, <2>4, <3>3, <4>1, <4>2 DEF RowTells
    <3> QED BY <2>2, <2>4, <3>2, <3>3
  <2> QED BY <2>3, <2>4
<1>5. LoneRowsTell'
  BY <1>4 DEF LoneRowsTell
<1> QED BY <1>2, <1>3, <1>5 DEF LedgerInv

LEMMA RowsUpdated ==
    ASSUME LedgerTyped, NEW o \in Operations, NEW status \in LedgerStatuses, NEW finished \in Nat,
           NEW rows, rows = UpdateRows(o, status, finished)
    PROVE  /\ rows \in Seq(LedgerRow) /\ DOMAIN rows = DOMAIN ledger
           /\ \A i \in DOMAIN ledger :
                  rows[i].op = ledger[i].op /\ (ledger[i].op # o => rows[i] = ledger[i])
           /\ \/ /\ rows = ledger /\ status \in Indexed
                 /\ \E i, j \in DOMAIN ledger : ledger[i].op = o /\ ledger[j].op = o /\ i # j
              \/ /\ \A i \in DOMAIN ledger : ledger[i].op = o =>
                        /\ rows[i].status = status
                        /\ rows[i].finished = IF finished = 0 THEN ledger[i].finished ELSE finished
                 /\ \/ status \notin Indexed
                    \/ \A i, j \in DOMAIN ledger : ledger[i].op = o /\ ledger[j].op = o => i = j
<1>1. ledger \in Seq(LedgerRow) /\ DOMAIN ledger = 1..Len(ledger) /\ Len(ledger) \in Nat
      /\ \A i \in DOMAIN ledger : ledger[i] \in LedgerRow
  BY DEF LedgerTyped
<1>2. Cardinality(RunsOf(o)) > 1 <=>
          \E i, j \in DOMAIN ledger : ledger[i].op = o /\ ledger[j].op = o /\ i # j
  BY TwoRunsCount
<1>3. CASE status \in Indexed /\ Cardinality(RunsOf(o)) > 1
  BY <1>1, <1>2, <1>3 DEF UpdateRows
<1>4. CASE ~(status \in Indexed /\ Cardinality(RunsOf(o)) > 1)
  <2>1. rows = [i \in DOMAIN ledger |->
                   IF ledger[i].op = o
                   THEN [ledger[i] EXCEPT !.status = status,
                                          !.finished = IF finished = 0 THEN @ ELSE finished]
                   ELSE ledger[i]]
    <3>1. \A i \in DOMAIN ledger : i \in RunsOf(o) <=> ledger[i].op = o
      BY DEF RunsOf
    <3>2. rows = [i \in DOMAIN ledger |->
                   IF i \in RunsOf(o)
                   THEN [ledger[i] EXCEPT !.status = status,
                                          !.finished = IF finished = 0 THEN @ ELSE finished]
                   ELSE ledger[i]]
      BY <1>4 DEF UpdateRows
    <3> QED BY <3>1, <3>2
  <2>2. ASSUME NEW i \in DOMAIN ledger
        PROVE  /\ rows[i] \in LedgerRow /\ rows[i].op = ledger[i].op
               /\ ledger[i].op # o => rows[i] = ledger[i]
               /\ ledger[i].op = o =>
                      /\ rows[i].status = status
                      /\ rows[i].finished = IF finished = 0 THEN ledger[i].finished ELSE finished
    <3>1. PICK r \in LedgerRow : r = ledger[i]
      BY <1>1
    <3>2. PICK f \in Nat : f = IF finished = 0 THEN r.finished ELSE finished
      BY DEF LedgerRow
    <3>3. LET u == [r EXCEPT !.status = status, !.finished = f]
          IN  u \in LedgerRow /\ u.op = r.op /\ u.status = status /\ u.finished = f
      BY DEF LedgerRow
    <3>4. rows[i] = IF r.op = o THEN [r EXCEPT !.status = status, !.finished = f] ELSE r
      BY <2>1, <3>1, <3>2 DEF LedgerRow
    <3> QED BY <3>1, <3>2, <3>3, <3>4
  <2>3. rows \in Seq(LedgerRow) /\ DOMAIN rows = DOMAIN ledger
    <3>1. DOMAIN rows = DOMAIN ledger
      BY <2>1
    <3>2. rows \in [1..Len(ledger) -> LedgerRow]
      BY <1>1, <2>1, <2>2
    <3> QED BY <1>1, <3>1, <3>2
  <2> QED BY <1>2, <1>4, <2>2, <2>3
<1> QED BY <1>3, <1>4

LEMMA MarkingKeepsLedger ==
    ASSUME LedgerInv, NEW o \in Operations, MarkRunning(o)
    PROVE  LedgerInv'
<1>0. LedgerTyped /\ HandHoldsActive
  BY DEF LedgerInv
<1>1. UNCHANGED <<bull, asker, clock, outcome, muddled, rechecked>>
  BY DEF MarkRunning, toldVars
<1>2. /\ hand' \in [Operations -> {"none", "taken", "marked", "ended"}] /\ hand'[o] = "marked"
      /\ \A p \in Operations : p # o => hand'[p] = hand[p]
  <2>1. hand \in [Operations -> {"none", "taken", "marked", "ended"}]
    BY <1>0 DEF LedgerTyped
  <2> QED BY <2>1 DEF MarkRunning
<1>3. bull[o].state = "active"
  BY <1>0 DEF MarkRunning, HandHoldsActive
<1>4. /\ ledger' \in Seq(LedgerRow) /\ DOMAIN ledger' = DOMAIN ledger
      /\ \A i \in DOMAIN ledger :
             /\ ledger'[i].op = ledger[i].op
             /\ ledger[i].op # o => ledger'[i] = ledger[i]
             /\ ledger'[i].finished = ledger[i].finished
      /\ \/ ledger' = ledger
         \/ \A i, j \in DOMAIN ledger : ledger[i].op = o /\ ledger[j].op = o => i = j
  <2>1. CASE ledger' = ledger
    BY <1>0, <2>1 DEF LedgerTyped
  <2>2. CASE ledger' = UpdateRows(o, "running", 0)
    <3>1. PICK rows : rows = UpdateRows(o, "running", 0)
      OBVIOUS
    <3>2. "running" \in LedgerStatuses /\ "running" \in Indexed /\ 0 \in Nat
      BY DEF LedgerStatuses, Indexed
    <3>3. /\ rows \in Seq(LedgerRow) /\ DOMAIN rows = DOMAIN ledger
          /\ \A i \in DOMAIN ledger :
                 rows[i].op = ledger[i].op /\ (ledger[i].op # o => rows[i] = ledger[i])
          /\ \/ rows = ledger
             \/ /\ \A i \in DOMAIN ledger :
                       ledger[i].op = o => rows[i].finished = ledger[i].finished
                /\ \A i, j \in DOMAIN ledger : ledger[i].op = o /\ ledger[j].op = o => i = j
      BY <1>0, <3>1, <3>2, RowsUpdated
    <3> QED BY <2>2, <3>1, <3>3
  <2> QED BY <2>1, <2>2 DEF MarkRunning
<1>5. LedgerTyped' /\ HandHoldsActive'
  BY <1>0, <1>1, <1>2, <1>3, <1>4 DEF LedgerTyped, HandHoldsActive
<1>6. Pending(o)' /\ \A p \in Operations : p # o => (Pending(p) <=> Pending(p)')
  BY <1>1, <1>2, <1>3 DEF Pending, BeingAdded, Outstanding
<1>7. clock' >= clock /\ \A i \in DOMAIN ledger : ledger'[i].finished < clock'
  <2>1. RowsDated /\ clock \in Nat
    BY DEF LedgerInv, LedgerTyped
  <2> QED BY <1>1, <1>4, <2>1 DEF RowsDated
<1> QED BY <1>1, <1>4, <1>5, <1>6, <1>7, RowsOfOne

LEMMA EndingKeepsLedger ==
    ASSUME LedgerInv, NEW o \in Operations, NEW ok \in BOOLEAN, EndJob(o, ok)
    PROVE  LedgerInv'
<1>0. LedgerTyped /\ HandHoldsActive /\ RowsDated
  BY DEF LedgerInv
<1>1. UNCHANGED <<bull, asker>> /\ clock' = clock + 1 /\ clock \in Nat \ {0}
  BY <1>0 DEF EndJob, LedgerTyped
<1>2. /\ hand' \in [Operations -> {"none", "taken", "marked", "ended"}] /\ hand'[o] = "ended"
      /\ \A p \in Operations : p # o => hand'[p] = hand[p] /\ hand[o] = "marked"
  <2>1. hand \in [Operations -> {"none", "taken", "marked", "ended"}]
    BY <1>0 DEF LedgerTyped
  <2> QED BY <2>1 DEF EndJob
<1>3. bull[o].state = "active"
  BY <1>0 DEF EndJob, HandHoldsActive
<1>4. PICK status : status = StatusOf(o, ok)
  OBVIOUS
<1>5. status \in LedgerStatuses /\ status # "running"
  BY <1>4 DEF StatusOf, LedgerStatuses, Indexed
<1>6. /\ outcome' \in [Operations -> LedgerStatuses \cup {"none"}] /\ outcome'[o] = status
      /\ \A p \in Operations : p # o => outcome'[p] = outcome[p]
  <2>1. outcome \in [Operations -> LedgerStatuses \cup {"none"}]
    BY <1>0 DEF LedgerTyped
  <2>2. outcome' = [outcome EXCEPT ![o] = status]
    BY <1>4 DEF EndJob
  <2> QED BY <1>5, <2>1, <2>2
<1>7. /\ ledger' \in Seq(LedgerRow) /\ DOMAIN ledger' = DOMAIN ledger
      /\ \A i \in DOMAIN ledger :
             /\ ledger'[i].op = ledger[i].op
             /\ ledger[i].op # o => ledger'[i] = ledger[i]
      /\ \/ ledger' = ledger
            /\ \/ o \in muddled'
               \/ \E i, j \in DOMAIN ledger : ledger[i].op = o /\ ledger[j].op = o /\ i # j
         \/ /\ \A i \in DOMAIN ledger : ledger[i].op = o =>
                   ledger'[i].status = status /\ ledger'[i].finished = clock
            /\ \/ status # "succeeded"
               \/ \A i, j \in DOMAIN ledger : ledger[i].op = o /\ ledger[j].op = o => i = j
  <2>1. CASE ledger' = ledger /\ muddled' = muddled \cup {o}
    BY <1>0, <2>1 DEF LedgerTyped
  <2>2. CASE ledger' = UpdateRows(o, status, clock)
    <3>1. PICK rows : rows = UpdateRows(o, status, clock)
      OBVIOUS
    <3>2. clock \in Nat /\ clock # 0 /\ (status = "succeeded" => status \in Indexed)
      BY <1>1 DEF Indexed
    <3> QED BY <1>0, <1>5, <2>2, <3>1, <3>2, RowsUpdated
  <2> QED BY <1>4, <2>1, <2>2 DEF EndJob
<1>8. LedgerTyped' /\ HandHoldsActive'
  BY <1>0, <1>1, <1>2, <1>3, <1>6, <1>7 DEF LedgerTyped, HandHoldsActive
<1>9. /\ \A p \in Operations : p # o => (p \in muddled <=> p \in muddled')
      /\ o # "apply" => rechecked' = rechecked
  BY DEF EndJob
<1>10. \A p \in Operations : p # o => (Pending(p) <=> Pending(p)')
  BY <1>1, <1>2 DEF Pending, BeingAdded
<1>11. \A i \in DOMAIN ledger : ledger[i].finished \in Nat /\ ledger[i].finished < clock
  <2>1. \A i \in DOMAIN ledger : ledger[i] \in LedgerRow
    BY <1>0 DEF LedgerTyped
  <2> QED BY <1>0, <2>1 DEF RowsDated, LedgerRow
<1>12. clock' >= clock /\ \A i \in DOMAIN ledger : ledger[i].op = o => ledger'[i].finished < clock'
  BY <1>1, <1>7, <1>11
<1>13. ASSUME o \notin muddled', NEW i \in DOMAIN ledger, ledger'[i].op = o, Alone(i)'
       PROVE  RowTells(o, i)'
  <2>1. \A j \in DOMAIN ledger : ledger[j].op = o => j = i
    BY <1>7, <1>13 DEF Alone
  <2>2. ledger'[i].status = status /\ ledger'[i].finished = clock
    BY <1>7, <1>13, <2>1
  <2>3. \A k \in DOMAIN ledger : ledger'[k].op = "recheck" => ledger'[k].finished < clock
    BY <1>7, <1>11, LedgerAssumption
  <2> QED BY <1>1, <1>6, <1>7, <2>2, <2>3 DEF RowTells
<1>14. \/ ledger' = ledger
       \/ \A i \in DOMAIN ledger :
              ledger[i].op = o => ledger'[i].status \notin {"running", "succeeded"}
       \/ \A i, j \in DOMAIN ledger : ledger[i].op = o /\ ledger[j].op = o => i = j
  BY <1>5, <1>7
<1>15. \A p \in Operations : p # o =>
               /\ p \in muddled <=> p \in muddled'
               /\ Pending(p) <=> Pending(p)'
               /\ outcome'[p] = outcome[p]
               /\ p = "apply" => rechecked' = rechecked
  BY <1>6, <1>9, <1>10
<1> QED BY <1>7, <1>8, <1>12, <1>13, <1>14, <1>15, RowsOfOne

-----------------------------------------------------------------------------
(* A step that adds a row.                                                 *)
LEMMA RowAppended ==
    ASSUME LedgerInv, LedgerTyped', HandHoldsActive', NEW r \in LedgerRow,
           ledger' = Append(ledger, r), clock' >= clock, r.finished < clock',
           r.op = "recheck" => r.status = "succeeded" /\ rechecked',
           r.op # "recheck" =>
               /\ rechecked' = rechecked /\ r.status \notin {"running", "succeeded"}
               /\ \A i \in DOMAIN ledger :
                      ledger[i].op = r.op => ledger[i].status \notin {"running", "succeeded"}
               /\ r.op \in muddled' \/ Pending(r.op)',
           outcome' = outcome,
           \A p \in Operations \ muddled' : p \notin muddled /\ (Pending(p) => Pending(p)')
    PROVE  LedgerInv'
<1>0. RowsDated /\ TwoRowsWait /\ LoneRowsTell
  BY DEF LedgerInv
<1>1. /\ Len(ledger) \in Nat /\ DOMAIN ledger = 1..Len(ledger)
      /\ DOMAIN ledger' = 1..(Len(ledger) + 1)
      /\ \A i \in DOMAIN ledger : ledger'[i] = ledger[i]
      /\ ledger'[Len(ledger) + 1] = r
  <2>1. ledger \in Seq(LedgerRow)
    BY DEF LedgerInv, LedgerTyped
  <2> QED BY <2>1, AppendProperties
<1>2. PICK n \in Nat : n = Len(ledger)
  BY <1>1
<1>3. /\ DOMAIN ledger = 1..n /\ DOMAIN ledger' = 1..(n + 1) /\ ledger'[n + 1] = r
      /\ \A i \in DOMAIN ledger' : i \in DOMAIN ledger \/ i = n + 1
      /\ n + 1 \notin DOMAIN ledger /\ n + 1 \in DOMAIN ledger'
      /\ DOMAIN ledger \subseteq DOMAIN ledger'
  BY <1>1, <1>2
<1>4. clock \in Nat /\ clock' \in Nat
      /\ \A i \in DOMAIN ledger : ledger[i].finished \in Nat
  <2>1. \A i \in DOMAIN ledger : ledger[i] \in LedgerRow
    BY DEF LedgerInv, LedgerTyped
  <2> QED BY <2>1 DEF LedgerInv, LedgerTyped, LedgerRow
<1>5. RowsDated'
  <2>1. ASSUME NEW i \in DOMAIN ledger'
        PROVE  ledger'[i].finished < clock'
               /\ (ledger'[i].op = "recheck" => ledger'[i].status = "succeeded")
    <3>1. CASE i \in DOMAIN ledger
      BY <1>0, <1>1, <1>4, <3>1 DEF RowsDated
    <3>2. CASE i = n + 1
      BY <1>3, <3>2
    <3> QED BY <1>3, <3>1, <3>2
  <2> QED BY <2>1 DEF RowsDated
<1>6. TwoRowsWait'
  <2>1. ASSUME NEW i \in DOMAIN ledger', NEW j \in DOMAIN ledger', i # j,
               ledger'[i].op = ledger'[j].op, ledger'[i].op \in Operations
        PROVE  ledger'[i].status \notin {"running", "succeeded"}
    <3>1. ledger'[i].op # "recheck"
      BY <2>1, LedgerAssumption
    <3>2. CASE i = n + 1
      BY <1>3, <3>1, <3>2
    <3>3. CASE i \in DOMAIN ledger /\ j = n + 1
      BY <1>1, <1>3, <2>1, <3>1, <3>3
    <3>4. CASE i \in DOMAIN ledger /\ j \in DOMAIN ledger
      BY <1>0, <1>1, <2>1, <3>4 DEF TwoRowsWait
    <3> QED BY <1>3, <3>2, <3>3, <3>4
  <2> QED BY <2>1 DEF TwoRowsWait
<1>7. ASSUME NEW i \in DOMAIN ledger', ledger'[i].op \in Operations \ muddled', Alone(i)'
      PROVE  RowTells(ledger[i].op, i)' \/ Pending(ledger[i].op)'
  <2>1. PICK p : p = ledger'[i].op
    OBVIOUS
  <2>2. p \in Operations \ muddled' /\ p # "recheck"
    BY <1>7, <2>1, LedgerAssumption
  <2>3. CASE i = n + 1
    BY <1>3, <2>1, <2>2, <2>3
  <2>4. CASE i \in DOMAIN ledger
    <3>1. Alone(i) /\ ledger[i].op = p
      BY <1>1, <1>3, <1>7, <2>1, <2>4 DEF Alone
    <3>2. r.op # p
      BY <1>3, <1>7, <2>1, <2>4 DEF Alone
    <3>3. RowTells(p, i) \/ Pending(p)
      BY <1>0, <2>2, <2>4, <3>1 DEF LoneRowsTell
    <3>4. ASSUME RowTells(p, i) PROVE RowTells(p, i)'
      <4>1. ledger'[i] = ledger[i]
        BY <1>1, <2>4
      <4>2. rechecked' \/ (rechecked' = rechecked /\ r.op # "recheck")
        OBVIOUS
      <4>3. ASSUME ~rechecked', NEW k \in DOMAIN ledger', ledger'[k].op = "recheck"
            PROVE  k \in DOMAIN ledger /\ ledger[k].op = "recheck" /\ ledger'[k] = ledger[k]
        BY <1>1, <1>3, <4>2, <4>3
      <4> QED BY <3>4, <4>1, <4>2, <4>3 DEF RowTells
    <3> QED BY <2>1, <2>2, <3>3, <3>4
  <2> QED BY <1>3, <2>3, <2>4
<1>8. LoneRowsTell'
  BY <1>7 DEF LoneRowsTell
<1> QED BY <1>5, <1>6, <1>8 DEF LedgerInv

LEMMA AddingKeepsLedger ==
    ASSUME LedgerInv, NEW e \in Enqueuers, AddRow(e)
    PROVE  LedgerInv'
<1>0. LedgerTyped /\ HandHoldsActive
  BY DEF LedgerInv
<1>1. PICK o \in Operations : o = asker[e].op
  BY <1>0 DEF LedgerTyped, AddRow
<1>2. /\ UNCHANGED <<bull, hand, clock, outcome, rechecked>> /\ clock \in Nat \ {0}
      /\ asker' = [asker EXCEPT ![e] = NotAsking] /\ asker[e].at = "row"
      /\ ledger' = ledger \/ ledger' = InsertRow(o)
      /\ ledgerFaults' # ledgerFaults => o \in muddled'
      /\ bull[o].state \notin Outstanding \/ hand[o] = "ended" => o \in muddled'
      /\ muddled \subseteq muddled' /\ muddled' \subseteq muddled \cup {o}
  BY <1>0, <1>1 DEF AddRow, jobVars, LedgerTyped
<1>3. /\ asker' \in [Enqueuers -> Asking] /\ asker'[e] = NotAsking
      /\ \A f \in Enqueuers : f # e => asker'[f] = asker[f]
  <2>1. asker \in [Enqueuers -> Asking] /\ NotAsking \in Asking
    BY <1>0 DEF LedgerTyped, NotAsking, Asking
  <2> QED BY <1>2, <2>1
<1>4. ASSUME ledger' \in Seq(LedgerRow) PROVE LedgerTyped' /\ HandHoldsActive'
  BY <1>0, <1>2, <1>3, <1>4 DEF LedgerTyped, HandHoldsActive, NotAsking
<1>5. \A p \in Operations : Pending(p) => Pending(p)'
  BY <1>2, <1>3 DEF Pending, BeingAdded
<1>6. \A p \in Operations \ muddled' : p \notin muddled
  BY <1>2
<1>7. clock' >= clock
  BY <1>2
<1>8. CASE ledger' = ledger
  <2>1. \A p \in Operations \ muddled' :
            /\ p \notin muddled
            /\ \/ Pending(p)'
               \/ ~Pending(p) /\ UNCHANGED <<outcome, rechecked>>
    BY <1>2, <1>5, <1>6
  <2>2. LedgerTyped' /\ HandHoldsActive'
    BY <1>0, <1>4, <1>8 DEF LedgerTyped
  <2> QED BY <1>7, <1>8, <2>1, <2>2, SameRows
<1>9. CASE ledger' # ledger
  <2>1. PICK r : r = [op |-> o, status |-> "queued", finished |-> 0]
    OBVIOUS
  <2>2. /\ ledger' = Append(ledger, r)
        /\ \A i \in DOMAIN ledger : ledger[i].op = o => ledger[i].status \notin Indexed
    BY <1>2, <1>9, <2>1 DEF InsertRow, RunsOf
  <2>3. r \in LedgerRow /\ r.op = o /\ r.op # "recheck" /\ r.status = "queued" /\ r.finished < clock'
    BY <1>2, <2>1, LedgerAssumption DEF LedgerRow, LedgerStatuses, Indexed
  <2>4. ledger' \in Seq(LedgerRow)
    BY <1>0, <2>2, <2>3, AppendProperties DEF LedgerTyped
  <2>5. o \in muddled' \/ Pending(o)'
    BY <1>2 DEF Pending
  <2>6. \A i \in DOMAIN ledger : ledger[i].op = o => ledger[i].status \notin {"running", "succeeded"}
    BY <2>2 DEF Indexed
  <2> QED BY <1>2, <1>4, <1>5, <1>6, <1>7, <2>2, <2>3, <2>4, <2>5, <2>6, RowAppended
<1> QED BY <1>8, <1>9

LEMMA RecheckingKeepsLedger ==
    ASSUME LedgerInv, Recheck
    PROVE  LedgerInv'
<1>0. LedgerTyped /\ HandHoldsActive
  BY DEF LedgerInv
<1>1. /\ UNCHANGED <<bull, hand, asker, outcome, muddled>> /\ rechecked' = TRUE
      /\ clock \in Nat \ {0} /\ clock' = clock + 1
  BY <1>0 DEF Recheck, jobVars, LedgerTyped
<1>2. clock' >= clock /\ clock' \in Nat \ {0} /\ clock < clock'
  BY <1>1
<1>3. ASSUME ledger' \in Seq(LedgerRow) PROVE LedgerTyped' /\ HandHoldsActive'
  BY <1>0, <1>1, <1>2, <1>3 DEF LedgerTyped, HandHoldsActive
<1>4. \A p : Pending(p) <=> Pending(p)'
  BY <1>1 DEF Pending, BeingAdded
<1>5. CASE ledger' = ledger
  <2>1. RowsDated' /\ TwoRowsWait'
    <3>1. \A i \in DOMAIN ledger : ledger[i] \in LedgerRow
      BY <1>0 DEF LedgerTyped
    <3> QED BY <1>1, <1>5, <3>1 DEF LedgerInv, RowsDated, TwoRowsWait, LedgerRow
  <2>2. LoneRowsTell'
    BY <1>1, <1>4, <1>5 DEF LedgerInv, LoneRowsTell, RowTells, Alone
  <2>3. LedgerTyped' /\ HandHoldsActive'
    BY <1>0, <1>3, <1>5 DEF LedgerTyped
  <2> QED BY <2>1, <2>2, <2>3 DEF LedgerInv
<1>6. CASE ledger' = Append(ledger, [op |-> "recheck", status |-> "succeeded", finished |-> clock])
  <2>1. PICK r : r = [op |-> "recheck", status |-> "succeeded", finished |-> clock]
    OBVIOUS
  <2>2. r \in LedgerRow /\ r.op = "recheck" /\ r.status = "succeeded" /\ r.finished < clock'
    BY <1>1, <1>2, <2>1 DEF LedgerRow, LedgerStatuses, Indexed
  <2>3. ledger' \in Seq(LedgerRow)
    BY <1>0, <1>6, <2>1, <2>2, AppendProperties DEF LedgerTyped
  <2>4. LedgerTyped' /\ HandHoldsActive'
    BY <1>3, <2>3
  <2>5. \A p \in Operations \ muddled' : p \notin muddled /\ (Pending(p) => Pending(p)')
    BY <1>1, <1>4
  <2> QED BY <1>1, <1>2, <1>6, <2>1, <2>2, <2>4, <2>5, RowAppended
<1> QED BY <1>5, <1>6 DEF Recheck

(* The retention: a row that succeeded was the only one of its operation.  *)
LEMMA PruningKeepsLedger ==
    ASSUME LedgerInv, NEW d \in DOMAIN ledger, PruneRow(d)
    PROVE  LedgerInv'
<1>0. LedgerTyped /\ HandHoldsActive /\ RowsDated /\ TwoRowsWait /\ LoneRowsTell
  BY DEF LedgerInv
<1>1. /\ UNCHANGED <<bull, hand, asker, clock, outcome, muddled, rechecked>>
      /\ ledger[d].status = "succeeded"
      /\ ledger' = SubSeq(ledger, 1, d - 1) \o SubSeq(ledger, d + 1, Len(ledger))
  BY DEF PruneRow, jobVars, toldVars, RemoveAt
<1>2. PICK n \in Nat : n = Len(ledger)
  BY <1>0 DEF LedgerTyped
<1>3. /\ DOMAIN ledger = 1..n /\ d \in 1..n
      /\ \A i \in 1..n : ledger[i] \in LedgerRow
  BY <1>0, <1>2 DEF LedgerTyped
<1> DEFINE Was(i) == IF i < d THEN i ELSE i + 1
<1>4. /\ ledger' \in Seq(LedgerRow) /\ DOMAIN ledger' = 1..(n - 1)
      /\ \A i \in 1..(n - 1) : ledger'[i] = ledger[Was(i)]
  <2>1. PICK a : a = SubSeq(ledger, 1, d - 1)
    OBVIOUS
  <2>2. PICK b : b = SubSeq(ledger, d + 1, n)
    OBVIOUS
  <2>3. d \in Int /\ n \in Int /\ d - 1 \in Int /\ d + 1 \in Int /\ d >= 1 /\ d <= n
    BY <1>3
  <2>4. a \in Seq(LedgerRow) /\ Len(a) = d - 1 /\ \A i \in 1..(d - 1) : a[i] = ledger[i]
    <3>1. \A i \in 1..(d - 1) : ledger[i] \in LedgerRow
      BY <1>3, <2>3
    <3>2. /\ a \in Seq(LedgerRow) /\ Len(a) = IF 1 <= d - 1 THEN (d - 1) - 1 + 1 ELSE 0
          /\ \A i \in 1..((d - 1) - 1 + 1) : a[i] = ledger[1 + i - 1]
      BY <2>1, <2>3, <3>1, SubSeqProperties
    <3> QED BY <2>3, <3>2
  <2>5. b \in Seq(LedgerRow) /\ Len(b) = n - d /\ \A i \in 1..(n - d) : b[i] = ledger[d + i]
    <3>1. \A i \in (d + 1)..n : ledger[i] \in LedgerRow
      BY <1>3, <2>3
    <3>2. /\ b \in Seq(LedgerRow) /\ Len(b) = IF d + 1 <= n THEN n - (d + 1) + 1 ELSE 0
          /\ \A i \in 1..(n - (d + 1) + 1) : b[i] = ledger[(d + 1) + i - 1]
      BY <2>2, <2>3, <3>1, SubSeqProperties
    <3>3. Len(b) = n - d /\ n - (d + 1) + 1 = n - d
      BY <2>3, <3>2
    <3>4. \A i \in 1..(n - d) : (d + 1) + i - 1 = d + i
      BY <2>3
    <3> QED BY <3>2, <3>3, <3>4
  <2>6. /\ a \o b \in Seq(LedgerRow) /\ Len(a \o b) = n - 1
        /\ \A i \in 1..(n - 1) : (a \o b)[i] = IF i <= d - 1 THEN a[i] ELSE b[i - (d - 1)]
    <3>1. /\ a \o b \in Seq(LedgerRow) /\ Len(a \o b) = Len(a) + Len(b)
          /\ \A i \in 1..(Len(a) + Len(b)) :
                 (a \o b)[i] = IF i <= Len(a) THEN a[i] ELSE b[i - Len(a)]
      BY <2>4, <2>5, ConcatProperties
    <3>2. Len(a) + Len(b) = n - 1 /\ Len(a) = d - 1
      BY <2>3, <2>4, <2>5
    <3> QED BY <3>1, <3>2
  <2>7. ledger' = a \o b
    BY <1>1, <1>2, <2>1, <2>2
  <2>8. ASSUME NEW i \in 1..(n - 1) PROVE ledger'[i] = ledger[Was(i)]
    <3>1. CASE i < d
      BY <2>3, <2>4, <2>6, <2>7, <3>1
    <3>2. CASE ~(i < d)
      BY <2>3, <2>5, <2>6, <2>7, <3>2
    <3> QED BY <3>1, <3>2
  <2> QED BY <2>6, <2>7, <2>8
<1>5. /\ \A i \in 1..(n - 1) : Was(i) \in 1..n /\ Was(i) # d
      /\ \A i, j \in 1..(n - 1) : i # j => Was(i) # Was(j)
      /\ \A k \in 1..n : k # d => \E i \in 1..(n - 1) : Was(i) = k
  <2>1. d \in Int /\ n \in Int /\ d >= 1 /\ d <= n
    BY <1>3
  <2>2. ASSUME NEW k \in 1..n, k # d PROVE \E i \in 1..(n - 1) : Was(i) = k
    <3>1. CASE k < d
      BY <2>1, <2>2, <3>1
    <3>2. CASE k > d
      <4>1. k - 1 \in 1..(n - 1) /\ Was(k - 1) = k
        BY <2>1, <2>2, <3>2
      <4> QED BY <4>1
    <3> QED BY <2>1, <2>2, <3>1, <3>2
  <2>3. \A i \in 1..(n - 1) : Was(i) \in 1..n /\ Was(i) # d
    BY <2>1
  <2>4. \A i, j \in 1..(n - 1) : i # j => Was(i) # Was(j)
    BY <2>1
  <2> QED BY <2>2, <2>3, <2>4
<1> HIDE DEF Was
<1>6. LedgerTyped' /\ HandHoldsActive'
  BY <1>0, <1>1, <1>4 DEF LedgerTyped, HandHoldsActive
<1>7. RowsDated'
  <2>1. \A i \in 1..(n - 1) : ledger'[i] = ledger[Was(i)] /\ Was(i) \in DOMAIN ledger
    BY <1>3, <1>4, <1>5
  <2> QED BY <1>0, <1>1, <1>4, <2>1 DEF RowsDated
<1>8. TwoRowsWait'
  <2>1. ASSUME NEW i \in 1..(n - 1), NEW j \in 1..(n - 1), i # j,
               ledger'[i].op = ledger'[j].op, ledger'[i].op \in Operations
        PROVE  ledger'[i].status \notin {"running", "succeeded"}
    BY <1>0, <1>3, <1>4, <1>5, <2>1 DEF TwoRowsWait
  <2> QED BY <1>4, <2>1 DEF TwoRowsWait
<1>9. \A p : Pending(p) <=> Pending(p)'
  BY <1>1 DEF Pending, BeingAdded
<1>10. ASSUME NEW i \in DOMAIN ledger', ledger'[i].op \in Operations \ muddled', Alone(i)'
       PROVE  RowTells(ledger[i].op, i)' \/ Pending(ledger[i].op)'
  <2>1. PICK p : p = ledger'[i].op
    OBVIOUS
  <2>2. PICK k \in 1..n : k = Was(i)
    BY <1>4, <1>5
  <2>3. ledger'[i] = ledger[k] /\ k # d /\ ledger[k].op = p /\ p \in Operations \ muddled
    BY <1>1, <1>4, <1>5, <1>10, <2>1, <2>2
  <2>4. ledger[d].op # p
    BY <1>0, <1>1, <1>3, <2>3 DEF TwoRowsWait
  <2>5. Alone(k)
    <3>1. ASSUME NEW j \in 1..n, ledger[j].op = p PROVE j = k
      <4>1. j # d
        BY <2>4, <3>1
      <4>2. PICK x \in 1..(n - 1) : Was(x) = j
        BY <1>5, <4>1
      <4>3. ledger'[x].op = p
        BY <1>4, <3>1, <4>2
      <4>4. x = i
        BY <1>4, <1>10, <2>1, <4>3 DEF Alone
      <4> QED BY <2>2, <4>2, <4>4
    <3> QED BY <1>3, <2>3, <3>1 DEF Alone
  <2>6. RowTells(p, k) \/ Pending(p)
    BY <1>0, <1>3, <2>3, <2>5 DEF LoneRowsTell
  <2>7. ASSUME RowTells(p, k) PROVE RowTells(p, i)'
    <3>1. \A x \in 1..(n - 1) : ledger'[x] = ledger[Was(x)] /\ Was(x) \in DOMAIN ledger
      BY <1>3, <1>4, <1>5
    <3>2. ledger'[i] = ledger[k]
      BY <2>3
    <3> QED BY <1>1, <1>4, <2>7, <3>1, <3>2 DEF RowTells
  <2> QED BY <1>9, <2>1, <2>6, <2>7
<1>11. LoneRowsTell'
  BY <1>10 DEF LoneRowsTell
<1> QED BY <1>6, <1>7, <1>8, <1>11 DEF LedgerInv

-----------------------------------------------------------------------------
LEMMA LedgerStep ==
    ASSUME LedgerInv, [LedgerNext]_ledgerVars
    PROVE  LedgerInv'
<1>0. LedgerTyped /\ HandHoldsActive
  BY DEF LedgerInv
<1>1. ASSUME UNCHANGED <<bull, hand, ledger, asker, clock, outcome, muddled, rechecked>>
      PROVE  LedgerInv'
  <2>1. LedgerTyped' /\ HandHoldsActive'
    BY <1>0, <1>1 DEF LedgerTyped, HandHoldsActive
  <2>2. \A p \in Operations : Pending(p) <=> Pending(p)'
    BY <1>1 DEF Pending, BeingAdded
  <2>3. clock' >= clock
    BY <1>0, <1>1 DEF LedgerTyped
  <2> QED BY <1>1, <2>1, <2>2, <2>3, SameRows
<1>2. CASE UNCHANGED ledgerVars
  BY <1>1, <1>2 DEF ledgerVars
<1>3. ASSUME NEW e \in Enqueuers, (\E o \in Operations : Submit(e, o)) \/ Look(e) \/ RemoveJob(e) \/ AddJob(e)
      PROVE  LedgerInv'
  BY <1>3, AskingKeepsLedger
<1>4. ASSUME NEW e \in Enqueuers, AddRow(e) PROVE LedgerInv'
  BY <1>4, AddingKeepsLedger
<1>5. ASSUME NEW o \in Operations, TakeJob(o) \/ MarkRunning(o) \/ SettleJob(o) \/ Die(o)
      PROVE  LedgerInv'
  BY <1>5, TakingKeepsLedger, MarkingKeepsLedger, SettlingKeepsLedger, DyingKeepsLedger
<1>6. ASSUME NEW o \in Operations, Arrive(o) PROVE LedgerInv'
  BY <1>1, <1>6 DEF Arrive, jobVars, toldVars
<1>7. ASSUME NEW o \in Operations, NEW ok \in BOOLEAN, EndJob(o, ok) PROVE LedgerInv'
  BY <1>7, EndingKeepsLedger
<1>8. CASE ParkPair
  BY <1>1, <1>8 DEF ParkPair, jobVars, toldVars
<1>9. CASE Recheck
  BY <1>9, RecheckingKeepsLedger
<1>10. ASSUME NEW i \in DOMAIN ledger, PruneRow(i) PROVE LedgerInv'
  BY <1>10, PruningKeepsLedger
<1> QED BY <1>2, <1>3, <1>4, <1>5, <1>6, <1>7, <1>8, <1>9, <1>10 DEF LedgerNext

LEMMA LastRunIsOfIt ==
    ASSUME LedgerTyped, NEW o
    PROVE  LastRunOf(o) = 0 \/ (LastRunOf(o) \in DOMAIN ledger /\ ledger[LastRunOf(o)].op = o)
<1>1. PICK n \in Nat : n = Len(ledger) /\ DOMAIN ledger = 1..n
  BY DEF LedgerTyped
<1>2. PICK T \in SUBSET (1..n) : T = {i \in 1..Len(ledger) : ledger[i].op = o}
  BY <1>1
<1>3. LastRunOf(o) = IF T # {} THEN Max(T) ELSE 0
  BY <1>2 DEF LastRunOf, SelectLastInSeq
<1>4. CASE T # {}
  <2>1. T \in SUBSET (0..n)
    BY <1>2
  <2>2. \E m \in T : \A i \in T : i <= m
    BY <1>4, <2>1, BoundedHasGreatest
  <2>3. \E m \in T : \A i \in T : m >= i
    BY <2>2
  <2>4. Max(T) \in T
    BY <2>3 DEF Max
  <2> QED BY <1>1, <1>2, <1>3, <1>4, <2>4
<1> QED BY <1>3, <1>4

LEMMA LedgerInvTells == LedgerInv => LedgerTellsOutcome
<1> SUFFICES ASSUME LedgerInv, NEW o \in Operations, Resting(o), o \notin muddled,
                    Cardinality(RunsOf(o)) = 1
             PROVE  /\ ledger[LastRunOf(o)].status = outcome[o]
                    /\ o = "apply" /\ outOfSearch /\ ~rechecked => OpState("recheck") = "needed"
  BY DEF LedgerTellsOutcome
<1>0. LedgerTyped /\ RowsDated /\ LoneRowsTell
  BY DEF LedgerInv
<1>1. ~Pending(o)
  BY DEF Pending, Resting, BeingAdded
<1>2. PICK i : RunsOf(o) = {i}
  <2>1. IsFiniteSet(RunsOf(o))
    <3>1. IsFiniteSet(DOMAIN ledger)
      BY <1>0, FS_Interval DEF LedgerTyped
    <3>2. RunsOf(o) \in SUBSET (DOMAIN ledger)
      BY DEF RunsOf
    <3> QED BY <3>1, <3>2, FS_Subset
  <2> QED BY <2>1, FS_Singleton
<1>3. \A k : k \in DOMAIN ledger /\ ledger[k].op = o <=> k = i
  <2>1. \A k : k \in RunsOf(o) <=> k \in DOMAIN ledger /\ ledger[k].op = o
    BY DEF RunsOf
  <2> QED BY <1>2, <2>1
<1>4. RowTells(o, i)
  <2>1. Alone(i)
    BY <1>3 DEF Alone
  <2> QED BY <1>0, <1>1, <1>3, <2>1 DEF LoneRowsTell
<1>5. LastRunOf(o) = i
  <2>1. LastRunOf(o) # 0
    <3>1. PICK n \in Nat : n = Len(ledger) /\ DOMAIN ledger = 1..n
      BY <1>0 DEF LedgerTyped
    <3>2. PICK T : T = {k \in 1..Len(ledger) : ledger[k].op = o}
      OBVIOUS
    <3>3. T = {i}
      BY <1>3, <3>1, <3>2
    <3>4. i \in 1..n
      BY <1>3, <3>1
    <3>5. Max(T) = i
      BY <3>3, <3>4 DEF Max
    <3>6. LastRunOf(o) = Max(T)
      BY <3>2, <3>3 DEF LastRunOf, SelectLastInSeq
    <3> QED BY <3>4, <3>5, <3>6
  <2> QED BY <1>0, <1>3, <2>1, LastRunIsOfIt
<1>6. ledger[LastRunOf(o)].status = outcome[o]
  BY <1>4, <1>5 DEF RowTells
<1>7. ASSUME o = "apply", outOfSearch, ~rechecked PROVE OpState("recheck") = "needed"
  <2>1. \A k \in DOMAIN ledger : ledger[k].finished \in Nat
    <3>1. \A k \in DOMAIN ledger : ledger[k] \in LedgerRow
      BY <1>0 DEF LedgerTyped
    <3> QED BY <3>1 DEF LedgerRow
  <2>2. FinishedAt("apply") = ledger[i].finished /\ i # 0 /\ i \in DOMAIN ledger
    <3>1. i \in DOMAIN ledger /\ i # 0
      BY <1>0, <1>3 DEF LedgerTyped
    <3> QED BY <1>5, <1>7, <3>1 DEF FinishedAt
  <2>3. FinishedAt("recheck") < ledger[i].finished
    <3>1. CASE LastRunOf("recheck") = 0
      BY <1>4, <1>7, <3>1 DEF FinishedAt, RowTells
    <3>2. CASE LastRunOf("recheck") # 0
      <4>1. LastRunOf("recheck") \in DOMAIN ledger /\ ledger[LastRunOf("recheck")].op = "recheck"
        BY <1>0, <3>2, LastRunIsOfIt
      <4> QED BY <1>4, <1>7, <3>2, <4>1 DEF FinishedAt, RowTells
    <3> QED BY <3>1, <3>2
  <2>4. FinishedAt("recheck") \in Nat
    BY <1>0, <2>1, LastRunIsOfIt DEF FinishedAt
  <2>5. Needs("recheck")
    BY <1>7, <2>1, <2>2, <2>3, <2>4 DEF Needs
  <2>6. LastRunOf("recheck") = 0 \/ ledger[LastRunOf("recheck")].status = "succeeded"
    BY <1>0, LastRunIsOfIt DEF RowsDated
  <2> QED BY <2>5, <2>6 DEF OpState
<1> QED BY <1>6, <1>7

(* A job that has come to rest has left its outcome in the ledger, and the *)
(* page asks for a recheck after an "apply", for any operations, enqueuers, *)
(* attempts, stalls and faults, in every interleaving.                     *)
THEOREM LedgerAlwaysTells == LedgerSpec => []LedgerTellsOutcome
<1>1. LedgerInit => LedgerInv
  BY LedgerStart
<1>2. LedgerInv /\ [LedgerNext]_ledgerVars => LedgerInv'
  BY LedgerStep
<1>3. LedgerInv => LedgerTellsOutcome
  BY LedgerInvTells
<1> QED BY <1>1, <1>2, <1>3, PTL DEF LedgerSpec
=============================================================================
