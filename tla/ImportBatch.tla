---------------------------- MODULE ImportBatch ----------------------------
(***************************************************************************)
(* The import of products from a file: uploaded, validated, committed row  *)
(* by row, or cancelled.  Every request checks the status of its batch in  *)
(* one statement and changes it in another, each row is a transaction of   *)
(* its own, and the API may stop between any two of them: the batch stays  *)
(* where it was, and is validated and committed again.                     *)
(*                                                                         *)
(* The code compares a row in three ways, none of which implies another:   *)
(* with the rows of its file, with the catalogue by what it looks like,    *)
(* and with the variants of its own family by the unique index.            *)
(***************************************************************************)
EXTENDS Naturals, Sequences, SequencesExt, FiniteSets

CONSTANTS
    Clients,
    Batches,
    RowsOf,        \* batch -> its rows, numbered in the order of the file
    FamilyName,    \* row -> category, producer and normalised name of its family
    RowKey,        \* row -> the columns of the index on the variants of a family
    FileKey,       \* row -> producer or brand, name, vintage, volume, pack, packaging
    Likeness,      \* row -> normalised name, vintage, volume and pack count alone
    Complete,      \* rows whose volume is known
    Faulty,        \* rows with neither a name nor an address
    Doubtful,      \* rows that draw a warning
    MaxRequests,   \* bound: requests of the clients
    MaxStops       \* bound: stops of the API and failures of a row

ImportRows == UNION {RowsOf[b] : b \in Batches}

ASSUME ImportAssumption ==
    /\ RowsOf \in [Batches -> SUBSET Nat]
    /\ \A b, d \in Batches : b # d => RowsOf[b] \cap RowsOf[d] = {}
    /\ Complete \cup Faulty \cup Doubtful \subseteq ImportRows
    /\ IsFiniteSet(Clients)
    /\ {MaxRequests, MaxStops} \subseteq Nat

VARIABLES
    batch,       \* import_batches.status, "none" before the upload
    rowStatus,   \* import_rows.status, "absent" before the upload
    dupOf,       \* rows with a duplicate_of
    made,        \* row -> created_variant_id, 0 for NULL
    families,    \* names of the product families, by id
    variants,    \* the canonical variants, by id
    request,     \* what each client's request is doing
    requests, stops

importVars == <<batch, rowStatus, dupOf, made, families, variants, request,
                requests, stops>>

Idle == [at |-> "idle"]

ImportInit ==
    /\ batch = [b \in Batches |-> "none"]
    /\ rowStatus = [r \in ImportRows |-> "absent"]
    /\ dupOf = {}
    /\ made = [r \in ImportRows |-> 0]
    /\ families = <<>>
    /\ variants = <<>>
    /\ request = [c \in Clients |-> Idle]
    /\ requests = 0
    /\ stops = 0

Stored(b) == {r \in RowsOf[b] : rowStatus[r] # "absent"}

Goes(c, to) == request' = [request EXCEPT ![c] = to]

Requests(c) ==
    /\ request[c] = Idle
    /\ requests < MaxRequests
    /\ requests' = requests + 1
    /\ UNCHANGED stops

Upload(c, b) ==
    /\ Requests(c)
    /\ batch[b] = "none"
    /\ batch' = [batch EXCEPT ![b] = "mapping"]
    /\ Goes(c, [at |-> "store", of |-> b])
    /\ UNCHANGED <<rowStatus, dupOf, made, families, variants>>

(* The rows go in together, in a transaction of their own.                 *)
StoreRows(c) ==
    /\ request[c].at = "store"
    /\ rowStatus' = [r \in ImportRows |->
                        IF r \in RowsOf[request[c].of] THEN "pending" ELSE rowStatus[r]]
    /\ Goes(c, Idle)
    /\ UNCHANGED <<batch, dupOf, made, families, variants, requests, stops>>

(* Every status but "committed" may be validated.                          *)
Validate(c, b) ==
    /\ Requests(c)
    /\ batch[b] \notin {"none", "committed"}
    /\ Goes(c, [at |-> "validate", of |-> b])
    /\ UNCHANGED <<batch, rowStatus, dupOf, made, families, variants>>

StartValidation(c) ==
    /\ request[c].at = "validate"
    /\ batch' = [batch EXCEPT ![request[c].of] = "validating"]
    /\ Goes(c, [at |-> "judge", of |-> request[c].of, todo |-> Stored(request[c].of)])
    /\ UNCHANGED <<rowStatus, dupOf, made, families, variants, requests, stops>>

First(S) == CHOOSE r \in S : \A q \in S : r <= q

DuplicateInFile(r, b) == \E q \in Stored(b) : q < r /\ FileKey[q] = FileKey[r]

LooksKnown(r) == \E i \in DOMAIN variants : variants[i].look = Likeness[r]

(* The catalogue is searched by look: another winery's wine of the name,   *)
(* another packaging or edition is found too.  Without a volume it is not  *)
(* searched.                                                               *)
Resembles(r, b) == ~DuplicateInFile(r, b) /\ r \in Complete /\ LooksKnown(r)

Verdict(r, b) ==
    CASE DuplicateInFile(r, b) -> "duplicate"
      [] ~DuplicateInFile(r, b) /\ r \in Faulty -> "error"
      [] ~DuplicateInFile(r, b) /\ r \notin Faulty ->
            IF r \in Doubtful \/ r \notin Complete \/ Resembles(r, b)
            THEN "warning" ELSE "valid"

JudgeRow(c) ==
    /\ request[c].at = "judge" /\ request[c].todo # {}
    /\ LET r == First(request[c].todo)
           b == request[c].of
       IN /\ rowStatus' = [rowStatus EXCEPT ![r] = Verdict(r, b)]
          /\ dupOf' = IF Resembles(r, b) THEN dupOf \cup {r} ELSE dupOf \ {r}
          /\ Goes(c, [request[c] EXCEPT !.todo = @ \ {r}])
    /\ UNCHANGED <<batch, made, families, variants, requests, stops>>

FinishValidation(c) ==
    /\ request[c].at = "judge" /\ request[c].todo = {}
    /\ batch' = [batch EXCEPT ![request[c].of] = "validated"]
    /\ Goes(c, Idle)
    /\ UNCHANGED <<rowStatus, dupOf, made, families, variants, requests, stops>>

Commit(c, b) ==
    /\ Requests(c)
    /\ batch[b] = "validated"
    /\ \E warned, skip \in BOOLEAN :
          Goes(c, [at |-> "select", of |-> b, warned |-> warned, skip |-> skip])
    /\ UNCHANGED <<batch, rowStatus, dupOf, made, families, variants>>

(* The rows of the commit, each with the duplicate_of it has now.          *)
SelectCommitted(c) ==
    /\ request[c].at = "select"
    /\ LET wanted == IF request[c].warned THEN {"valid", "warning"} ELSE {"valid"}
           rows == {r \in Stored(request[c].of) : rowStatus[r] \in wanted}
           taken == IF request[c].skip THEN rows \ dupOf ELSE rows
       IN Goes(c, [at |-> "start", of |-> request[c].of, todo |-> taken, took |-> taken])
    /\ UNCHANGED <<batch, rowStatus, dupOf, made, families, variants, requests, stops>>

StartCommit(c) ==
    /\ request[c].at = "start"
    /\ batch' = [batch EXCEPT ![request[c].of] = "committing"]
    /\ Goes(c, [at |-> "commit", of |-> request[c].of, todo |-> request[c].todo,
                took |-> request[c].took])
    /\ UNCHANGED <<rowStatus, dupOf, made, families, variants, requests, stops>>

FamiliesOf(r) == {i \in DOMAIN families : families[i] = FamilyName[r]}

(* A transaction looks for a family of its row and then writes; no index   *)
(* keeps another from writing a family of the name meanwhile.              *)
LookForFamily(c) ==
    /\ request[c].at = "commit" /\ request[c].todo # {}
    /\ LET found == FamiliesOf(First(request[c].todo))
       IN \E fam \in IF found = {} THEN {0} ELSE found :
             Goes(c, [at |-> "insert", of |-> request[c].of, todo |-> request[c].todo,
                      took |-> request[c].took, fam |-> fam])
    /\ UNCHANGED <<batch, rowStatus, dupOf, made, families, variants, requests, stops>>

(* Mutant: without the index.                                              *)
ConflictsNever(v) == FALSE

(* canonical_variants_identity_uq: the active variants of one family.      *)
Conflicts(v) ==
    /\ v.active
    /\ \E i \in DOMAIN variants :
          variants[i].active /\ variants[i].family = v.family /\ variants[i].key = v.key

CommitRow(c) ==
    /\ request[c].at = "insert"
    /\ LET r == First(request[c].todo)
           fam == IF request[c].fam = 0 THEN Len(families) + 1 ELSE request[c].fam
           v == [family |-> fam, key |-> RowKey[r], look |-> Likeness[r],
                 active |-> r \in Complete]
       IN /\ families' = IF request[c].fam = 0 THEN Append(families, FamilyName[r])
                         ELSE families
          /\ IF Conflicts(v)
             THEN UNCHANGED <<variants, rowStatus, made>>
             ELSE /\ variants' = Append(variants, v)
                  /\ rowStatus' = [rowStatus EXCEPT ![r] = "committed"]
                  /\ made' = [made EXCEPT ![r] = Len(variants) + 1]
          /\ Goes(c, [at |-> "commit", of |-> request[c].of,
                      todo |-> request[c].todo \ {r}, took |-> request[c].took])
    /\ UNCHANGED <<batch, dupOf, requests, stops>>

(* The transaction of a row fails: the row is marked and not counted, the  *)
(* others go on.                                                           *)
RowFails(c) ==
    /\ request[c].at = "insert"
    /\ stops < MaxStops
    /\ stops' = stops + 1
    /\ LET r == First(request[c].todo)
       IN /\ rowStatus' = [rowStatus EXCEPT ![r] = "error"]
          /\ Goes(c, [at |-> "commit", of |-> request[c].of,
                      todo |-> request[c].todo \ {r}, took |-> request[c].took \ {r}])
    /\ UNCHANGED <<batch, dupOf, made, families, variants, requests>>

FinishCommit(c) ==
    /\ request[c].at = "commit" /\ request[c].todo = {}
    /\ batch' = [batch EXCEPT ![request[c].of] = "committed"]
    /\ Goes(c, Idle)
    /\ UNCHANGED <<rowStatus, dupOf, made, families, variants, requests, stops>>

Cancel(c, b) ==
    /\ Requests(c)
    /\ batch[b] \notin {"none", "committed"}
    /\ Goes(c, [at |-> "cancel", of |-> b])
    /\ UNCHANGED <<batch, rowStatus, dupOf, made, families, variants>>

MarkCancelled(c) ==
    /\ request[c].at = "cancel"
    /\ batch' = [batch EXCEPT ![request[c].of] = "cancelled"]
    /\ Goes(c, Idle)
    /\ UNCHANGED <<rowStatus, dupOf, made, families, variants, requests, stops>>

(* The API stops: every request ends where it is.                          *)
ApiStops ==
    /\ \E c \in Clients : request[c] # Idle
    /\ stops < MaxStops
    /\ stops' = stops + 1
    /\ request' = [c \in Clients |-> Idle]
    /\ UNCHANGED <<batch, rowStatus, dupOf, made, families, variants, requests>>

ImportNext ==
    \/ ApiStops
    \/ \E c \in Clients :
          \/ \E b \in Batches : Upload(c, b) \/ Validate(c, b) \/ Commit(c, b) \/ Cancel(c, b)
          \/ StoreRows(c) \/ StartValidation(c) \/ JudgeRow(c) \/ FinishValidation(c)
          \/ SelectCommitted(c) \/ StartCommit(c) \/ LookForFamily(c) \/ CommitRow(c)
          \/ RowFails(c) \/ FinishCommit(c) \/ MarkCancelled(c)

ImportSpec == ImportInit /\ [][ImportNext]_importVars

-----------------------------------------------------------------------------

ImportTypeOK ==
    /\ batch \in [Batches -> {"none", "mapping", "validating", "validated",
                              "committing", "committed", "cancelled"}]
    /\ rowStatus \in [ImportRows -> {"absent", "pending", "valid", "warning", "error",
                                     "duplicate", "committed"}]
    /\ dupOf \subseteq ImportRows
    /\ made \in [ImportRows -> 0..Len(variants)]
    /\ \A i \in DOMAIN variants : variants[i].family \in DOMAIN families
    /\ requests \in 0..MaxRequests
    /\ stops \in 0..MaxStops

IsOf(v, r) == families[v.family] = FamilyName[r] /\ v.key = RowKey[r]

InCatalogue(r) == \E i \in DOMAIN variants : IsOf(variants[i], r)

ActiveOf(r) == {i \in DOMAIN variants : variants[i].active /\ IsOf(variants[i], r)}

(* However the requests interleave, wherever the API stops and however     *)
(* often a batch is validated and committed again: two active variants of  *)
(* one identity are of different families, and a name has no more families *)
(* than there are requests at once, so that one request at a time makes    *)
(* each identity once; the variant a row says it made is of its identity;  *)
(* a row a commit has counted, as made or as there already, is there; and  *)
(* a row is set aside as known only for a variant of its look.             *)
ImportLandsOnce ==
    /\ \A r \in ImportRows :
          /\ \A i, j \in ActiveOf(r) : variants[i].family = variants[j].family => i = j
          /\ Cardinality(FamiliesOf(r)) <= Cardinality(Clients)
          /\ made[r] # 0 => IsOf(variants[made[r]], r)
    /\ \A c \in Clients : request[c].at \in {"commit", "insert"} =>
          \A r \in request[c].took \ request[c].todo : InCatalogue(r)
    /\ \A r \in dupOf : LooksKnown(r)
=============================================================================
