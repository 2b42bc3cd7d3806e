----------------------------- MODULE DecisionLog -----------------------------
(***************************************************************************)
(* The log of decisions.  recordDecision writes a row for the triple of a  *)
(* variant, a shop and a listing, or confirms the latest one when the      *)
(* decision is the same; the relation or the review case of the            *)
(* transaction then refers to it.  The retention deletes the old decisions *)
(* of the engine that a newer one supersedes and nothing refers to.        *)
(*                                                                         *)
(* The transactions of two jobs are READ COMMITTED: another may commit     *)
(* between the read of the latest row and the write.  A verified decision  *)
(* holds the row of its relation from before the read (ON CONFLICT DO      *)
(* UPDATE), a doubtful one holds nothing.  The DELETE sees the rows as     *)
(* they are when it starts and does not look at the references again when  *)
(* it has waited for a row.                                                *)
(***************************************************************************)
EXTENDS Integers, FiniteSets, FiniteSetsExt

CONSTANTS
    Triples,        \* (variant, shop, listing), the listing may be NULL
    Deciders,       \* the transactions of the engine at work at a time
    Decisions,      \* contents: {"verified", "doubtful", "nothing"}
    NoReference,    \* NULL
    MaxDecisionRows, MaxPrunes   \* bounds

ASSUME LogAssumption ==
    NoReference \notin Nat /\ MaxDecisionRows \in Nat /\ MaxPrunes \in Nat

VARIABLES
    entries,      \* the rows of match_decisions
    current,        \* [Triples -> current_decision_id of the live relation]
    caseOf,         \* [Triples -> match_decision_id of the open case]
    deciding,       \* [Deciders -> the transaction]
    doomed,         \* the rows a running DELETE has selected
    prunes,         \* bound
    confirmedLate   \* rows confirmed when no longer the latest (history)

logVars == <<entries, current, caseOf, deciding, doomed, prunes, confirmedLate>>

-----------------------------------------------------------------------------
(* created_at is the start of the transaction; at = its place among them. *)
NotDeciding == [pc |-> "idle"]
Of(t) == {d \in entries : d.triple = t}
Latest(t) == CHOOSE d \in Of(t) : \A e \in Of(t) : e.at <= d.at
References == {current[t] : t \in Triples} \cup {caseOf[t] : t \in Triples}

Busy == {deciding[w].at : w \in {v \in Deciders : deciding[v].pc # "idle"}}
Now == Max({d.at : d \in entries} \cup Busy \cup {0}) + 1

RelationHeld(t) ==
    \E w \in Deciders : /\ deciding[w].pc # "idle"
                        /\ deciding[w].triple = t /\ deciding[w].content = "verified"

LogInit ==
    /\ entries = {} /\ confirmedLate = {} /\ doomed = {} /\ prunes = 0
    /\ current = [t \in Triples |-> NoReference]
    /\ caseOf = [t \in Triples |-> NoReference]
    /\ deciding = [w \in Deciders |-> NotDeciding]

(* persistDecision up to the SELECT of the latest decision. *)
ReadLatest(w, t, content) ==
    /\ deciding[w].pc = "idle" /\ Now <= MaxDecisionRows
    /\ content = "verified" => ~RelationHeld(t)
    /\ LET same == /\ Of(t) # {} /\ Latest(t).by = "engine"
                   /\ Latest(t).content = content
       IN  deciding' = [deciding EXCEPT ![w] =
               [pc |-> "write", triple |-> t, content |-> content, at |-> Now,
                confirms |-> IF same THEN Latest(t).at ELSE NoReference]]
    /\ UNCHANGED <<entries, current, caseOf, doomed, prunes, confirmedLate>>

(* The relation of a verified decision, the case of a doubtful one. *)
Refer(t, content, id) ==
    /\ current' = IF content = "verified" THEN [current EXCEPT ![t] = id] ELSE current
    /\ caseOf' = IF content = "doubtful" THEN [caseOf EXCEPT ![t] = id] ELSE caseOf

Confirm(w) ==
    LET tx == deciding[w]
        confirmed == {d \in entries : d.at = tx.confirms}
    IN  /\ tx.pc = "write" /\ confirmed # {}
        /\ Refer(tx.triple, tx.content, tx.confirms)
        /\ confirmedLate' = IF Latest(tx.triple) \in confirmed THEN confirmedLate
                            ELSE confirmedLate \cup {tx.confirms}
        /\ deciding' = [deciding EXCEPT ![w] = NotDeciding]
        /\ UNCHANGED <<entries, doomed, prunes>>

(* The row has been deleted meanwhile: the UPDATE writes nothing, and the  *)
(* reference to it, if there is one, fails the transaction.                *)
ConfirmNothing(w) ==
    LET tx == deciding[w] IN
    /\ tx.pc = "write" /\ tx.confirms # NoReference
    /\ \A d \in entries : d.at # tx.confirms
    /\ deciding' = [deciding EXCEPT ![w] = NotDeciding]
    /\ UNCHANGED <<entries, current, caseOf, doomed, prunes, confirmedLate>>

InsertDecision(w) ==
    LET tx == deciding[w] IN
    /\ tx.pc = "write" /\ tx.confirms = NoReference
    /\ entries' = entries \cup
           {[triple |-> tx.triple, content |-> tx.content, by |-> "engine", at |-> tx.at]}
    /\ Refer(tx.triple, tx.content, tx.at)
    /\ deciding' = [deciding EXCEPT ![w] = NotDeciding]
    /\ UNCHANGED <<doomed, prunes, confirmedLate>>

(* applyApprove: the relation keeps its reference, the case is closed and  *)
(* keeps its own.                                                          *)
ApproveByHand(t) ==
    /\ Now <= MaxDecisionRows /\ ~RelationHeld(t)
    /\ entries' = entries \cup
           {[triple |-> t, content |-> "verified", by |-> "human", at |-> Now]}
    /\ UNCHANGED <<current, caseOf, deciding, doomed, prunes, confirmedLate>>

-----------------------------------------------------------------------------
(* pruneSupersededDecisions.  Any committed row may be older than the      *)
(* retention.                                                              *)
Unreferenced(d) == d.at \notin References
AnyRow(d) == d \in entries
OutdatedByAny(d) == \E n \in entries : n.at > d.at
Outdated(d) == \E n \in entries : n.triple = d.triple /\ n.at > d.at

Prunable == {d \in entries : d.by = "engine" /\ Unreferenced(d) /\ Outdated(d)}

SelectDoomed ==
    /\ doomed = {} /\ prunes < MaxPrunes
    /\ \E old \in SUBSET Prunable : old # {} /\ doomed' = old
    /\ prunes' = prunes + 1
    /\ UNCHANGED <<entries, current, caseOf, deciding, confirmedLate>>

(* ON DELETE SET NULL on both references. *)
DeleteDoomed ==
    /\ doomed # {}
    /\ entries' = entries \ doomed
    /\ LET kept(r) == IF \E d \in doomed : d.at = r THEN NoReference ELSE r
       IN  /\ current' = [t \in Triples |-> kept(current[t])]
           /\ caseOf' = [t \in Triples |-> kept(caseOf[t])]
    /\ doomed' = {}
    /\ UNCHANGED <<deciding, prunes, confirmedLate>>

LogNext ==
    \/ \E w \in Deciders : \/ \E t \in Triples, c \in Decisions : ReadLatest(w, t, c)
                           \/ Confirm(w) \/ ConfirmNothing(w) \/ InsertDecision(w)
    \/ \E t \in Triples : ApproveByHand(t)
    \/ SelectDoomed \/ DeleteDoomed

LogSpec == LogInit /\ [][LogNext]_logVars

-----------------------------------------------------------------------------
LogTypeOK ==
    /\ \A d, e \in entries : d.at = e.at => d = e
    /\ \A t \in Triples : {current[t], caseOf[t]} \subseteq Nat \cup {NoReference}
    /\ prunes \in 0..MaxPrunes

(* The retention takes nothing that something is built on (its comment):   *)
(* what people decided stays, the latest decision of each triple stays,    *)
(* and so does what the relation or the case refers to, except for a       *)
(* row that was confirmed after a newer one had superseded it.             *)
FoundationsStay ==
    /\ \A d \in entries \ entries' : d.by = "engine"
    /\ \A d \in entries : Latest(d.triple) = d =>
           \E e \in entries' : e.triple = d.triple /\ e.at >= d.at
    /\ \A t \in Triples :
           /\ current[t] # NoReference => current'[t] # NoReference
           /\ caseOf[t] # NoReference =>
                  caseOf'[t] # NoReference \/ caseOf[t] \in confirmedLate
FoundationsKept == [][FoundationsStay]_logVars
=============================================================================
