------------------------------- MODULE Alerts -------------------------------
(***************************************************************************)
(* The alerts: raiseAlert and the scheduler count a repeated alert on the  *)
(* open row of its key, people resolve rows, and alert-dispatch posts the  *)
(* ones that are pending to a webhook and marks them.  A row keeps the     *)
(* level it was opened with, and once it is marked no repetition is posted *)
(* until it is resolved and raised again.                                  *)
(*                                                                         *)
(* Left out: texts, counts, and who acknowledged an alert (nothing reads   *)
(* it but the list).                                                       *)
(***************************************************************************)
EXTENDS Integers, Sequences, SequencesExt, FiniteSets, FiniteSetsExt

CONSTANTS
    AlertKeys,      \* what alerts are about
    LevelsOf,       \* [AlertKeys -> the levels they are raised with]
    MinLevel,       \* ALERT_MIN_LEVEL
    PageOfAlerts,   \* rows of one dispatch (50)
    MaxAlertRows, MaxAlertFaults   \* bounds

VARIABLES
    webhook,        \* ALERT_WEBHOOK_URL is set
    alerts,         \* the rows, in the order of their creation
    freshest,       \* the rows by last_seen_at, the latest first
    dispatch,       \* the job: where it is, the rows it sends
    received,       \* [row -> how often the webhook was told]  (history)
    alertFaults     \* bound

alertVars == <<webhook, alerts, freshest, dispatch, received, alertFaults>>

-----------------------------------------------------------------------------
levels == <<"info", "warn", "error", "critical">>
AtLeast(level, min) ==
    \E i, j \in DOMAIN levels : levels[i] = level /\ levels[j] = min /\ i >= j

Open(key) == {i \in DOMAIN alerts : alerts[i].key = key /\ ~alerts[i].resolved}
PendingAlert(i) == ~alerts[i].resolved /\ ~alerts[i].dispatched
NotDispatching == [at |-> "idle", send |-> {}]

(* The newest pending rows are read, the level is looked at afterwards. *)
Fresher(j, i) == \E m, n \in DOMAIN freshest : m < n /\ freshest[m] = j /\ freshest[n] = i
AllPending ==
    {i \in DOMAIN alerts :
        /\ PendingAlert(i)
        /\ Cardinality({j \in DOMAIN alerts : PendingAlert(j) /\ Fresher(j, i)}) < PageOfAlerts}
ToSend == {i \in AllPending : AtLeast(alerts[i].level, MinLevel)}

MarkAll(rows) == alerts' = [i \in DOMAIN alerts |->
    IF i \in rows \cup AllPending THEN [alerts[i] EXCEPT !.dispatched = TRUE] ELSE alerts[i]]
Mark(rows) == alerts' = [i \in DOMAIN alerts |->
    IF i \in rows THEN [alerts[i] EXCEPT !.dispatched = TRUE] ELSE alerts[i]]

-----------------------------------------------------------------------------
AlertsInit ==
    /\ webhook \in BOOLEAN
    /\ alerts = <<>> /\ freshest = <<>> /\ received = <<>>
    /\ dispatch = NotDispatching /\ alertFaults = 0

(* ON CONFLICT (alert_key) WHERE resolved_at IS NULL: the level stays. *)
raiseAlert(key, level) ==
    /\ \/ /\ Open(key) # {}
          /\ freshest' = <<Max(Open(key))>> \o SelectSeq(freshest, LAMBDA i : i \notin Open(key))
          /\ UNCHANGED <<alerts, received>>
       \/ /\ Open(key) = {} /\ Len(alerts) < MaxAlertRows
          /\ alerts' = Append(alerts, [key |-> key, level |-> level,
                                       resolved |-> FALSE, dispatched |-> FALSE])
          /\ freshest' = <<Len(alerts) + 1>> \o freshest
          /\ received' = Append(received, 0)
    /\ UNCHANGED <<webhook, dispatch, alertFaults>>

ResolveAlert(i) ==
    /\ ~alerts[i].resolved
    /\ alerts' = [alerts EXCEPT ![i].resolved = TRUE]
    /\ UNCHANGED <<webhook, freshest, dispatch, received, alertFaults>>

(* The scheduler sends the job for as long as anything is pending, one at  *)
(* a time by its key.  Without a webhook the rows are only marked.         *)
ReadPending ==
    /\ dispatch = NotDispatching /\ ToSend # {}
    /\ dispatch' = [at |-> IF webhook THEN "post" ELSE "mark", send |-> ToSend]
    /\ UNCHANGED <<webhook, alerts, freshest, received, alertFaults>>

Told(rows) == received' = [i \in DOMAIN received |->
                             IF i \in rows THEN received[i] + 1 ELSE received[i]]

Post ==
    /\ dispatch.at = "post"
    /\ dispatch' = [dispatch EXCEPT !.at = "mark"]
    /\ Told(dispatch.send)
    /\ UNCHANGED <<webhook, alerts, freshest, alertFaults>>

(* An answer that is not ok, or none in 15 s: told or not, the rows stay   *)
(* pending and the job ends.                                               *)
PostFails ==
    /\ dispatch.at = "post" /\ alertFaults < MaxAlertFaults
    /\ alertFaults' = alertFaults + 1
    /\ dispatch' = NotDispatching
    /\ Told(dispatch.send) \/ UNCHANGED received
    /\ UNCHANGED <<webhook, alerts, freshest>>

MarkSent ==
    /\ dispatch.at = "mark"
    /\ Mark(dispatch.send) /\ dispatch' = NotDispatching
    /\ UNCHANGED <<webhook, freshest, received, alertFaults>>

(* The worker dies: the job starts again from the beginning. *)
DispatcherDies ==
    /\ dispatch # NotDispatching /\ alertFaults < MaxAlertFaults
    /\ alertFaults' = alertFaults + 1 /\ dispatch' = NotDispatching
    /\ UNCHANGED <<webhook, alerts, freshest, received>>

AlertsNext ==
    \/ \E key \in AlertKeys : \E level \in LevelsOf[key] : raiseAlert(key, level)
    \/ \E i \in DOMAIN alerts : ResolveAlert(i)
    \/ ReadPending \/ Post \/ PostFails \/ MarkSent \/ DispatcherDies

AlertsSpec == AlertsInit /\ [][AlertsNext]_alertVars

-----------------------------------------------------------------------------
AlertsTypeOK ==
    /\ Len(received) = Len(alerts) /\ ToSet(freshest) = DOMAIN alerts
    /\ Len(freshest) = Len(alerts)
    /\ dispatch.at \in {"idle", "post", "mark"} /\ dispatch.send \subseteq DOMAIN alerts

(* With a webhook a row is marked only when the webhook has been told of   *)
(* that very row - not of an earlier one of its key, nor of those the job  *)
(* merely read - and it is told again only where a fault made the answer   *)
(* unknown.                                                                *)
AlertsAreDelivered ==
    webhook =>
        \A i \in DOMAIN alerts :
            /\ alerts[i].dispatched => received[i] > 0
            /\ received[i] <= 1 + alertFaults
=============================================================================
