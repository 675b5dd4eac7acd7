--------------------------- MODULE AlertLifecycle ---------------------------
(***************************************************************************)
(* The alert table: AlertService (alerts/service.py), the intent to notify *)
(* that NotificationDispatcher.enqueue records with every transition       *)
(* (alerts/dispatcher.py), and the acknowledge and resolve requests of the *)
(* API (api/routes/alerts.py).                                             *)
(*                                                                         *)
(* Every caller works in a READ COMMITTED transaction and takes no row     *)
(* lock before it decides, so a transaction is two steps: what it read,    *)
(* then its writes, its notification rows and the commit.  A refresh of an *)
(* active alert (occurrence_count, evidence) moves no status and is the    *)
(* write that changes nothing here.                                        *)
(***************************************************************************)
EXTENDS Integers, FiniteSets

CONSTANTS
  Conditions,     \* fingerprints
  Alerts,         \* ids of alert rows; bound: no insert once all are used
  Sessions,       \* database sessions of workers and API requests
  Operations,     \* what a session may be asked to do
  NotifyRecovery, \* notify_send_recovery
  None

AllOperations == {"detect", "clear", "acknowledge", "resolve"}

ASSUME AlertAssumption ==
  /\ Operations \subseteq AllOperations
  /\ NotifyRecovery \in BOOLEAN
  /\ None \notin Conditions \cup Alerts

VARIABLES
  cond,     \* cond[a]: dedup_key of the row
  status,   \* status[a], or "unused"
  notices,  \* notices[a][t]: notification rows of a for transition t on one route
  txn       \* txn[p]: what session p is doing and what it has read

alertVars == <<cond, status, notices, txn>>

Transitions == {"OPENED", "ACKNOWLEDGED", "RESOLVED"}
Active == {"OPEN", "ACKNOWLEDGED"}

NoTxn == [op |-> "idle", cond |-> None, alert |-> None, seen |-> "unused"]

-----------------------------------------------------------------------------

ActiveAlerts(c) == {a \in Alerts : status[a] \in Active /\ cond[a] = c}

\* _find_active: scalar() of the rows that are not RESOLVED.
FindActive(c) ==
  IF ActiveAlerts(c) = {} THEN None ELSE CHOOSE a \in ActiveAlerts(c) : TRUE

\* MUTANT: a session may set any status, whatever the index says.
IndexAllowsAll(a, c, s) == TRUE

\* uq_alert_active_dedup: row a may take status s for condition c.
IndexAllows(a, c, s) == s \in Active => ActiveAlerts(c) \subseteq {a}

\* enqueue: one row per route, unless recovery is muted or the row exists.
EnqueueIntent(a, t) ==
  notices' = IF (t = "RESOLVED" /\ ~NotifyRecovery) \/ notices[a][t] > 0
             THEN notices
             ELSE [notices EXCEPT ![a][t] = 1]

-----------------------------------------------------------------------------

AlertInit ==
  /\ cond = [a \in Alerts |-> None]
  /\ status = [a \in Alerts |-> "unused"]
  /\ notices = [a \in Alerts |-> [t \in Transitions |-> 0]]
  /\ txn = [p \in Sessions |-> NoTxn]

Begin(p, rec) ==
  /\ txn[p] = NoTxn
  /\ rec.op \in Operations
  /\ txn' = [txn EXCEPT ![p] = rec]
  /\ UNCHANGED <<cond, status, notices>>

\* open_or_update, resolve_by_fingerprint and apply_bulk look the active alert up.
ReadActive(p, op, c) ==
  LET a == FindActive(c)
  IN Begin(p, [op |-> op, cond |-> c, alert |-> a,
               seen |-> IF a = None THEN "unused" ELSE status[a]])

\* acknowledge and resolve load the alert the operator named.
ReadAlert(p, op, a) ==
  /\ status[a] # "unused"
  /\ Begin(p, [op |-> op, cond |-> cond[a], alert |-> a, seen |-> status[a]])

End(p) == txn' = [txn EXCEPT ![p] = NoTxn]

\* The writes of p move no alert: a refresh (apply_bulk's two passes write them
\* together), an early return, or a statement that failed and rolled back.
NoTransition(p) ==
  /\ End(p)
  /\ UNCHANGED <<cond, status, notices>>

\* Row a moves to status s and the transition t is enqueued, in one commit, as
\* apply_bulk's resolutions do for every row of its snapshot.
Move(p, a, s, t) ==
  /\ status' = [status EXCEPT ![a] = s]
  /\ EnqueueIntent(a, t)
  /\ End(p)
  /\ UNCHANGED cond

\* A new alert, OPEN, and its OPENED notification.
Insert(p, a) ==
  /\ status[a] = "unused"
  /\ cond' = [cond EXCEPT ![a] = txn[p].cond]
  /\ status' = [status EXCEPT ![a] = "OPEN"]
  /\ EnqueueIntent(a, "OPENED")
  /\ End(p)

\* MUTANT: the refresh writes the whole row back, the status it read included.
DetectWritesRow(p) ==
  /\ txn[p].op = "detect"
  /\ \/ /\ txn[p].alert # None
        /\ status' = [status EXCEPT ![txn[p].alert] = txn[p].seen]
        /\ End(p)
        /\ UNCHANGED <<cond, notices>>
     \/ /\ txn[p].alert = None
        /\ ActiveAlerts(txn[p].cond) = {}
        /\ \E a \in Alerts : Insert(p, a)

\* open_or_update: refresh the alert that was found, else insert.  An insert
\* the index refuses rolls back, reloads the winner and refreshes it (or
\* raises, if the winner is gone by then): either way no transition.
Detect(p) ==
  /\ txn[p].op = "detect"
  /\ IF txn[p].alert # None \/ ActiveAlerts(txn[p].cond) # {}
     THEN NoTransition(p)
     ELSE \E a \in Alerts : Insert(p, a)

\* resolve_by_fingerprint, then resolve on the row the session already holds:
\* the status it checks is the one it read.
Clear(p) ==
  /\ txn[p].op = "clear"
  /\ IF txn[p].alert = None
     THEN NoTransition(p)
     ELSE Move(p, txn[p].alert, "RESOLVED", "RESOLVED")

\* acknowledge: only an alert that was read OPEN.  The UPDATE is refused by the
\* index when the row left the index meanwhile and another took its place.
Acknowledge(p) ==
  /\ txn[p].op = "acknowledge"
  /\ IF txn[p].seen = "OPEN" /\ IndexAllows(txn[p].alert, txn[p].cond, "ACKNOWLEDGED")
     THEN Move(p, txn[p].alert, "ACKNOWLEDGED", "ACKNOWLEDGED")
     ELSE NoTransition(p)

\* resolve on behalf of an operator.
Resolve(p) ==
  /\ txn[p].op = "resolve"
  /\ IF txn[p].seen = "RESOLVED"
     THEN NoTransition(p)
     ELSE Move(p, txn[p].alert, "RESOLVED", "RESOLVED")

\* The session is lost, or a later statement of its transaction fails.
Abort(p) ==
  /\ txn[p] # NoTxn
  /\ NoTransition(p)

AlertNext ==
  \E p \in Sessions :
    \/ \E op \in {"detect", "clear"}, c \in Conditions : ReadActive(p, op, c)
    \/ \E op \in {"acknowledge", "resolve"}, a \in Alerts : ReadAlert(p, op, a)
    \/ Detect(p)
    \/ Clear(p)
    \/ Acknowledge(p)
    \/ Resolve(p)
    \/ Abort(p)

AlertSpec == AlertInit /\ [][AlertNext]_alertVars

-----------------------------------------------------------------------------

Statuses == {"unused", "RESOLVED"} \cup Active

AlertTypeOK ==
  /\ cond \in [Alerts -> Conditions \cup {None}]
  /\ status \in [Alerts -> Statuses]
  /\ notices \in [Alerts -> [Transitions -> Nat]]
  /\ txn \in [Sessions -> [op : AllOperations \cup {"idle"}, cond : Conditions \cup {None},
                           alert : Alerts \cup {None}, seen : Statuses]]

\* At most one alert of a condition is active, whatever sessions decided on
\* reads that were stale by the time they wrote (models/alert.py, the partial
\* unique index; open_or_update's IntegrityError branch).
OneActive ==
  \A a, b \in Alerts :
    status[a] \in Active /\ status[b] \in Active /\ cond[a] = cond[b] => a = b

\* A used row never returns to be an alert of another condition, and an alert
\* that left OPEN does not come back to it: a recurrence is a new row
\* (open_or_update inserts, it never revives).
NeverReopened ==
  [][\A a \in Alerts : status[a] # "unused" =>
       /\ cond'[a] = cond[a]
       /\ status'[a] = "OPEN" => status[a] = "OPEN"]_alertVars

=============================================================================
