---------------------------- MODULE AnomalyEngine ----------------------------
(***************************************************************************)
(* Judging the buckets of one log source with one detector: the pass of    *)
(* evaluate_anomalies (workers/tasks.py), AnomalyEngine.evaluate_pending   *)
(* with its watermark and faults (anomaly/engine.py, anomaly/faults.py),   *)
(* the lifecycle (anomaly/lifecycle.py), the incident rows, the alert of   *)
(* the condition, and the operator who resolves alerts and edits the       *)
(* outage policy.                                                          *)
(*                                                                         *)
(* A pass is one transaction over many buckets: it reads the watermark,    *)
(* then the detector row, judges bucket after bucket, each in a savepoint, *)
(* and commits at the end.  Passes take no lock before they read; the      *)
(* first write of a pass to the rows of the source locks them until it     *)
(* commits.  The ORM writes only the columns a pass changed.               *)
(***************************************************************************)
EXTENDS Integers, Sequences, FiniteSets

CONSTANTS
  Passes,         \* evaluate_anomalies tasks that may run at once
  Kinds,          \* what the detector may say of a bucket; a "poison" one raises
  Maintenance,    \* whether a bucket may fall in maintenance: a set of BOOLEANs
  OpenAfter,      \* thresholds.open_after
  ResolveAfter,   \* thresholds.resolve_after
  BucketAttempts, \* anomaly_max_bucket_attempts
  MaxPerPass,     \* anomaly_max_buckets_per_evaluation
  Operator,       \* whether an operator resolves alerts and edits the policy
  MaxBuckets,     \* bound: buckets that arrive
  MaxIncidents,   \* bound: incident rows
  MaxFaults,      \* bound: evaluations that raise by chance, passes that die
  None

ASSUME EngineAssumption ==
  /\ Kinds \subseteq {"anomalous", "healthy", "unknown", "insufficient", "poison"}
  /\ Maintenance \subseteq BOOLEAN
  /\ {OpenAfter, ResolveAfter, BucketAttempts, MaxPerPass} \subseteq Nat \ {0}
  /\ {MaxBuckets, MaxIncidents, MaxFaults} \subseteq Nat
  /\ MaxIncidents >= MaxBuckets   \* a bucket opens at most one incident
  /\ Operator \in BOOLEAN
  /\ None \notin Nat \cup Passes

VARIABLES
  bucket,     \* the live metric rows, in the order of bucket_start
  watermark,  \* evaluated_through: a bucket number, or None before the first
  det,        \* log_source_detector_state
  incident,   \* incident[i]: state of the i-th log_source_anomaly row
  fault,      \* fault[b]: anomaly_evaluation_fault of bucket b
  alert,      \* the condition's alert: active or not, and was OPENED queued
  recordOnly, \* the outage policy of the source is RECORD_ONLY
  lock,       \* pass that has written rows of the source, or None
  pass,       \* pass[p]: what pass p has read and not yet committed
  faults,     \* faults so far
  folded      \* ghost: buckets a committed pass has judged

tableVars == <<watermark, det, incident, fault, alert, folded>>
vars == <<bucket, tableVars, recordOnly, lock, pass, faults>>

-----------------------------------------------------------------------------

ActiveStates == {"CANDIDATE", "OPEN", "RECOVERING"}
States == ActiveStates \cup {"NORMAL", "INSUFFICIENT_DATA", "RESOLVED", "SUPPRESSED"}
Columns == {"state", "ca", "ch", "last", "open", "active"}
Buckets == 1..MaxBuckets
Incidents == 1..MaxIncidents

NewDetector ==
  [state |-> "NORMAL", ca |-> 0, ch |-> 0, last |-> 0, open |-> FALSE, active |-> None]
NoFault == [attempts |-> 0, closed |-> "no"]
NoAlert == [on |-> FALSE, noticed |-> FALSE]

NoPass == [pc |-> "idle", todo |-> <<>>, watermark |-> None, det |-> NewDetector,
           dirty |-> {}, incident |-> <<>>, fault |-> <<>>, alert |-> NoAlert,
           touched |-> FALSE, folded |-> {}, muted |-> FALSE, failing |-> FALSE]

\* What reaches hysteresis: no verdict counts in maintenance but a healthy one.
Signal(b) ==
  IF b.kind = "healthy" \/ (b.kind = "anomalous" /\ ~b.maintenance) THEN b.kind ELSE "unknown"

\* advance_counters
Advance(d, signal) ==
  CASE signal = "anomalous" -> [d EXCEPT !.ca = @ + 1, !.ch = 0]
    [] signal = "healthy"   -> [d EXCEPT !.ca = 0, !.ch = @ + 1]
    [] OTHER                -> d

OnAnomalous(d) ==
  CASE d.state = "RECOVERING" -> "OPEN"
    [] d.state \in {"NORMAL", "INSUFFICIENT_DATA", "RESOLVED", "CANDIDATE"} ->
         IF d.ca >= OpenAfter THEN "OPEN" ELSE "CANDIDATE"
    [] OTHER -> d.state

\* MUTANT: one healthy bucket too few resolves.
OnHealthyEarly(d) ==
  CASE d.state \in {"OPEN", "RECOVERING"} ->
         IF d.ch >= ResolveAfter - 1 THEN "RESOLVED" ELSE "RECOVERING"
    [] OTHER -> "NORMAL"

OnHealthy(d) ==
  CASE d.state = "OPEN" -> IF ResolveAfter <= 1 THEN "RESOLVED" ELSE "RECOVERING"
    [] d.state = "RECOVERING" -> IF d.ch >= ResolveAfter THEN "RESOLVED" ELSE "RECOVERING"
    [] OTHER -> "NORMAL"

\* next_state, on the counters that already include bucket b.
NextState(d, b) ==
  IF b.maintenance /\ d.state \notin ActiveStates THEN "SUPPRESSED"
  ELSE IF d.state = "SUPPRESSED" THEN "NORMAL"
  ELSE IF b.kind = "insufficient"
  THEN IF d.state \in {"NORMAL", "INSUFFICIENT_DATA"} THEN "INSUFFICIENT_DATA" ELSE d.state
  ELSE CASE Signal(b) = "anomalous" -> OnAnomalous(d)
         [] Signal(b) = "healthy"   -> OnHealthy(d)
         [] OTHER                   -> d.state

-----------------------------------------------------------------------------
(* Side effects of one judged bucket, on the rows as pass w sees them.      *)

\* open_or_update, with the OPENED notification queued only if notify.
\* A bucket in maintenance and a RECORD_ONLY outage raise no alert.
Raise(w, b, notify) ==
  IF b.maintenance \/ w.muted THEN w
  ELSE [w EXCEPT !.touched = TRUE,
                 !.alert = IF @.on THEN @ ELSE [on |-> TRUE, noticed |-> notify]]

\* The next incident row: rows are numbered in the order they are inserted.
NextId(w) ==
  CHOOSE i \in Incidents :
    w.incident[i] = "unused" /\ \A j \in 1..(i - 1) : w.incident[j] # "unused"

\* The incident the detector row names moves to state s, if it names one.
MoveIncident(w, s) ==
  IF w.det.active = None THEN w ELSE [w EXCEPT !.incident[w.det.active] = s]

\* The incident to open: the one being tracked, or a new one.
LiveIncident(w) == IF w.det.active = None THEN NextId(w) ELSE w.det.active

\* MUTANT: resolving the incident forgets the alert.
ResolveIncidentOnly(w) ==
  [MoveIncident(w, "RESOLVED") EXCEPT !.det.open = FALSE, !.det.active = None]

\* _resolve
ResolveIncident(w) ==
  [MoveIncident(w, "RESOLVED") EXCEPT
     !.det.open = FALSE, !.det.active = None, !.alert.on = FALSE,
     !.touched = @ \/ w.alert.on]

\* _apply_transition on bucket b, from `previous` to the state already in w.det.
\* An incident that stays OPEN asserts its alert again, and never notifies.
Transition(w, b, previous) ==
  LET target == w.det.state
  IN IF target = previous THEN IF target = "OPEN" THEN Raise(w, b, FALSE) ELSE w
     ELSE CASE target = "CANDIDATE" ->
                 [w EXCEPT !.incident[NextId(w)] = "CANDIDATE", !.det.active = NextId(w)]
            [] target = "OPEN" ->
                 Raise([w EXCEPT !.incident[LiveIncident(w)] = "OPEN",
                                 !.det.active = LiveIncident(w), !.det.open = TRUE], b, TRUE)
            [] target = "RECOVERING" -> MoveIncident(w, "RECOVERING")
            [] target = "RESOLVED" -> ResolveIncident(w)
            [] target = "SUPPRESSED" -> [MoveIncident(w, "SUPPRESSED") EXCEPT !.det.open = FALSE]
            [] OTHER ->
                 [(IF previous = "CANDIDATE" THEN MoveIncident(w, target) ELSE w) EXCEPT
                    !.det.open = FALSE, !.det.active = None]

\* _apply_hysteresis: nothing for an interval already folded.
Apply(w, n) ==
  LET d == [Advance(w.det, Signal(bucket[n])) EXCEPT !.last = n]
  IN IF w.det.last >= n THEN w
     ELSE Transition([w EXCEPT !.det = [d EXCEPT !.state = NextState(d, bucket[n])],
                               !.folded = @ \cup {n}], bucket[n], w.det.state)

-----------------------------------------------------------------------------

Init ==
  /\ bucket = <<>>
  /\ watermark = None
  /\ det = NewDetector
  /\ incident = [i \in Incidents |-> "unused"]
  /\ fault = [b \in Buckets |-> NoFault]
  /\ alert = NoAlert
  /\ recordOnly = FALSE
  /\ lock = None
  /\ pass = [p \in Passes |-> NoPass]
  /\ faults = 0
  /\ folded = {}

\* The collector writes the next live bucket.
Arrive ==
  /\ Len(bucket) < MaxBuckets
  /\ \E k \in Kinds, m \in Maintenance :
       bucket' = Append(bucket, [kind |-> k, maintenance |-> m])
  /\ UNCHANGED <<tableVars, recordOnly, lock, pass, faults>>

Fault ==
  /\ faults < MaxFaults
  /\ faults' = faults + 1

\* The buckets after the watermark, the oldest first and at most MaxPerPass;
\* with no watermark yet, the latest bucket alone.
Pending ==
  IF watermark = None
  THEN IF bucket = <<>> THEN <<>> ELSE <<Len(bucket)>>
  ELSE LET n == IF Len(bucket) - watermark < MaxPerPass
                THEN Len(bucket) - watermark ELSE MaxPerPass
       IN [i \in 1..n |-> watermark + i]

OpenFaults(f) == {b \in Buckets : f[b].attempts > 0 /\ f[b].closed = "no"}

\* evaluate_pending reads the watermark and the pending buckets.  The outage
\* policy and the sources with an open fault are read once per engine, for an
\* earlier source or for this one, and kept to the end of the pass.
Load(p) ==
  /\ pass[p].pc = "idle"
  /\ Pending # <<>>
  /\ pass' = [pass EXCEPT ![p] =
       [NoPass EXCEPT !.pc = "loaded", !.todo = Pending, !.watermark = watermark,
                      !.muted = recordOnly, !.failing = OpenFaults(fault) # {}]]
  /\ UNCHANGED <<bucket, tableVars, recordOnly, lock, faults>>

\* _get_state reads the detector row; the session keeps that object to the end.
ReadState(p) ==
  /\ pass[p].pc = "loaded"
  /\ pass' = [pass EXCEPT ![p].pc = "ready", ![p].det = det]
  /\ UNCHANGED <<bucket, tableVars, recordOnly, lock, faults>>

\* The other rows are read when the first write has the lock, and the alert
\* whenever the pass has not written it: an operator may have.
Rows(p) ==
  LET w == pass[p]
  IN [w EXCEPT !.incident = IF lock = p THEN @ ELSE incident,
               !.fault = IF lock = p THEN @ ELSE fault,
               !.alert = IF w.touched THEN @ ELSE alert]

CanWrite(p) ==
  /\ pass[p].pc = "ready"
  /\ pass[p].todo # <<>>
  /\ lock \in {None, p}

\* The watermark this pass would insert is there already: another pass was first.
InsertConflict(p) == pass[p].watermark = None /\ watermark # None

Poisoned(p) == bucket[Head(pass[p].todo)].kind = "poison"

\* MUTANT: a source that judges a bucket keeps its open fault.
KeepFaults(w) == w

\* _clear_failure: closes the open rows of a source that was seen to have one.
ClearFaults(w) ==
  IF ~w.failing THEN w
  ELSE [w EXCEPT !.failing = FALSE,
                 !.fault = [b \in Buckets |-> IF b \in OpenFaults(w.fault)
                              THEN [w.fault[b] EXCEPT !.closed = "resolved"] ELSE w.fault[b]]]

\* One bucket: evaluate_interval and the watermark, in a savepoint.
Judge(p) ==
  /\ CanWrite(p)
  /\ ~InsertConflict(p)
  /\ ~Poisoned(p)
  /\ LET n == Head(pass[p].todo)
     IN \E w \in {ClearFaults(Apply(Rows(p), n))} :
          pass' = [pass EXCEPT ![p] =
            [w EXCEPT !.todo = Tail(@), !.watermark = n,
                      !.dirty = @ \cup {c \in Columns : w.det[c] # pass[p].det[c]}
                                  \cup {"watermark"}]]
  /\ lock' = p
  /\ UNCHANGED <<bucket, tableVars, recordOnly, faults>>

\* MUTANT: a bucket that keeps raising is retried for ever.
GivesUpNever(attempts) == FALSE

\* next_attempt
GivesUp(attempts) == attempts >= BucketAttempts

\* The detector row as this transaction would read it back.
Merged(w) == [c \in Columns |-> IF c \in w.dirty THEN w.det[c] ELSE det[c]]

\* MUTANT: the pass goes on to the next bucket after a failure.
HeldNot(w, n, k) ==
  [w EXCEPT !.fault[n].attempts = k, !.failing = TRUE, !.todo = Tail(@)]

\* The failed bucket is held: the pass stops here and keeps the watermark.
Held(w, n, k) == [w EXCEPT !.fault[n].attempts = k, !.failing = TRUE, !.todo = <<>>]

\* The bucket is closed as not judged and the watermark moves past it.  The
\* savepoint that was undone expired the detector row, so it is read again.
GivenUp(w, n, k) ==
  [w EXCEPT !.fault[n] = [attempts |-> k, closed |-> "given_up"], !.watermark = n,
            !.todo = Tail(@), !.dirty = @ \cup {"watermark"}, !.det = Merged(w),
            !.failing = FALSE]

\* The evaluation raises and its savepoint is undone.  _record_failure counts
\* the attempt (here up to BucketAttempts) and decides.  A watermark inserted
\* twice also fails the insert that would seed it at a given-up bucket, and
\* with it the task.
JudgeFails(p) ==
  /\ CanWrite(p)
  /\ \/ (InsertConflict(p) \/ Poisoned(p)) /\ UNCHANGED faults
     \/ ~InsertConflict(p) /\ Fault
  /\ LET n == Head(pass[p].todo)
         w == Rows(p)
         k == IF w.fault[n].attempts < BucketAttempts THEN w.fault[n].attempts + 1
              ELSE BucketAttempts
     IN \/ /\ GivesUp(k)
           /\ ~InsertConflict(p)
           /\ pass' = [pass EXCEPT ![p] = GivenUp(w, n, k)]
           /\ lock' = p
        \/ /\ GivesUp(k)
           /\ InsertConflict(p)
           /\ pass' = [pass EXCEPT ![p] = NoPass]
           /\ lock' = None
        \/ /\ ~GivesUp(k)
           /\ pass' = [pass EXCEPT ![p] = Held(w, n, k)]
           /\ lock' = p
  /\ UNCHANGED <<bucket, tableVars, recordOnly>>

\* The evaluation raises and so does the bookkeeping: the bucket is held.
RecordFails(p) ==
  /\ CanWrite(p)
  /\ Fault
  /\ pass' = [pass EXCEPT ![p].todo = <<>>]
  /\ UNCHANGED <<bucket, tableVars, recordOnly, lock>>

Commit(p) ==
  /\ pass[p].pc = "ready"
  /\ pass[p].todo = <<>>
  /\ IF lock = p
     THEN LET w == pass[p]
          IN /\ watermark' = IF "watermark" \in w.dirty THEN w.watermark ELSE watermark
             /\ det' = Merged(w)
             /\ incident' = w.incident
             /\ fault' = w.fault
             /\ alert' = IF w.touched THEN w.alert ELSE alert
             /\ folded' = folded \cup w.folded
             /\ lock' = None
     ELSE UNCHANGED <<tableVars, lock>>
  /\ pass' = [pass EXCEPT ![p] = NoPass]
  /\ UNCHANGED <<bucket, recordOnly, faults>>

\* The worker dies or the transaction fails: nothing of the pass remains.
Crash(p) ==
  /\ pass[p].pc # "idle"
  /\ Fault
  /\ pass' = [pass EXCEPT ![p] = NoPass]
  /\ lock' = IF lock = p THEN None ELSE lock
  /\ UNCHANGED <<bucket, tableVars, recordOnly>>

\* An operator resolves the alert; a pass that has written its row comes first.
OperatorResolves ==
  /\ Operator
  /\ alert.on
  /\ \A p \in Passes : ~pass[p].touched
  /\ alert' = [alert EXCEPT !.on = FALSE]
  /\ UNCHANGED <<bucket, watermark, det, incident, fault, folded, recordOnly, lock, pass, faults>>

\* An operator moves the source into or out of RECORD_ONLY.
EditPolicy ==
  /\ Operator
  /\ recordOnly' = ~recordOnly
  /\ UNCHANGED <<bucket, tableVars, lock, pass, faults>>

PassStep(p) == Load(p) \/ ReadState(p) \/ Judge(p) \/ Commit(p)

Next ==
  \/ Arrive
  \/ OperatorResolves
  \/ EditPolicy
  \/ \E p \in Passes : PassStep(p) \/ JudgeFails(p) \/ RecordFails(p) \/ Crash(p)

\* Beat starts a pass every minute, and a pass that does not die comes to its
\* end, over the buckets that raise as over those that do not.
Fairness == \A p \in Passes : WF_vars(PassStep(p) \/ JudgeFails(p))

Spec == Init /\ [][Next]_vars
FairSpec == Spec /\ Fairness

-----------------------------------------------------------------------------

TypeOK ==
  /\ bucket \in Seq([kind : Kinds, maintenance : BOOLEAN])
  /\ watermark \in Nat \cup {None}
  /\ det \in [state : States, ca : Nat, ch : Nat, last : Nat, open : BOOLEAN,
              active : Incidents \cup {None}]
  /\ incident \in [Incidents -> States \cup {"unused"}]
  /\ fault \in [Buckets -> [attempts : Nat, closed : {"no", "resolved", "given_up"}]]
  /\ alert \in [on : BOOLEAN, noticed : BOOLEAN]
  /\ lock \in Passes \cup {None}
  /\ faults \in 0..MaxFaults

\* The verdicts s in a row that end at bucket n, of the buckets F among q; those
\* that say nothing do not interrupt it.
RunTo(q, F, n, s) ==
  {i \in F : /\ i <= n /\ Signal(q[i]) = s
             /\ \A j \in F : i < j /\ j <= n => Signal(q[j]) \in {s, "unknown"}}

\* A run of OpenAfter anomalous verdicts that no run of ResolveAfter healthy
\* ones has followed.
Unresolved(q, F) ==
  \E i \in F :
    /\ Cardinality(RunTo(q, F, i, "anomalous")) >= OpenAfter
    /\ \A j \in F : j > i => Cardinality(RunTo(q, F, j, "healthy")) < ResolveAfter

NoMaintenance(q) == \A i \in 1..Len(q) : ~q[i].maintenance

\* While no bucket fell in maintenance an incident is open exactly when the
\* verdicts say so: the counters, the states, the retries and the passes that
\* died amount to the definition (lifecycle.py's diagram).
OpenIffUnresolved == NoMaintenance(bucket) => (det.open <=> Unresolved(bucket, folded))

\* "We require N consecutive anomalous intervals to open and M consecutive
\* healthy intervals to resolve" (models/log_source.py).
OpenIsConfirmed == det.open => Unresolved(bucket, folded)

\* An incident is RESOLVED by ResolveAfter healthy verdicts in a row, never by
\* missing, unreadable or muted buckets (lifecycle.py: "a collection failure
\* must never resolve an anomaly").
ResolvedIsEarned ==
  det.state = "RESOLVED" =>
    Cardinality(RunTo(bucket, folded, Len(bucket), "healthy")) >= ResolveAfter

\* "Only one incident is active per (log source, detector type) at a time"
\* (lifecycle.py), and it is the one the detector row names.
OneIncident ==
  \A i \in Incidents : incident[i] \in ActiveStates => det.active = i /\ det.state = incident[i]

\* The state of the incident is what the verdicts have earned, whatever raised,
\* was retried, died or was muted on the way, and there is one incident for it.
IncidentEarned ==
  /\ TypeOK
  /\ OpenIffUnresolved /\ OpenIsConfirmed /\ ResolvedIsEarned
  /\ OneIncident

\* The alert is active exactly while an incident is open, and was announced:
\* "A notification is enqueued exactly once per (alert, transition, channel)"
\* (alerts/service.py).  Only an operator or a RECORD_ONLY policy sets them
\* apart.
AlertAgrees == (alert.on <=> det.open) /\ (alert.on => alert.noticed)

\* The watermark leaves behind only buckets that were judged or given up, in
\* spite of evaluations that raise, passes that die and passes that overlap.
NoBucketSkipped ==
  LET done == {b \in Buckets : b \in folded \/ fault[b].closed = "given_up"}
  IN \A b \in Buckets :
       watermark # None /\ b <= watermark /\ (\E a \in done : a <= b) => b \in done

\* A bucket that was judged in the end has no open fault (the doctor reads the
\* open rows as "failing now").
NoStaleFault ==
  \A b \in Buckets : b \in folded => fault[b].attempts = 0 \/ fault[b].closed # "no"

\* The watermark reaches the last bucket in the end, whatever raises.
CatchesUp == <>[](bucket = <<>> \/ watermark = Len(bucket))

=============================================================================
