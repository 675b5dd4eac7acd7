--------------------------- MODULE SearchScheduler ---------------------------
(***************************************************************************)
(* Cron-driven dispatch of stored searches: run_due_searches               *)
(* (workers/tasks.py), SearchScheduler (services/search_scheduler.py),     *)
(* SearchExecutor (services/search_executor.py), the alert conditions of   *)
(* SearchAlertEvaluator (alerts/search_alerts.py), and the manual run of   *)
(* the API (api/routes/searches.py), which shares the executor and the     *)
(* alerts but neither the cycle lock nor the committed progress.           *)
(*                                                                         *)
(* A claim is one transaction: row lock, due and in-flight checks, the     *)
(* move of next_run_at, the PENDING row.  A record reads the search        *)
(* without a lock and locks its row only when it writes.  Between claim    *)
(* and record no lock protects the run but the cycle's advisory lock, and  *)
(* that lock goes with its connection.                                     *)
(***************************************************************************)
EXTENDS Integers, Sequences, FiniteSets, SequencesExt

CONSTANTS
  Searches,     \* stored searches
  Workers,      \* Celery workers a run_due_searches task may run on
  Manuals,      \* API requests that may run a search by hand
  Period,       \* Period[s]: the cron of s fires at the multiples of it
  Operated,     \* searches an operator enables, disables and resolves the alerts of
  BadCron,      \* searches whose stored cron does not parse
  Timeout,      \* timeout_seconds, in units of the clock
  MaxAttempts,  \* ariel_max_retries + 1
  MaxDispatch,  \* search_max_dispatch_per_cycle
  AlertAfter,   \* search_failure_alert_after
  Outcomes,     \* what an attempt may come back with, of Successes and Failures
  MaxTime,      \* bound: the clock stops here
  MaxFaults,    \* bound: crashes, failed commits, skipped rows, lost lock connections
  None

ASSUME SchedulerAssumption ==
  /\ IsFiniteSet(Searches)
  /\ Period \in [Searches -> Nat \ {0}]
  /\ BadCron \subseteq Searches
  /\ Operated \subseteq Searches
  /\ Timeout \in Nat \ {0}
  /\ MaxAttempts \in Nat \ {0}
  /\ MaxDispatch \in Nat \ {0}
  /\ AlertAfter \in Nat \ {0}
  /\ MaxTime \in Nat
  /\ MaxFaults \in Nat
  /\ None \notin Nat \cup Searches \cup Workers
  /\ Workers \cap Manuals = {}
  /\ Outcomes \subseteq {"within", "breach", "truncated", "retryable", "fatal", "capacity"}

VARIABLES
  now,          \* the wall clock
  faults,       \* faults so far
  lock,         \* the cycle's advisory lock: its holder or None
  enabled,      \* scheduled_search.enabled
  nextRun,      \* scheduled_search.next_run_at, or None
  failures,     \* scheduled_search.consecutive_failures
  rows,         \* rows[s][t]: the execution whose run key is tick t, or NoRow
  failAlert,    \* the search-failure alert of s is active
  breachAlert,  \* the threshold alert of s is active
  pc,           \* where each worker is in its cycle
  cycle,        \* cycle[w]: its `now`, the candidates left, how many were sent
  job,          \* job[a]: the run a worker or a manual request is on
  streak,       \* ghost: failed runs of s recorded since its last success, up to AlertAfter
  dismissed,    \* ghost: an operator resolved the failure alert after the last recorded run
  contended     \* ghost: runs of s met, or one was manual, since the last undisturbed success

tableVars == <<enabled, nextRun, failures, rows, failAlert, breachAlert>>
ghostVars == <<streak, dismissed, contended>>
vars == <<now, faults, lock, tableVars, pc, cycle, job, ghostVars>>

-----------------------------------------------------------------------------

Ticks == 0..MaxTime

NoRow == [status |-> "none", created |-> 0, started |-> None, asOf |-> 0]
NoJob == [search |-> None, tick |-> 0, attempt |-> 0, outcome |-> None, seen |-> 0]
NoCycle == [now |-> 0, queue |-> <<>>, sent |-> 0]

\* What one attempt can come back with.  "truncated" is a lower bound that
\* proves no breach.  classify/is_retryable: TIMEOUT, NETWORK, RATE_LIMITED and
\* SEARCH_FAILED retry; VALIDATION, AUTH, PARSING and CANCELLED do not, and
\* neither does CAPACITY, which stops the cycle.
Successes == {"within", "breach", "truncated"}
Failures == {"retryable", "fatal", "capacity"}

\* next_fire_time with after=None: the first fire at or after t.
FireFrom(s, t) == t + ((-t) % Period[s])

\* next_fire_time with after=t: the first fire strictly after t.
FireAfter(s, t) == FireFrom(s, t + 1)

\* started_at or created_at
Since(row) == IF row.started = None THEN row.created ELSE row.started

\* MUTANT: a PENDING or RUNNING row blocks the search whatever its age.
InFlightForever(s, t) == \E k \in Ticks : rows[s][k].status \in {"PENDING", "RUNNING"}

\* MUTANT: a claim that has not started yet does not count as in flight.
InFlightRunningOnly(s, t) ==
  \E k \in Ticks : /\ rows[s][k].status = "RUNNING"
                   /\ Since(rows[s][k]) > t - 2 * Timeout

\* _has_run_in_flight: an execution that is not over and not presumed dead.
InFlight(s, t) ==
  \E k \in Ticks : /\ rows[s][k].status \in {"PENDING", "RUNNING"}
                   /\ Since(rows[s][k]) > t - 2 * Timeout

\* order_by(next_run_at.nulls_first()); the database breaks ties as it likes.
EarlierRun(s, t) ==
  \/ nextRun[s] = None
  \/ nextRun[t] # None /\ nextRun[s] # None /\ nextRun[s] <= nextRun[t]

Listings(S) ==
  {q \in SetToSeqs(S) : \A i, j \in 1..Len(q) : i < j => EarlierRun(q[i], q[j])}

Fault ==
  /\ faults < MaxFaults
  /\ faults' = faults + 1

-----------------------------------------------------------------------------

Init ==
  /\ now = 0
  /\ faults = 0
  /\ lock = None
  /\ enabled = [s \in Searches |-> TRUE]
  /\ nextRun = [s \in Searches |-> None]
  /\ failures = [s \in Searches |-> 0]
  /\ rows = [s \in Searches |-> [k \in Ticks |-> NoRow]]
  /\ failAlert = [s \in Searches |-> FALSE]
  /\ breachAlert = [s \in Searches |-> FALSE]
  /\ pc = [w \in Workers |-> "idle"]
  /\ cycle = [w \in Workers |-> NoCycle]
  /\ job = [a \in Workers \cup Manuals |-> NoJob]
  /\ streak = [s \in Searches |-> 0]
  /\ dismissed = [s \in Searches |-> FALSE]
  /\ contended = [s \in Searches |-> FALSE]

Tick ==
  /\ now < MaxTime
  /\ now' = now + 1
  /\ UNCHANGED <<faults, lock, tableVars, pc, cycle, job, ghostVars>>

\* The API enables or disables a search; next_run_at is left alone.
Toggle(s) ==
  /\ enabled' = [enabled EXCEPT ![s] = ~@]
  /\ UNCHANGED <<now, faults, lock, nextRun, failures, rows, failAlert, breachAlert,
                 pc, cycle, job, ghostVars>>

\* An operator resolves the search-failure alert; the count is left alone.  (No
\* property is about the threshold alert, whose resolution is left out.)
ResolveAlert(s) ==
  /\ failAlert[s]
  /\ failAlert' = [failAlert EXCEPT ![s] = FALSE]
  /\ dismissed' = [dismissed EXCEPT ![s] = TRUE]
  /\ UNCHANGED <<now, faults, lock, enabled, nextRun, failures, rows, breachAlert,
                 pc, cycle, job, streak, contended>>

\* run_due_searches takes the advisory lock (or skips) and lists the enabled
\* searches; the cycle's `now` is read here and used to its end.
StartCycle(w) ==
  /\ pc[w] = "idle"
  /\ lock = None
  /\ lock' = w
  /\ pc' = [pc EXCEPT ![w] = "next"]
  /\ \E q \in Listings({s \in Searches : enabled[s]}) :
       cycle' = [cycle EXCEPT ![w] = [now |-> now, queue |-> q, sent |-> 0]]
  /\ UNCHANGED <<now, faults, tableVars, job, ghostVars>>

\* The unlock at the end of the task frees only a lock the worker still holds.
Unlocked(w) == IF lock = w THEN None ELSE lock

EndCycle(w) ==
  /\ pc[w] = "next"
  /\ cycle[w].queue = <<>> \/ cycle[w].sent >= MaxDispatch
  /\ pc' = [pc EXCEPT ![w] = "idle"]
  /\ cycle' = [cycle EXCEPT ![w] = NoCycle]
  /\ lock' = Unlocked(w)
  /\ UNCHANGED <<now, faults, tableVars, job, ghostVars>>

Claimable(s, t) ==
  /\ enabled[s]
  /\ s \notin BadCron
  /\ nextRun[s] # None
  /\ nextRun[s] <= t
  /\ ~InFlight(s, t)

\* MUTANT: the next run is computed from the tick that was missed.
RescheduledFromTick(s, t) == FireAfter(s, nextRun[s])

\* Missed ticks coalesce: the next run is computed from the cycle's `now`.
Rescheduled(s, t) == FireAfter(s, t)

\* MUTANT: the claim does not move next_run_at; the record would.
ClaimWithoutMove(w, s) ==
  LET tick == nextRun[s] IN
    /\ rows' = IF rows[s][tick].status = "none"
               THEN [rows EXCEPT ![s][tick] = [status |-> "PENDING", created |-> now,
                                               started |-> None, asOf |-> cycle[w].now]]
               ELSE rows
    /\ job' = [job EXCEPT ![w] = [NoJob EXCEPT !.search = s, !.tick = tick]]
    /\ pc' = [pc EXCEPT ![w] = "execute"]
    /\ UNCHANGED nextRun

\* The claim transaction of a due search: next_run_at moves and the PENDING row
\* appears together.  An existing row of the same run key is kept.
Claim(w, s) ==
  LET tick == nextRun[s] IN
    /\ nextRun' = [nextRun EXCEPT ![s] = Rescheduled(s, cycle[w].now)]
    /\ rows' = IF rows[s][tick].status = "none"
               THEN [rows EXCEPT ![s][tick] = [status |-> "PENDING", created |-> now,
                                               started |-> None, asOf |-> cycle[w].now]]
               ELSE rows
    /\ job' = [job EXCEPT ![w] = [NoJob EXCEPT !.search = s, !.tick = tick]]
    /\ pc' = [pc EXCEPT ![w] = "execute"]

\* A search seen for the first time gets its next fire and does not run.
Seed(s, t) ==
  /\ nextRun' = [nextRun EXCEPT ![s] = FireFrom(s, t)]
  /\ UNCHANGED <<rows, job, pc>>

\* The workers and manual requests on a run of s.
UnderWay(s) == {a \in Workers \cup Manuals : job[a].search = s}

\* _process takes the next candidate: claim it, seed it, or pass over it.
Process(w) ==
  /\ pc[w] = "next"
  /\ cycle[w].queue # <<>>
  /\ cycle[w].sent < MaxDispatch
  /\ LET s == Head(cycle[w].queue)
         seedable == enabled[s] /\ s \notin BadCron /\ nextRun[s] = None
         claimable == Claimable(s, cycle[w].now)
     IN  \/ claimable /\ Claim(w, s)
         \/ seedable /\ Seed(s, cycle[w].now)
         \/ ~claimable /\ ~seedable /\ UNCHANGED <<nextRun, rows, job, pc>>
  /\ LET s == Head(cycle[w].queue) IN
       contended' = [contended EXCEPT ![s] =
                       @ \/ (Claimable(s, cycle[w].now) /\ UnderWay(s) # {})]
  /\ cycle' = [cycle EXCEPT ![w].queue = Tail(@)]
  /\ UNCHANGED <<now, faults, lock, enabled, failures, failAlert, breachAlert,
                 streak, dismissed>>

\* The row of the next candidate is locked (an edit of the API, another cycle's
\* claim): FOR UPDATE SKIP LOCKED returns nothing and the cycle goes on.
SkipLocked(w) ==
  /\ pc[w] = "next"
  /\ cycle[w].queue # <<>>
  /\ cycle[w].sent < MaxDispatch
  /\ Fault
  /\ cycle' = [cycle EXCEPT ![w].queue = Tail(@)]
  /\ UNCHANGED <<now, lock, tableVars, pc, job, ghostVars>>

-----------------------------------------------------------------------------
(* SearchExecutor.execute, with committed progress for the scheduler.      *)

\* The outcomes known before a run starts: a run key that already completed is
\* answered with the result its row holds, and a provider that cannot execute
\* AQL fails the run at once (a retry never meets it: the provider is fixed).
KnownOutcomes(w) ==
  IF rows[job[w].search][job[w].tick].status = "COMPLETED" THEN Successes
  ELSE IF job[w].attempt = 0 THEN Outcomes \cap {"fatal"} ELSE {}

\* The run starts (or starts again): RUNNING is committed, started_at once.
Execute(w) ==
  /\ pc[w] = "execute"
  /\ LET s == job[w].search
         k == job[w].tick
     IN  \/ /\ pc' = [pc EXCEPT ![w] = "record"]
            /\ \E o \in KnownOutcomes(w) : job' = [job EXCEPT ![w].outcome = o]
            /\ UNCHANGED rows
         \/ /\ rows[s][k].status # "COMPLETED"
            /\ pc' = [pc EXCEPT ![w] = "running"]
            /\ rows' = [rows EXCEPT ![s][k].status = "RUNNING",
                                    ![s][k].started = IF @ = None THEN now ELSE @]
            /\ UNCHANGED job
  /\ UNCHANGED <<now, faults, lock, enabled, nextRun, failures, failAlert, breachAlert,
                 cycle, ghostVars>>

\* attempt < max_attempts, for the attempt that just failed after n retries.
AttemptsLeft(n) == n + 1 < MaxAttempts

\* _run_once came back.  A retryable failure with attempts left backs off and
\* runs again; anything else is the outcome, not yet committed.
Finish(w) ==
  /\ pc[w] = "running"
  /\ \E o \in Outcomes :
       IF o = "retryable" /\ AttemptsLeft(job[w].attempt)
       THEN /\ job' = [job EXCEPT ![w].attempt = @ + 1]
            /\ pc' = [pc EXCEPT ![w] = "execute"]
       ELSE /\ job' = [job EXCEPT ![w].outcome = o]
            /\ pc' = [pc EXCEPT ![w] = "record"]
  /\ UNCHANGED <<now, faults, lock, tableVars, cycle, ghostVars>>

-----------------------------------------------------------------------------
(* The record transaction and the alert conditions.                        *)

\* _evaluate_threshold: only a completed run gives a verdict, and a truncated
\* one that proves no breach gives none.
EvaluateThreshold(s, o) ==
  breachAlert' = [breachAlert EXCEPT ![s] =
                    CASE o = "breach" -> TRUE
                      [] o = "within" -> FALSE
                      [] OTHER -> @]

\* MUTANT: the failure alert opens one failed run early.
EvaluateFailureEarly(s, o, count) ==
  failAlert' = [failAlert EXCEPT ![s] =
                  IF o \in Successes THEN FALSE ELSE @ \/ count + 1 >= AlertAfter]

\* _evaluate_failure, with the consecutive_failures the caller's row shows.
EvaluateFailure(s, o, count) ==
  failAlert' = [failAlert EXCEPT ![s] =
                  IF o \in Successes THEN FALSE ELSE @ \/ count >= AlertAfter]

\* The ghosts of a recorded run: the streak stops counting at AlertAfter.
CountRun(s, o) ==
  /\ streak' = [streak EXCEPT ![s] = IF o \in Successes THEN 0
                                     ELSE IF @ < AlertAfter THEN @ + 1 ELSE @]
  /\ dismissed' = [dismissed EXCEPT ![s] = FALSE]

\* After a run: the next candidate, or the end of the cycle when Ariel refused
\* capacity (the rest is deferred to the next cycle).
NextCandidate(w) ==
  /\ pc' = [pc EXCEPT ![w] = "next"]
  /\ job' = [job EXCEPT ![w] = NoJob]
  /\ cycle' = [cycle EXCEPT ![w].sent = @ + 1,
                            ![w].queue = IF job[w].outcome = "capacity" THEN <<>> ELSE @]

\* _record reads the search again, without a lock on its row.
RecordReads(w) ==
  /\ pc[w] = "record"
  /\ pc' = [pc EXCEPT ![w] = "write"]
  /\ job' = [job EXCEPT ![w].seen = failures[job[w].search]]
  /\ UNCHANGED <<now, faults, lock, tableVars, cycle, ghostVars>>

\* The count as the row object holds it at the flush.
Counted(o, seen) == IF o \in Successes THEN 0 ELSE seen + 1

\* The rest of _record: the flush takes the row's lock and writes the columns
\* that changed (a 0 read as 0 is not written again), then the row's final
\* status and the alerts, one commit.  A count another cycle committed since
\* the read is overwritten.
Record(w) ==
  /\ pc[w] = "write"
  /\ LET s == job[w].search
         k == job[w].tick
         o == job[w].outcome
         count == Counted(o, job[w].seen)
     IN  /\ rows' = [rows EXCEPT ![s][k].status =
                       IF o \in Successes THEN "COMPLETED" ELSE "FAILED"]
         /\ failures' = [failures EXCEPT ![s] = IF count = job[w].seen THEN @ ELSE count]
         /\ EvaluateThreshold(s, o)
         /\ EvaluateFailure(s, o, count)
         /\ CountRun(s, o)
         /\ contended' = [contended EXCEPT ![s] =
                            @ /\ ~(/\ o \in Successes
                                  /\ UnderWay(s) = {w}
                                  /\ job[w].seen = failures[s])]
  /\ NextCandidate(w)
  /\ UNCHANGED <<now, faults, lock, enabled, nextRun>>

\* _record fails and is rolled back for this search only: the row stays RUNNING.
RecordFails(w) ==
  /\ pc[w] \in {"record", "write"}
  /\ Fault
  /\ NextCandidate(w)
  /\ UNCHANGED <<now, lock, tableVars, ghostVars>>

\* The worker dies, or the executor raises and the task ends: what is committed
\* stays, the lock connection closes.
Crash(w) ==
  /\ pc[w] # "idle"
  /\ Fault
  /\ pc' = [pc EXCEPT ![w] = "idle"]
  /\ cycle' = [cycle EXCEPT ![w] = NoCycle]
  /\ job' = [job EXCEPT ![w] = NoJob]
  /\ lock' = Unlocked(w)
  /\ UNCHANGED <<now, tableVars, ghostVars>>

\* PostgreSQL drops the lock's connection; the cycle does not notice.
LoseLock ==
  /\ lock # None
  /\ Fault
  /\ lock' = None
  /\ UNCHANGED <<now, tableVars, pc, cycle, job, ghostVars>>

-----------------------------------------------------------------------------
(* The manual run of the API: one transaction from the read of the search  *)
(* to the commit, so its execution row is visible to nobody while it runs. *)

ManualStart(m, s) ==
  /\ job[m] = NoJob
  /\ job' = [job EXCEPT ![m] = [NoJob EXCEPT !.search = s, !.seen = failures[s]]]
  /\ contended' = [contended EXCEPT ![s] = TRUE]
  /\ UNCHANGED <<now, faults, lock, tableVars, pc, cycle, streak, dismissed>>

\* The run ends and the alerts are evaluated against the search as it was read
\* before the run; consecutive_failures is not touched.
ManualEnd(m) ==
  /\ job[m] # NoJob
  /\ \E o \in Outcomes :
       LET s == job[m].search IN
         /\ EvaluateThreshold(s, o)
         /\ EvaluateFailure(s, o, job[m].seen)
         /\ CountRun(s, o)
  /\ job' = [job EXCEPT ![m] = NoJob]
  /\ UNCHANGED <<now, faults, lock, enabled, nextRun, failures, rows, pc, cycle, contended>>

-----------------------------------------------------------------------------

WorkerStep(w) ==
  EndCycle(w) \/ Process(w) \/ Execute(w) \/ Finish(w) \/ RecordReads(w) \/ Record(w)

Next ==
  \/ Tick
  \/ LoseLock
  \/ \E s \in Operated : Toggle(s) \/ ResolveAlert(s)
  \/ \E w \in Workers : StartCycle(w) \/ WorkerStep(w) \/ SkipLocked(w) \/ RecordFails(w) \/ Crash(w)
  \/ \E m \in Manuals : ManualEnd(m) \/ \E s \in Searches : ManualStart(m, s)

\* Time passes, beat sends run_due_searches every minute to some live worker,
\* and a worker that is not killed goes on: an attempt is bounded by its poll
\* timeout and its permit wait.  Faults and operators are never owed.
Fairness ==
  /\ WF_vars(Tick)
  /\ WF_vars(\E w \in Workers : StartCycle(w))
  /\ \A w \in Workers : WF_vars(WorkerStep(w))

Spec == Init /\ [][Next]_vars /\ Fairness

-----------------------------------------------------------------------------

Statuses == {"none", "PENDING", "RUNNING", "COMPLETED", "FAILED"}

Row == [status : Statuses, created : Ticks, started : Ticks \cup {None}, asOf : Ticks]

Cycle == [now : Ticks, queue : Seq(Searches), sent : 0..MaxDispatch]

Job ==
  [search : Searches \cup {None}, tick : Ticks, attempt : 0..(MaxAttempts - 1),
   outcome : Successes \cup Failures \cup {None}, seen : Nat]

TypeOK ==
  /\ now \in Ticks
  /\ faults \in 0..MaxFaults
  /\ lock \in Workers \cup {None}
  /\ enabled \in [Searches -> BOOLEAN]
  /\ nextRun \in [Searches -> Nat \cup {None}]
  /\ failures \in [Searches -> Nat]
  /\ rows \in [Searches -> [Ticks -> Row]]
  /\ failAlert \in [Searches -> BOOLEAN]
  /\ breachAlert \in [Searches -> BOOLEAN]
  /\ pc \in [Workers -> {"idle", "next", "execute", "running", "record", "write"}]
  /\ cycle \in [Workers -> Cycle]
  /\ job \in [Workers \cup Manuals -> Job]
  /\ streak \in [Searches -> 0..AlertAfter]
  /\ dismissed \in [Searches -> BOOLEAN]
  /\ contended \in [Searches -> BOOLEAN]

OnRun(w) == pc[w] \in {"execute", "running", "record", "write"}

\* Two cycles at once (the lock's connection was cut) still never run one tick
\* twice: the claim moved next_run_at and inserted the run key in one commit.
TickRunsOnce ==
  \A v, w \in Workers :
    v # w /\ OnRun(v) /\ OnRun(w) /\ job[v].search = job[w].search => job[v].tick # job[w].tick

\* Two scheduled runs of one search overlap only when one of them was claimed
\* at least twice its timeout ago and is presumed dead.
OverlapOnlyWhenStale ==
  \A v, w \in Workers :
    v # w /\ OnRun(v) /\ OnRun(w) /\ job[v].search = job[w].search
      => \E a \in {v, w} : rows[job[a].search][job[a].tick].created + 2 * Timeout <= now

\* Missed ticks coalesce: once a cycle has claimed a run, no tick up to that
\* cycle's `now` is ever run.
BacklogCoalesces ==
  \A s \in Searches : \A j, k \in Ticks :
    j < k /\ rows[s][j].status # "none" /\ rows[s][k].status # "none" => rows[s][j].asOf < k

\* From the first success recorded undisturbed until runs of the search next
\* meet, the failure alert is up while the last AlertAfter (or more) recorded
\* runs all failed and only then, unless an operator resolved it since.  Runs
\* that meet may lose a count or write an old one over a success's 0: what
\* that does to the alert is put right by the next undisturbed success.
FailureAlertMeansStreak ==
  \A s \in Searches : ~contended[s] =>
    /\ failAlert[s] => streak[s] >= AlertAfter
    /\ streak[s] >= AlertAfter => failAlert[s] \/ dismissed[s]

\* No search is silently retired: whatever dies with a row left PENDING or
\* RUNNING, the due tick of an enabled search is eventually claimed.  Only the
\* end of the bounded clock excuses it, while a row is younger than the
\* staleness window.
NoSearchRetired ==
  \A s \in Searches \ BadCron : \A t \in Ticks :
    nextRun[s] = t ~> \/ nextRun[s] # t
                      \/ ~enabled[s]
                      \/ now = MaxTime /\ \E k \in Ticks : rows[s][k].created > now - 2 * Timeout
                      \/ now = MaxTime /\ \E k \in Ticks : rows[s][k].started # None /\
                                                rows[s][k].started > now - 2 * Timeout

=============================================================================
