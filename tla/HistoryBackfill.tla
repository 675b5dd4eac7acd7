--------------------------- MODULE HistoryBackfill ---------------------------
(***************************************************************************)
(* The Phase A history reading of one console: after the live pass, a tick *)
(* of the metric collector may create, move or step the console's history  *)
(* scope (MetricCollector._history_phase), under the decision and the      *)
(* requests that administrators record meanwhile                           *)
(* (services/history_backfill.py).                                         *)
(*                                                                         *)
(* A tick takes its time, makes the live pass, reads the decision, the     *)
(* scope row and the monitored sources, searches for minutes, then writes  *)
(* rows and scope row in one savepoint of the collector's transaction: it  *)
(* is a TickStarts, a Begin and one of the other Tick actions, and a       *)
(* worker that dies in between leaves nothing.  Two history phases never   *)
(* overlap: the live pass flushes the watermark row first, and that row    *)
(* lock is held until the commit.                                          *)
(*                                                                         *)
(* Time stamps are kept as the orders the code compares: whether the last  *)
(* request is a stop, whether a start was requested after the last finish, *)
(* whether the stored progress is older than the reading, and the age of   *)
(* the reading in hours.                                                   *)
(***************************************************************************)
EXTENDS HistoryPlanner

CONSTANTS
  Sources,       \* log sources of the console
  Joining,       \* the sources that are not monitored at first
  Removable,     \* the sources whose monitoring an operator may switch off
  Holdings,      \* what QRadar may hold: functions from Sources to sets of buckets
  Starts,        \* where a first step may plan the read to start
  Margin,        \* floor margin in buckets: the window's T0 is its start + Margin
  Budget,        \* history_backfill_searches_per_tick
  Fits,          \* the row fits a step's density may give
  MaxHours,      \* history_backfill_max_hours
  RebuildBatch   \* history_backfill_baseline_sources_per_tick

ASSUME HistoryAssumption ==
  /\ IsFiniteSet(Sources) /\ Joining \subseteq Sources /\ Removable \subseteq Sources
  /\ Holdings \subseteq [Sources -> SUBSET Buckets]
  /\ Starts \subseteq Buckets
  /\ Margin \in Nat
  /\ Budget \in Nat \ {0}
  /\ Fits \subseteq 1..MaxSpan
  /\ MaxHours \in Nat
  /\ RebuildBatch \in Nat \ {0}

VARIABLES
  decision,   \* history_backfill_decision: answer, stopped, fresh
  switchOn,   \* history_backfill_enabled of the running workers
  live,       \* the console has a live bucket
  monitored,  \* the sources with monitoring enabled
  held,       \* what QRadar holds of each source before the anchor
  row,        \* the scope row
  age,        \* hours since the running reading started, up to one past MaxHours
  rows,       \* the history rows of log_source_metric, by source
  baseline,   \* the rows each source's baseline was last rebuilt from
  tick        \* what the running tick read when it began

vars == <<decision, switchOn, live, monitored, held, row, age, rows, baseline, tick>>

States == {"NOT_REQUESTED", "WAITING", "READING", "COMPLETE", "PARTIAL", "UNAVAILABLE"}
Answers == {"none", "NO", "YES"}
Modes == {"UNDECIDED", "NO", "ACTIVE", "STOPPED"}

\* The family's part of the progress: the first bucket of each source (End
\* while it has none), whether the reading is a top-up and of which sources,
\* and the sources whose baseline is still to be rebuilt.
Adapter == [floors : [Sources -> 0..End], top : BOOLEAN, asked : SUBSET Sources,
            pending : SUBSET Sources]

NewAdapter == [floors |-> [s \in Sources |-> End], top |-> FALSE, asked |-> {},
               pending |-> {}]

\* blank: progress = {}.  stale: the stored progress is the previous reading's.
Row == [state : States, anchored : BOOLEAN, blank : BOOLEAN, stale : BOOLEAN,
        plan : Progress, adapter : Adapter]

NoRow == [state |-> "NOT_REQUESTED", anchored |-> FALSE, blank |-> TRUE,
          stale |-> FALSE, plan |-> NewProgress(0), adapter |-> NewAdapter]

Idle == [clock |-> FALSE, busy |-> FALSE, mode |-> "UNDECIDED", fresh |-> FALSE,
         late |-> FALSE, overdue |-> FALSE, monitored |-> {}]

\* A kind of state correctness: every variable has its type.
TypeOK ==
  /\ decision \in [answer : Answers, stopped : BOOLEAN, fresh : BOOLEAN]
  /\ switchOn \in BOOLEAN
  /\ live \in BOOLEAN
  /\ monitored \subseteq Sources
  /\ held \in [Sources -> SUBSET Buckets]
  /\ row \in Row
  /\ age \in 0..(MaxHours + 1)
  /\ rows \in [Sources -> SUBSET Buckets]
  /\ baseline \in [Sources -> SUBSET Buckets]
  /\ tick \in [clock : BOOLEAN, busy : BOOLEAN, mode : Modes, fresh : BOOLEAN,
               late : BOOLEAN, overdue : BOOLEAN, monitored : SUBSET Sources]

Init ==
  /\ decision = [answer |-> "none", stopped |-> FALSE, fresh |-> FALSE]
  /\ switchOn = TRUE
  /\ live = FALSE
  /\ monitored = Sources \ Joining
  /\ held \in Holdings
  /\ row = NoRow
  /\ age = 0
  /\ rows = [s \in Sources |-> {}]
  /\ baseline = [s \in Sources |-> {}]
  /\ tick = Idle

-----------------------------------------------------------------------------
(* Administrators and the console.                                         *)

\* decide: the first answer is stored, a No may become a Yes, a Yes never a No.
Decide(answer) ==
  /\ decision.answer = "none" \/ (decision.answer = "NO" /\ answer = "YES")
  /\ decision' = [decision EXCEPT !.answer = answer]
  /\ UNCHANGED <<switchOn, live, monitored, held, row, age, rows, baseline, tick>>

\* request("start"): stamped later than any stop, so it is the last request;
\* it is newer than the time of a tick that runs.
RequestStart ==
  /\ decision.answer = "YES"
  /\ decision' = [decision EXCEPT !.stopped = FALSE, !.fresh = TRUE]
  /\ tick' = [tick EXCEPT !.late = tick.clock]
  /\ UNCHANGED <<switchOn, live, monitored, held, row, age, rows, baseline>>

\* request("stop").
RequestStop ==
  /\ decision.answer = "YES"
  /\ decision' = [decision EXCEPT !.stopped = TRUE]
  /\ UNCHANGED <<switchOn, live, monitored, held, row, age, rows, baseline, tick>>

\* The live pass of a tick stores the console's first live bucket.
LiveBucket ==
  /\ ~live /\ tick.clock /\ ~tick.busy
  /\ live' = TRUE
  /\ UNCHANGED <<decision, switchOn, monitored, held, row, age, rows, baseline, tick>>

\* An operator starts or ends the monitoring of a source.
SetMonitoring(s) ==
  /\ s \notin monitored \/ s \in Removable
  /\ monitored' = IF s \in monitored THEN monitored \ {s} ELSE monitored \cup {s}
  /\ UNCHANGED <<decision, switchOn, live, held, row, age, rows, baseline, tick>>

\* The kill switch is a setting: it changes when the workers are restarted, and
\* a tick that runs then is lost.
Redeploy ==
  /\ switchOn' = ~switchOn
  /\ tick' = Idle
  /\ UNCHANGED <<decision, live, monitored, held, row, age, rows, baseline>>

HourPasses ==
  /\ row.state = "READING" /\ age <= MaxHours
  /\ age' = age + 1
  /\ UNCHANGED <<decision, switchOn, live, monitored, held, row, rows, baseline, tick>>

-----------------------------------------------------------------------------
(* The lifecycle: what a tick does to the scope.                           *)

\* MUTANT: only the answer counts.
ConsoleModeYes(d) ==
  CASE d.answer = "none" -> "UNDECIDED"
    [] d.answer = "NO" -> "NO"
    [] d.answer = "YES" -> "ACTIVE"

ConsoleMode(d) ==
  CASE d.answer = "none" -> "UNDECIDED"
    [] d.answer = "NO" -> "NO"
    [] d.answer = "YES" -> IF d.stopped THEN "STOPPED" ELSE "ACTIVE"

\* MUTANT: the limit is compared one hour off, and never met.
ExpiredLate(hours) == hours > MaxHours + 1

\* plan_step: now - started_at > max_hours.
Expired(hours) == hours > MaxHours

\* collect: the tick's time is taken before the live pass.
TickStarts ==
  /\ ~tick.clock
  /\ tick' = [Idle EXCEPT !.clock = TRUE, !.overdue = Expired(age)]
  /\ UNCHANGED <<decision, switchOn, live, monitored, held, row, age, rows, baseline>>

\* _history_tick: after the live pass, the decision is read.
Begin ==
  /\ tick.clock /\ ~tick.busy
  /\ tick' = [tick EXCEPT !.busy = TRUE, !.mode = ConsoleMode(decision),
                          !.fresh = decision.fresh, !.monitored = monitored]
  /\ UNCHANGED <<decision, switchOn, live, monitored, held, row, age, rows, baseline>>

\* The trigger the tick applies, "STEP" for a reading step, or "none".
ScopeAction ==
  CASE tick.mode \in {"UNDECIDED", "NO"} -> "none"
    [] tick.mode \in {"ACTIVE", "STOPPED"} /\ ~switchOn ->
         IF row.state \in {"READING", "WAITING"} THEN "SWITCHED_OFF" ELSE "none"
    [] tick.mode = "STOPPED" /\ switchOn ->
         IF row.state \in {"READING", "WAITING"} THEN "STOPPED_BY_OPERATOR" ELSE "none"
    [] tick.mode = "ACTIVE" /\ switchOn ->
         IF row.state = "NOT_REQUESTED"
         THEN IF live THEN "REQUEST_READY" ELSE "REQUEST_AWAITING_ANCHOR"
         ELSE IF row.state = "WAITING" THEN IF live THEN "ANCHOR_FOUND" ELSE "none"
         ELSE IF row.state = "READING" THEN "STEP"
         ELSE IF tick.fresh THEN "RESTART" ELSE "none"

NextState(trigger) ==
  CASE trigger = "REQUEST_AWAITING_ANCHOR" -> "WAITING"
    [] trigger \in {"REQUEST_READY", "ANCHOR_FOUND", "RESTART"} -> "READING"
    [] trigger = "NOTHING_TO_READ" -> "UNAVAILABLE"
    [] trigger = "FINISHED_COMPLETE" -> "COMPLETE"
    [] trigger \in {"FINISHED_PARTIAL", "TOO_MANY_GAPS", "TIME_LIMIT", "SWITCHED_OFF",
                    "STOPPED_BY_OPERATOR"} -> "PARTIAL"

\* The sources whose baseline this tick rebuilds: a bounded batch of the
\* pending ones, once the reading is over.
Batches(v) ==
  IF switchOn /\ v.state \in {"COMPLETE", "PARTIAL"} /\ ~v.blank /\ ~v.stale
  THEN {b \in SUBSET v.adapter.pending :
          Cardinality(b) = Least(RebuildBatch, Cardinality(v.adapter.pending))}
  ELSE {{}}

\* The end of a tick: the rebuild, and the scope row v with the rows it read.
Store(v, found) ==
  /\ \E b \in Batches(v) :
       /\ row' = [v EXCEPT !.adapter.pending = @ \ b]
       /\ baseline' = [s \in Sources |-> IF s \in b THEN found[s] ELSE baseline[s]]
  /\ rows' = found
  /\ tick' = Idle
  /\ UNCHANGED <<switchOn, live, monitored, held>>

\* finished_at is the tick's time: only a start requested since is newer.
StoreFinished(v, found) ==
  /\ Store(v, found)
  /\ decision' = [decision EXCEPT !.fresh = tick.late]
  /\ age' = 0

TickNone ==
  /\ tick.busy /\ ScopeAction = "none"
  /\ Store(row, rows)
  /\ UNCHANGED <<decision, age>>

TickCreate ==
  /\ tick.busy /\ ScopeAction \in {"REQUEST_READY", "REQUEST_AWAITING_ANCHOR"}
  /\ Store([NoRow EXCEPT !.state = NextState(ScopeAction), !.anchored = live], rows)
  /\ age' = 0
  /\ UNCHANGED decision

\* MUTANT: a scope without an anchor of its own is not restarted.
TickStartAnchored ==
  /\ tick.busy /\ ScopeAction \in {"ANCHOR_FOUND", "RESTART"}
  /\ ScopeAction = "RESTART" => row.anchored
  /\ Store([row EXCEPT !.state = NextState(ScopeAction), !.anchored = TRUE,
                       !.stale = ~row.blank], rows)
  /\ age' = 0
  /\ UNCHANGED decision

\* A restart keeps the earlier reading's progress until its first step.
TickStart ==
  /\ tick.busy /\ ScopeAction \in {"ANCHOR_FOUND", "RESTART"}
  /\ Store([row EXCEPT !.state = NextState(ScopeAction), !.anchored = @ \/ live,
                       !.stale = ~row.blank], rows)
  /\ age' = 0
  /\ UNCHANGED decision

\* MUTANT: an interrupted reading lists nothing for a rebuild.
ReachedNone == {}

\* _with_pending: the sources an interrupted reading has reached.
Reached ==
  IF row.blank \/ row.stale THEN {} ELSE {s \in Sources : row.adapter.floors[s] # End}

\* The switch or an operator ends the reading; what it read is rebuilt too.
TickEnd ==
  /\ tick.busy /\ ScopeAction \in {"SWITCHED_OFF", "STOPPED_BY_OPERATOR"}
  /\ StoreFinished([row EXCEPT !.state = NextState(ScopeAction),
                               !.adapter.pending = @ \cup Reached], rows)

-----------------------------------------------------------------------------
(* One step of a reading scope.                                            *)

FirstStep == row.blank \/ row.stale

\* The first step plans a window, fitted anew.
StepPlans == IF FirstStep THEN {NewProgress(start) : start \in Starts} ELSE {row.plan}

\* A restart carries the floors and the pending rebuilds, and searches only the
\* sources without a floor.
StepAdapter ==
  IF row.blank THEN NewAdapter
  ELSE IF row.stale
  THEN [row.adapter EXCEPT !.top = TRUE,
                           !.asked = {s \in tick.monitored :
                                        row.adapter.floors[s] = End}]
  ELSE row.adapter

\* The monitored sources the step folds; an unfiltered search answers for all.
Searched(a) == IF a.top THEN tick.monitored \cap a.asked ELSE tick.monitored

\* SourceFloors.floor: a source's proved floor in the window that starts at `start`.
FloorOf(start, first) == Most(start, first) + Margin

\* A written step: the progress is this reading's.
Stepped(p, a) ==
  [row EXCEPT !.plan = p, !.adapter = a, !.blank = FALSE, !.stale = FALSE]

\* The family's verdict: no event of any monitored source, or a cut or silent
\* source, is not complete.
Finish(trigger, start, floors) ==
  IF trigger # "FINISHED_COMPLETE" THEN trigger
  ELSE IF \A s \in tick.monitored : floors[s] = End THEN "NOTHING_TO_READ"
  ELSE IF \E s \in tick.monitored :
            floors[s] = End \/ FloorOf(start, floors[s]) > start + Margin + 1
  THEN "FINISHED_PARTIAL" ELSE trigger

\* The scope row of a reading that ends.  `keys` are the sources whose baseline
\* the reading is to rebuild.
Finished(v, trigger, keys) ==
  [v EXCEPT !.state = NextState(Finish(trigger, v.plan.start, v.adapter.floors)),
            !.adapter.pending = @ \cup {s \in keys : v.adapter.floors[s] # End}]

RebuildKeys(a) == IF a.top THEN a.asked ELSE tick.monitored

Reading ==
  /\ tick.busy /\ ScopeAction = "STEP" /\ row.anchored
  /\ ~(FirstStep /\ tick.monitored = {})

\* _plan_window: no monitored source, or no window fits the settings and the
\* search budget.
TickRefused ==
  /\ tick.busy /\ ScopeAction = "STEP" /\ row.anchored /\ FirstStep
  /\ StoreFinished([row EXCEPT !.state = "UNAVAILABLE"], rows)

\* plan_step: the reading is older than its limit.
TickOverdue ==
  /\ Reading /\ tick.overdue
  /\ \E p \in StepPlans :
       StoreFinished(Finished(Stepped(p, StepAdapter), "TIME_LIMIT",
                              RebuildKeys(StepAdapter)), rows)

\* plan_step: the live pass left no search or no time.  Only a first step has
\* something to store.
TickWait ==
  /\ Reading /\ ~tick.overdue
  /\ \E p \in StepPlans :
       Store(IF FirstStep THEN Stepped(p, StepAdapter) ELSE row, rows)
  /\ UNCHANGED <<decision, age>>

\* A top-up whose sources all have a floor: there is nothing to search.
TickNothing ==
  /\ Reading /\ ~tick.overdue
  /\ StepAdapter.top /\ Searched(StepAdapter) = {}
  /\ \E p \in StepPlans :
       StoreFinished(Finished(Stepped(p, StepAdapter), "FINISHED_COMPLETE", {}), rows)

\* fold_step: the floors first, then every row at or after its source's floor.
FoldFloors(a, read) ==
  [s \in Sources |->
     IF s \in Searched(a) /\ \E b \in held[s] \cap read : b < a.floors[s]
     THEN CHOOSE b \in held[s] \cap read : \A c \in held[s] \cap read : b <= c
     ELSE a.floors[s]]

\* MUTANT: the zeroes and the rows before the floor are not told apart.
FoldRowsAll(a, start, read, floors) ==
  [s \in Sources |->
     IF s \in Searched(a) /\ floors[s] # End THEN rows[s] \cup read ELSE rows[s]]

\* MUTANT: no zero is written for a silent bucket.
FoldRowsMeasured(a, start, read, floors) ==
  [s \in Sources |->
     IF s \in Searched(a) /\ floors[s] # End
     THEN rows[s] \cup {b \in read \cap held[s] : b >= FloorOf(start, floors[s])}
     ELSE rows[s]]

FoldRows(a, start, read, floors) ==
  [s \in Sources |->
     IF s \in Searched(a) /\ floors[s] # End
     THEN rows[s] \cup {b \in read : b >= FloorOf(start, floors[s])}
     ELSE rows[s]]

\* The row fit of the step's density; 0 when every bucket it read was silent.
Densities(a, read) ==
  LET sampled == IF a.top THEN Searched(a) ELSE Sources
  IN  IF \E s \in sampled : held[s] \cap read # {} THEN Fits ELSE {0}

\* The chunks are searched left to right, then the step is settled and folded.
TickRead ==
  /\ Reading /\ ~tick.overdue
  /\ ~(StepAdapter.top /\ Searched(StepAdapter) = {})
  /\ \E p \in StepPlans, budget \in 1..Budget :
     \E r \in StepResults(p, budget) :
       LET a == StepAdapter
           read == p.next..(p.next + r.done - 1)
           floors == FoldFloors(a, read)
           found == FoldRows(a, p.start, read, floors)
       IN \E d \in Densities(a, read) :
            LET q == SettleStep(p, r, d)
                v == Stepped(q, [a EXCEPT !.floors = floors])
                end == SettleTrigger(p, r, q)
            IN  IF end = "none"
                THEN Store(v, found) /\ UNCHANGED <<decision, age>>
                ELSE StoreFinished(Finished(v, end, RebuildKeys(a)), found)

\* The tick changes nothing but the reason or the error class it leaves.
Leave ==
  /\ tick.clock
  /\ tick' = Idle
  /\ UNCHANGED <<decision, switchOn, live, monitored, held, row, age, rows, baseline>>

\* The permit was refused: the savepoint is rolled back, the scope keeps its step.
TickDeferred == Reading /\ ~tick.overdue /\ Leave

\* "a reading scope has an anchor": a scope that was stopped while it waited and
\* restarted before a live bucket has none, and every step of it raises.
TickUnanchored == tick.busy /\ ScopeAction = "STEP" /\ ~row.anchored /\ Leave

\* The lock is busy, the live pass fails, another exception rolls the savepoint
\* back, the worker dies, or the collector's transaction is rolled back.
TickFails == Leave

-----------------------------------------------------------------------------
TickCompletes ==
  \/ TickNone \/ TickCreate \/ TickStart \/ TickEnd
  \/ TickRefused \/ TickOverdue \/ TickWait \/ TickNothing \/ TickRead \/ TickDeferred
  \/ TickUnanchored

Next ==
  \/ \E answer \in {"NO", "YES"} : Decide(answer)
  \/ RequestStart \/ RequestStop \/ LiveBucket
  \/ \E s \in Sources : SetMonitoring(s)
  \/ Redeploy \/ HourPasses
  \/ TickStarts \/ Begin \/ TickCompletes \/ TickFails

\* The beat keeps sending ticks, and among ticks that start again and again one
\* gets through its live pass, and one through its history phase; time passes.
Fairness ==
  /\ WF_vars(TickStarts)
  /\ SF_vars(Begin)
  /\ SF_vars(TickCompletes)
  /\ WF_vars(HourPasses)

Spec == Init /\ [][Next]_vars
FairSpec == Spec /\ Fairness

-----------------------------------------------------------------------------
(* Safety.                                                                 *)

\* The sources the stored reading is for.
For == IF row.adapter.top THEN row.adapter.asked ELSE Sources

\* Every bucket from the read start to the frontier was read once or is a recorded gap,
\* across truncated, failed and unfinished steps, restarts and crashes
\* (settle_step: `through` moves only past whole, completed chunks).
ReadOrGap ==
  /\ TypeOK
  /\ row.plan.gaps \subseteq row.plan.start..(row.plan.next - 1)
  /\ row.plan.read + Cardinality(row.plan.gaps) = row.plan.next - row.plan.start

\* No row lies before its source's proved floor, and none belongs to a source
\* without one: a restart or a stop never loses the floor of stored rows
\* (fold_step, _previous_reading).
RowsAboveFloor ==
  \A s \in Sources : \A b \in rows[s] :
    row.adapter.floors[s] # End /\ b >= row.adapter.floors[s] + Margin

\* A reading leaves no hole behind its frontier: each source it is for has a row,
\* measured or zero, in every bucket from its floor to the frontier that is not a
\* gap (fold_step; a row is written in the step that passes its bucket or never).
WindowRead ==
  \A s \in For \ Removable :
    row.adapter.floors[s] # End =>
      {b \in 0..(row.plan.next - 1) : b >= FloorOf(row.plan.start, row.adapter.floors[s])}
        \ row.plan.gaps \subseteq rows[s]

\* Once a reading is over, every source with rows its baseline has not seen is
\* listed for a rebuild: no end (verdict, time limit, stop, switch) and no later
\* top-up forgets one (_finish_values, _with_pending, merge_pending).
RebuildOwed ==
  row.state \in {"COMPLETE", "PARTIAL", "UNAVAILABLE"} =>
    \A s \in Sources \ Removable :
      rows[s] \subseteq baseline[s] \/ s \in row.adapter.pending

-----------------------------------------------------------------------------
(* The reading implements the abstract one.                                *)

Phase ==
  CASE row.state \in {"NOT_REQUESTED", "WAITING"} -> "idle"
    [] row.state = "READING" -> IF FirstStep THEN "starting" ELSE "reading"
    [] row.state = "COMPLETE" -> "complete"
    [] row.state \in {"PARTIAL", "UNAVAILABLE"} -> "short"

Window == INSTANCE WindowReading WITH
  Readers <- Sources, Quitters <- Removable, Limit <- End,
  phase <- Phase, for <- IF row.blank THEN {} ELSE For,
  frontier <- row.plan.next, skipped <- row.plan.gaps, store <- rows

\* Every step of the collector is a step of the one-pass reading, or changes
\* nothing of it.
Implements == Window!Promise

-----------------------------------------------------------------------------
(* Liveness.                                                               *)

\* A reading that has its anchor ends, whatever the searches answer: a failing
\* bucket becomes a gap, and what neither reads nor fails meets the time limit.
ReadingEnds == (row.state = "READING" /\ row.anchored) ~> (row.state # "READING")

\* A stop that nobody takes back ends the reading or the waiting.
StopTakesEffect ==
  (decision.stopped /\ row.state \in {"READING", "WAITING"})
    ~> (~decision.stopped \/ row.state \notin {"READING", "WAITING"})

\* "Read history now" on a finished scope starts a reading, unless it is stopped
\* or switched off first, also when the request came while a tick was finishing it.
RestartServed ==
  (decision.fresh /\ row.state \in {"COMPLETE", "PARTIAL", "UNAVAILABLE"})
    ~> (row.state = "READING" \/ decision.stopped \/ ~switchOn)

=============================================================================
