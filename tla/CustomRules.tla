----------------------------- MODULE CustomRules -----------------------------
(***************************************************************************)
(* Custom threshold rules: the evaluate_custom_rules task                  *)
(* (workers/tasks.py), its engine and fold (custom_rules/engine.py,        *)
(* evaluate.py), the alert sink (custom_rules/alerts.py) and the operator's *)
(* edits (api/routes/custom_rules.py).                                     *)
(*                                                                         *)
(* One rule is followed.  Another rule of the same subject kind, on a      *)
(* subject that every collected bucket measures, is always enabled: it     *)
(* moves the kind's watermark when the rule itself may not be judged.      *)
(*                                                                         *)
(* A tick reads the rule with its breach, the watermark and the metric     *)
(* rows in three statements, folds in memory, and writes everything in one *)
(* transaction.  Its UPDATE of the rule row is its first write and every   *)
(* other writer of these tables takes that row first, so the writes of a   *)
(* tick are one step, at its commit.  No lock keeps two ticks apart.       *)
(***************************************************************************)
EXTENDS Integers, Sequences, FiniteSets, FiniteSetsExt

CONSTANTS
  Ticks,        \* evaluate_custom_rules tasks that may run at once
  LastBucket,   \* the last bucket that is followed
  Sustain,      \* sustain_buckets
  Recovery,     \* recovery_buckets
  Limit,        \* custom_rules_max_buckets_per_run
  MaxEvents,    \* bound: edits, restarts and ticks that die
  MaxOverlaps,  \* bound: ticks that start while another runs
  None,
  Gone          \* an active_breach_id that names no row

ASSUME RuleAssumption ==
  /\ LastBucket \in Nat /\ MaxEvents \in Nat /\ MaxOverlaps \in Nat
  /\ Sustain \in Nat \ {0} /\ Recovery \in Nat \ {0} /\ Limit \in Nat \ {0}
  /\ None # Gone /\ None \notin Nat /\ Gone \notin Nat

VARIABLES
  top,       \* the latest bucket of the kind that collection has stored
  rule,      \* the rule row with its subject's state, None once deleted
  breaches,  \* breaches[i]: the state of breach row i
  through,   \* the kind's evaluated_through, None before the first row
  alert,     \* whether the rule has an active alert
  settings,  \* what the workers were started with
  tick,      \* tick[t]: where a task is and what it has read
  hist,      \* ghost: the measured verdicts the rule was judged on, up to the
             \* first overlapping tick or lost breach
  dropped,   \* ghost: a tick carried the rule through two breaches
  overlaps,  \* ghost: ticks that started while another ran
  events     \* ghost: the events so far

vars == <<top, rule, breaches, through, alert, settings, tick, hist, dropped,
          overlaps, events>>

Ids == 1..(LastBucket + MaxOverlaps)   \* bound: breach rows ever inserted
Verdicts == {"breach", "under", "none"}
Live == {"OPEN", "RECOVERING"}
BreachStates == Live \cup {"RESOLVED"}

\* A breach as a tick carries it, None for the id of one that it opened.
Breaches == [id : Ids \cup {None}, state : BreachStates]

\* last_status, as far as a later tick looks at it.
Statuses == {"DISABLED", "SUBJECT_RETIRED", "other"}

Rules == [enabled : BOOLEAN, retired : BOOLEAN, breaching : Nat, under : Nat,
          last : 0..LastBucket, active : Ids \cup {None, Gone}, status : Statuses]

ASSUME NoRowAssumption == None \notin Breaches /\ None \notin Rules

NewRule == [enabled |-> TRUE, retired |-> FALSE, breaching |-> 0, under |-> 0,
            last |-> 0, active |-> None, status |-> "other"]

\* What a tick carries: its clock, the rule as read, the fold's memory (a
\* breach with id None is one this tick opened), the watermark as read, the
\* buckets next..end still to judge, and the measured verdicts so far.
NoFold == [breaching |-> 0, under |-> 0, breach |-> None, resolved |-> None, opens |-> FALSE]

NoTick == [pc |-> "idle", top |-> 0, rule |-> None, fold |-> NoFold, through |-> None,
           next |-> 1, end |-> 0, judged |-> FALSE, read |-> <<>>]

\* Every variable has its type; what a tick judges ends at a stored bucket, the
\* watermark may be past them, where the clock stood when it was seeded.
TypeOK ==
  /\ top \in 0..LastBucket
  /\ rule \in Rules \cup {None}
  /\ breaches \in [Ids -> BreachStates \cup {"unused"}]
  /\ through = None \/ through \in 0..LastBucket
  /\ alert \in BOOLEAN
  /\ settings \in [paging : BOOLEAN, collected : BOOLEAN]
  /\ \A t \in Ticks :
       /\ tick[t].pc \in {"idle", "watermark", "metrics", "write"}
       /\ tick[t].rule \in Rules \cup {None}
       /\ tick[t].fold.breach = None \/ tick[t].fold.breach.state \in Live
       /\ tick[t].fold.resolved = None \/ tick[t].fold.resolved.state = "RESOLVED"
       /\ tick[t].top \in 0..top /\ tick[t].end \in 0..top
  /\ hist \in Seq(Verdicts \ {"none"})
  /\ dropped \in BOOLEAN /\ overlaps \in 0..MaxOverlaps /\ events \in 0..MaxEvents

Init ==
  /\ top = 0
  /\ rule = NewRule
  /\ breaches = [i \in Ids |-> "unused"]
  /\ through = None
  /\ alert = FALSE
  /\ settings \in [paging : BOOLEAN, collected : {TRUE}]
  /\ tick = [t \in Ticks |-> NoTick]
  /\ hist = <<>>
  /\ dropped = FALSE /\ overlaps = 0 /\ events = 0

-----------------------------------------------------------------------------
(* The collector.                                                          *)

\* Collection stores the next bucket.  One that it leaves out is a hole, which
\* proves nothing once a later one is there.
Collect ==
  /\ top < LastBucket /\ settings.collected
  /\ top' = top + 1
  /\ UNCHANGED <<rule, breaches, through, alert, settings, tick, hist, dropped, overlaps,
                 events>>

-----------------------------------------------------------------------------
(* The fold of one rule.                                                   *)

\* A breaching bucket opens once sustained, and refreshes a live breach.
OnBreach(m) ==
  LET n == m.breaching + 1
      opens == m.breach # None \/ n >= Sustain
  IN  [m EXCEPT !.breaching = n, !.under = 0, !.opens = @ \/ opens,
                !.breach = IF ~opens THEN None
                           ELSE IF @ = None THEN [id |-> None, state |-> "OPEN"]
                           ELSE [@ EXCEPT !.state = "OPEN"]]

\* A bucket under the threshold; the Recovery-th in a row resolves.
OnUnder(m) ==
  LET n == m.under + 1
  IN  IF m.breach = None THEN [m EXCEPT !.breaching = 0, !.under = n]
      ELSE IF n >= Recovery
      THEN [m EXCEPT !.breaching = 0, !.under = 0, !.breach = None,
                     !.resolved = [m.breach EXCEPT !.state = "RESOLVED"]]
      ELSE [m EXCEPT !.breaching = 0, !.under = n, !.breach.state = "RECOVERING"]

\* MUTANT: a bucket that proves nothing counts as one under the threshold.
ConsumeUnmeasured(m, v) == IF v = "breach" THEN OnBreach(m) ELSE OnUnder(m)

\* A bucket that proves nothing pauses both counters.
Consume(m, v) ==
  CASE v = "breach" -> OnBreach(m)
    [] v = "under"  -> OnUnder(m)
    [] OTHER        -> m

\* _evaluable: the kind's family is collected and the rule may be judged.
Evaluable(r) == r # None /\ settings.collected /\ r.enabled /\ ~r.retired

\* The status of the fold's output.  A tick that judged nothing repeats the
\* previous one, unless the kind was silent for too long (collection_silence):
\* then it is STALE.
Statused(t) ==
  LET r == tick[t].rule
  IN  IF ~r.enabled THEN {"DISABLED"}
      ELSE IF r.retired THEN {"SUBJECT_RETIRED"}
      ELSE IF tick[t].judged \/ ~settings.collected THEN {"other"}
      ELSE IF tick[t].through # None /\ tick[t].end = 0 THEN {r.status, "other"}
      ELSE {r.status}

-----------------------------------------------------------------------------
(* The tick.                                                               *)

Idle(t) == tick[t].pc = "idle"

\* The fold's memory at its beginning; a pointer to no row is not a breach.
Memory ==
  IF rule = None THEN NoFold
  ELSE [NoFold EXCEPT !.breaching = rule.breaching, !.under = rule.under,
                      !.breach = IF rule.active \notin Ids THEN None
                                 ELSE [id |-> rule.active, state |-> breaches[rule.active]]]

\* Beat sends the task every minute; run() takes its clock, then loads every
\* rule with the breach its pointer names.
LoadRules(t) ==
  /\ Idle(t)
  /\ \A u \in Ticks : Idle(u) \/ overlaps < MaxOverlaps
  /\ overlaps' = IF \A u \in Ticks : Idle(u) THEN overlaps ELSE overlaps + 1
  /\ hist' = IF overlaps' > 0 THEN <<>> ELSE hist
  /\ tick' = [tick EXCEPT ![t] = [NoTick EXCEPT
        !.pc = "watermark", !.top = top, !.rule = rule, !.fold = Memory]]
  /\ UNCHANGED <<top, rule, breaches, through, alert, settings, dropped,
                 events>>

LoadWatermarks(t) ==
  /\ tick[t].pc = "watermark"
  /\ tick' = [tick EXCEPT ![t].pc = "metrics", ![t].through = through]
  /\ UNCHANGED <<top, rule, breaches, through, alert, settings, hist, dropped,
                 overlaps, events>>

\* latest_closed_bucket: the stored buckets that a tick takes end where its clock
\* stood when it began; what was stored meanwhile may be within or past that.
Closed(t) == tick[t].top..top

\* The bucket that the clock had closed when the tick began, which collection has
\* stored or will store later: where a kind without a watermark is seeded.
Seeds(t) == tick[t].top..LastBucket

\* walk_buckets: how many buckets the grid may have, from the watermark to the
\* last stored bucket, holes included.
WalkBuckets(t) ==
  {IF b <= tick[t].through THEN 0 ELSE Min({Limit, b - tick[t].through}) : b \in Closed(t)}

\* The plan of the kind: nothing without a collected family, a seed without a
\* watermark, else the grid.  Of a grid the rule is judged on the buckets after
\* its own last one.
LoadMetrics(t) ==
  /\ tick[t].pc = "metrics"
  /\ \E n \in IF tick[t].through = None \/ ~settings.collected THEN {0} ELSE WalkBuckets(t) :
       LET end == IF n = 0 THEN 0 ELSE tick[t].through + n
       IN  tick' = [tick EXCEPT ![t].pc = "write", ![t].end = end,
             ![t].next = IF n > 0 /\ Evaluable(tick[t].rule)
                         THEN Max({tick[t].through, tick[t].rule.last}) + 1 ELSE end + 1]
  /\ UNCHANGED <<top, rule, breaches, through, alert, settings, hist, dropped,
                 overlaps, events>>

Judging(t) == tick[t].pc = "write" /\ tick[t].next <= tick[t].end

\* The fold takes the next reading.  What a bucket proves is settled only here:
\* rows are stored again until they are complete, and a hole, an unmeasured
\* bucket and one inside the present maintenance window prove nothing.
Judge(t, v) ==
  /\ Judging(t)
  /\ tick' = [tick EXCEPT ![t].fold = Consume(@, v), ![t].next = @ + 1, ![t].judged = TRUE,
                          ![t].read = IF v = "none" \/ overlaps > 0 THEN @ ELSE Append(@, v)]
  /\ UNCHANGED <<top, rule, breaches, through, alert, settings, hist, dropped,
                 overlaps, events>>

Ends(t) == tick' = [tick EXCEPT ![t] = NoTick]

\* _persist saves one breach per rule: the last one resolved, else the live
\* one.
Record(m) == IF m.resolved # None THEN m.resolved ELSE m.breach

Inserts(m) == Record(m) # None /\ Record(m).id = None

Fresh == Min({i \in Ids : breaches[i] = "unused"})

RowOf(m) == IF Inserts(m) THEN Fresh ELSE Record(m).id

SaveBreach(m) ==
  IF Record(m) = None THEN breaches ELSE [breaches EXCEPT ![RowOf(m)] = Record(m).state]

\* MUTANT: the pointer waits for the breach to have a row.
PointerLate(m) == IF m.breach = None THEN None ELSE m.breach.id

\* The pointer names the breach that is live after the fold, saved or not.
Pointer(m) ==
  CASE m.breach = None                        -> None
    [] m.breach # None /\ m.resolved # None   -> Gone
    [] m.breach # None /\ m.resolved = None   -> RowOf(m)

\* uq_custom_rule_breach_active.
IndexAllows(table) == \A i, j \in Ids : table[i] \in Live /\ table[j] \in Live => i = j

\* MUTANT: a tick that did not judge the rule leaves the watermark.
WatermarkAfterJudged(t) ==
  IF settings.collected /\ tick[t].through = None THEN Seeds(t)
  ELSE {IF tick[t].judged THEN tick[t].end ELSE through}

\* The watermark this tick writes; the first one, the seed, is the last closed
\* bucket.
WatermarkAfter(t) ==
  IF settings.collected /\ tick[t].through = None THEN Seeds(t)
  ELSE {IF tick[t].end > 0 THEN tick[t].end ELSE through}

WatermarkConflict(t) == settings.collected /\ tick[t].through = None /\ through # None

\* extra_resolve_reason, MUTANT: a disabled rule keeps its page with its breach.
HaltsPageRecovered(status, m) == m.breach = None

\* extra_resolve_reason: a rule that cannot recover, or has, loses its page.
HaltsPage(status, m) == status \in {"DISABLED", "SUBJECT_RETIRED"} \/ m.breach = None

\* compile_batch and apply_bulk: opens and refreshes first, then one resolve.
AlertAfter(status, m) ==
  IF ~settings.paging THEN alert
  ELSE (alert \/ m.opens) /\ m.resolved = None /\ ~HaltsPage(status, m)

\* A tick whose statements fail leaves nothing.
Abort(t) ==
  /\ Ends(t)
  /\ UNCHANGED <<top, rule, breaches, through, alert, settings, hist, dropped,
                 overlaps, events>>

\* The tick's flush and commit, for a rule that is still there.
WriteRule(t) ==
  LET m == tick[t].fold
      r == tick[t].rule
  IN  \E status \in Statused(t) :
      /\ ~WatermarkConflict(t) /\ IndexAllows(SaveBreach(m))
      /\ rule' = [rule EXCEPT
           !.breaching = m.breaching, !.under = m.under, !.active = Pointer(m),
           !.last = IF tick[t].judged THEN tick[t].end ELSE r.last,
           !.status = status]
      /\ breaches' = SaveBreach(m)
      /\ alert' = AlertAfter(status, m)
      /\ dropped' = (dropped \/ (m.resolved # None /\ m.breach # None)
                             \/ (Inserts(m) /\ r.active \in Ids))
      /\ hist' = IF dropped' \/ overlaps > 0 THEN <<>> ELSE hist \o tick[t].read
      /\ through' \in WatermarkAfter(t)
      /\ Ends(t)
      /\ UNCHANGED <<top, settings, overlaps, events>>

\* A rule that was deleted since the tick read it: its UPDATE finds no row.
\* The driver reports that for a single row, not for a batch of them; an
\* insert of its breach is refused by the foreign key either way.
WriteDeleted(t) ==
  LET m == tick[t].fold
  IN  /\ ~WatermarkConflict(t) /\ ~Inserts(m)
      /\ \E status \in Statused(t) : alert' = AlertAfter(status, m)
      /\ through' \in WatermarkAfter(t)
      /\ Ends(t)
      /\ UNCHANGED <<top, rule, breaches, settings, hist, dropped, overlaps,
                     events>>

\* A tick that read no such rule resolves a page that is left of it
\* (_queue_deleted).
WriteOthers(t) ==
  /\ ~WatermarkConflict(t)
  /\ alert' = (alert /\ ~settings.paging)
  /\ through' \in WatermarkAfter(t)
  /\ Ends(t)
  /\ UNCHANGED <<top, rule, breaches, settings, hist, dropped, overlaps, events>>

Write(t) ==
  /\ tick[t].pc = "write" /\ ~Judging(t)
  /\ \/ tick[t].rule # None /\ rule # None /\ WriteRule(t)
     \/ tick[t].rule # None /\ rule = None /\ (WriteDeleted(t) \/ Abort(t))
     \/ tick[t].rule = None /\ WriteOthers(t)
     \/ WatermarkConflict(t) /\ Abort(t)
     \/ /\ tick[t].rule # None /\ rule # None
        /\ ~IndexAllows(SaveBreach(tick[t].fold))
        /\ Abort(t)

-----------------------------------------------------------------------------
(* Operators, administrators and faults.                                   *)

Happens ==
  /\ events < MaxEvents
  /\ events' = events + 1

\* PATCH enables or disables; it leaves the counters and the breach alone.
UpdateRule ==
  /\ Happens /\ rule # None
  /\ rule' = [rule EXCEPT !.enabled = ~@]
  /\ UNCHANGED <<top, breaches, through, alert, settings, tick, hist, dropped,
                 overlaps>>

\* DELETE resolves the page, then deletes the rule and, by cascade, its
\* breaches.
DeleteRule ==
  /\ Happens /\ rule # None
  /\ rule' = None
  /\ breaches' = [i \in Ids |-> "unused"]
  /\ alert' = FALSE
  /\ UNCHANGED <<top, through, settings, tick, hist, dropped, overlaps>>

\* The subject's row is deleted: the cascade takes the rule, not its page.
DeleteSubject ==
  /\ Happens /\ rule # None
  /\ rule' = None
  /\ breaches' = [i \in Ids |-> "unused"]
  /\ UNCHANGED <<top, through, alert, settings, tick, hist, dropped, overlaps>>

\* The subject is retired, or comes back.
RetireSubject ==
  /\ Happens /\ rule # None
  /\ rule' = [rule EXCEPT !.retired = ~@]
  /\ UNCHANGED <<top, breaches, through, alert, settings, tick, hist, dropped,
                 overlaps>>

\* An operator resolves the page.
ResolveAlert ==
  /\ Happens /\ alert
  /\ alert' = FALSE
  /\ UNCHANGED <<top, rule, breaches, through, settings, tick, hist, dropped,
                 overlaps>>

\* The workers are started again with other settings.
Restart(s) ==
  /\ Happens /\ s # settings
  /\ settings' = s
  /\ tick' = [t \in Ticks |-> NoTick]
  /\ UNCHANGED <<top, rule, breaches, through, alert, hist, dropped, overlaps>>

\* A tick dies before its commit.
Die(t) ==
  /\ Happens /\ ~Idle(t)
  /\ Ends(t)
  /\ UNCHANGED <<top, rule, breaches, through, alert, settings, hist, dropped,
                 overlaps>>

Works(t) == LoadRules(t) \/ LoadWatermarks(t) \/ LoadMetrics(t) \/ Write(t)

\* The fold is pure: nothing of it is seen before its end, so no other step is
\* taken in between.
Next ==
  \/ \E t \in Ticks, v \in Verdicts : Judge(t, v)
  \/ /\ \A t \in Ticks : ~Judging(t)
     /\ \/ Collect
        \/ \E t \in Ticks : Works(t) \/ Die(t)
        \/ UpdateRule \/ DeleteRule \/ DeleteSubject \/ RetireSubject \/ ResolveAlert
        \/ \E s \in [paging : BOOLEAN, collected : BOOLEAN] : Restart(s)

\* Beat sends a task every minute, and one that does not die goes on.
Fairness == WF_vars(\E t \in Ticks : Works(t) \/ \E v \in Verdicts : Judge(t, v))

Spec == Init /\ [][Next]_vars /\ Fairness

-----------------------------------------------------------------------------

\* The n verdicts of the history up to place i are all v.
RunOf(v, n, i) == i >= n /\ \A j \in (i - n + 1)..i : hist[j] = v

\* What the verdicts say: a breach is live when one was sustained and no
\* recovery came after it.
ShouldBeLive ==
  \E i \in 1..Len(hist) :
     /\ RunOf("breach", Sustain, i)
     /\ \A j \in (i + 1)..Len(hist) : ~RunOf("under", Recovery, j)

IsLive == rule.active \in Ids /\ breaches[rule.active] \in Live

Unmixed == rule # None /\ ~dropped /\ overlaps = 0

\* The stored breach is live exactly when the verdicts judged so far say so,
\* over ticks cut at the limit, unmeasured and missing buckets, silent
\* collection, disabled and retired stretches, restarts and dead ticks; it is
\* recovering exactly when the last verdict was under.  Ticks that overlap and
\* ticks that go through two breaches are excepted (fold_rule, _persist).
StateIsReplay ==
  /\ TypeOK
  /\ Unmixed =>
       /\ IsLive <=> ShouldBeLive
       /\ ShouldBeLive =>
            (breaches[rule.active] = "RECOVERING" <=> hist[Len(hist)] = "under")
       /\ \A i \in Ids : breaches[i] \in Live => rule.active = i

\* A tick pages only for a breach that is live when it commits, or for a rule
\* that was deleted under it, overlapping ticks included (compile_batch,
\* apply_bulk).
PagedIsLive == [][~alert /\ alert' => rule' = None \/ IsLive']_vars

Orphaned == \E i \in Ids : breaches[i] \in Live /\ (rule = None \/ rule.active # i)

MayPage == rule # None /\ rule.enabled /\ ~rule.retired /\ rule.active # None

\* With paging on, the page of a rule that is deleted, disabled, retired or
\* without a breach is closed in the end, whatever the ticks in flight had
\* read; only a live breach row that the rule does not name stops it
\* (extra_resolve_reason, _queue_deleted).
PageEnds == []<>(~alert \/ ~settings.paging \/ MayPage \/ Orphaned)

\* The watermark reaches every collected bucket while the family is
\* collected; only such an orphaned breach row stops it (walk_buckets, run).
CatchesUp == []<>((through # None /\ through >= top) \/ ~settings.collected \/ Orphaned)

\* "The rule's one live breach": the pointer names the live row, if any.
OneLiveBreach ==
  rule # None => /\ \A i \in Ids : breaches[i] \in Live => rule.active = i
                 /\ rule.active \in Ids => breaches[rule.active] \in Live
                 /\ rule.active # Gone

=============================================================================
