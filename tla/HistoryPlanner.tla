--------------------------- MODULE HistoryPlanner ---------------------------
(***************************************************************************)
(* The pure planner of a history reading (backend/app/history/planner.py)  *)
(* as the Phase A family uses it: how wide the next searches are, and what *)
(* a step's results do to the progress.  Time is counted in buckets from   *)
(* the earliest start a read may have, and the anchor is End; the family's *)
(* minimum width is one bucket.                                            *)
(*                                                                         *)
(* A progress is the planner's part of ScopeProgress:                      *)
(*   start     where the read starts (`floor`, which is T0 less the margin) *)
(*   next      the first bucket still to read (one past `through`)         *)
(*   width     chunk_buckets, 0 while no width was ever sized              *)
(*   ceiling   chunk_ceiling, 0 while there is none                        *)
(*   clean     ceiling_successes                                           *)
(*   failures  consecutive failures at the minimum width                   *)
(*   read      buckets_read                                                *)
(*   gaps      the buckets recorded as unreadable                          *)
(***************************************************************************)
EXTENDS Integers, FiniteSets

CONSTANTS
  End,           \* the anchor: the first live bucket
  MaxSpan,       \* max_span_buckets: no search covers more
  InitialWidth,  \* initial_chunk_buckets, before a density was observed
  MaxFailures,   \* history_backfill_max_failures
  MaxGaps,       \* max_gaps
  ReleaseSteps   \* CEILING_RELEASE_STEPS

ASSUME PlannerAssumption ==
  /\ End \in Nat \ {0}
  /\ MaxSpan \in Nat \ {0}
  /\ InitialWidth \in 1..MaxSpan
  /\ MaxFailures \in Nat \ {0}
  /\ MaxGaps \in Nat \ {0}
  /\ ReleaseSteps \in Nat \ {0}

Least(a, b) == IF a <= b THEN a ELSE b
Most(a, b) == IF a >= b THEN a ELSE b

Buckets == 0..(End - 1)
Widths == 0..MaxSpan

Progress == [start : Buckets, next : 0..End, width : Widths, ceiling : Nat,
             clean : Nat, failures : Nat, read : Nat, gaps : SUBSET Buckets]

NewProgress(start) ==
  [start |-> start, next |-> start, width |-> 0, ceiling |-> 0, clean |-> 0,
   failures |-> 0, read |-> 0, gaps |-> {}]

-----------------------------------------------------------------------------
(* Planning a step.                                                        *)

\* W: the stored width under the failure ceiling, between one bucket and a
\* week of them.
ChunkWidth(p) ==
  LET stored == IF p.width = 0 THEN InitialWidth ELSE p.width
      capped == IF p.ceiling = 0 THEN stored ELSE Least(stored, p.ceiling)
  IN  Most(1, Least(capped, MaxSpan))

\* The buckets one step asks for, cut in chunks of W.
StepSpan(p, budget) ==
  Least(Least(End - p.next, MaxSpan), ChunkWidth(p) * budget)

\* The pieces <<offset, length>> a search of n buckets can be halved into when
\* its answer is truncated, left half first (itself included).
Pieces[n \in 1..MaxSpan] ==
  {<<0, n>>} \cup
  (IF n = 1 THEN {}
   ELSE Pieces[n \div 2] \cup {<<x[1] + n \div 2, x[2]>> : x \in Pieces[n - n \div 2]})

\* What the searches of a step can give the planner: a completed prefix of
\* `done` buckets, then nothing more (every chunk that was searched is whole),
\* a failed piece of `size` buckets, or buckets the budget or the clock did not
\* reach.
StepResults(p, budget) ==
  LET W == ChunkWidth(p)
      span == StepSpan(p, budget)
      whole == {k \in 1..span : k = span \/ k % W = 0}
      chunk(k) == Least(W, span - (k \div W) * W)
  IN  {[done |-> k, status |-> "COMPLETE", size |-> 0] : k \in whole}
      \cup {[done |-> k, status |-> "NOT_RUN", size |-> 0] : k \in 0..(span - 1)}
      \cup {r \in [done : 0..(span - 1), status : {"FAILED"}, size : 1..MaxSpan] :
              /\ r.done + r.size <= span
              /\ <<r.done % W, r.size>> \in Pieces[chunk(r.done)]}

-----------------------------------------------------------------------------
(* Settling a step.                                                        *)

\* The width after a step that read what it could.  `density` is the row fit of
\* the step's own density, 0 when it held no non-silent bucket.
WidthAfterStep(p, current, density) ==
  LET fit == IF density = 0 THEN InitialWidth ELSE density
      target == IF density = 0 THEN 2 * current
                ELSE IF p.width = 0 THEN fit ELSE Least(fit, 2 * current)
      due == p.ceiling # 0 /\ p.clean + 1 >= ReleaseSteps
      released == due /\ 2 * p.ceiling >= fit
      ceiling == IF released THEN 0 ELSE IF due THEN 2 * p.ceiling ELSE p.ceiling
      clean == IF due THEN 0 ELSE IF p.ceiling = 0 THEN p.clean ELSE p.clean + 1
      width == IF released THEN Least(fit, 2 * current)
               ELSE IF ceiling = 0 THEN target ELSE Least(target, ceiling)
  IN  [p EXCEPT !.ceiling = ceiling, !.clean = clean,
                !.width = Most(1, Least(width, MaxSpan))]

\* A failed search of one bucket that is out of tries, with no room for a gap.
OutOfGaps(p, r) ==
  /\ r.status = "FAILED" /\ r.size = 1
  /\ p.failures + 1 >= MaxFailures
  /\ Cardinality(p.gaps) >= MaxGaps

\* A failed search of one bucket that is out of tries and becomes a gap.
BecomesGap(p, r) ==
  /\ r.status = "FAILED" /\ r.size = 1
  /\ p.failures + 1 >= MaxFailures
  /\ Cardinality(p.gaps) < MaxGaps

\* MUTANT: the whole failed span counts as passed.
PassedFailed(r) == r.done + r.size

\* The buckets a step moves `through` past: its completed prefix.
Passed(r) == r.done

\* The next bucket moves past the completed prefix only, or past a gap.
SettleStep(p, r, density) ==
  LET moved == [p EXCEPT !.next = @ + Passed(r), !.read = @ + r.done]
      narrow == Most(1, r.size \div 2)
      halved == [moved EXCEPT !.width = narrow, !.ceiling = narrow, !.clean = 0]
  IN  CASE r.status = "COMPLETE" ->
             WidthAfterStep([moved EXCEPT !.failures = 0], ChunkWidth(p), density)
        [] r.status = "NOT_RUN" ->
             IF r.done > 0 THEN WidthAfterStep(moved, ChunkWidth(p), density) ELSE moved
        [] r.status = "FAILED" ->
             IF r.size > 1 THEN halved
             ELSE IF BecomesGap(p, r)
             THEN [halved EXCEPT !.failures = 0, !.gaps = @ \cup {moved.next},
                                 !.next = @ + 1]
             ELSE [halved EXCEPT !.failures = @ + 1]

\* MUTANT: the gaps are forgotten.
FinishVerdictBlind(p) == "FINISHED_COMPLETE"

\* The verdict of a reading that reached the anchor.  The family sets the
\* planner's floor to the read start, so the planner never calls it cut.
FinishVerdict(p) == IF p.gaps = {} THEN "FINISHED_COMPLETE" ELSE "FINISHED_PARTIAL"

\* What the settled step ends the reading with, or "none".  The density gate
\* counts lower-bound buckets, and a Phase A search never yields one.
SettleTrigger(p, r, q) ==
  IF OutOfGaps(p, r) THEN "TOO_MANY_GAPS"
  ELSE IF q.next >= End THEN FinishVerdict(q) ELSE "none"

=============================================================================
