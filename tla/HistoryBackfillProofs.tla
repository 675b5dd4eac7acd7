------------------------ MODULE HistoryBackfillProofs ------------------------
(***************************************************************************)
(* HistoryBackfill and its planner: the types, the four safety invariants, *)
(* and that the collector implements the one-pass reading of               *)
(* WindowReading.                                                          *)
(*                                                                         *)
(* The argument: every step of the system either keeps the progress, the   *)
(* floors and the rows (Kept), or is one step of a reading, which moves    *)
(* the frontier past the buckets it read and at most one gap (StepDone).   *)
(* What the invariants need on top: a scope without progress has no rows   *)
(* (Fresh), the floor of a source a reading is for lies behind the         *)
(* frontier (FloorsBehind), a source with a floor is still searched unless *)
(* an operator may switch it off (StillMonitored), and while a reading     *)
(* runs, what is not listed for a rebuild will be when it ends (Owed).     *)
(***************************************************************************)
EXTENDS HistoryBackfill, FiniteSetTheorems, WellFoundedInduction, TLAPS

\* A scope without progress is new, and nothing was read for it.
Fresh ==
  /\ row.state = "NOT_REQUESTED" => row.blank
  /\ row.blank => /\ row.plan = NewProgress(0) /\ row.adapter = NewAdapter
                  /\ ~row.stale
                  /\ \A s \in Sources : rows[s] = {}

\* Every bucket behind the frontier was read or is a gap: ReadOrGap less the types.
Frontier ==
  /\ row.plan.gaps \subseteq row.plan.start..(row.plan.next - 1)
  /\ row.plan.read + Cardinality(row.plan.gaps) = row.plan.next - row.plan.start

\* The floors a reading has found lie behind its frontier.
FloorsBehind ==
  \A s \in For : row.adapter.floors[s] # End => row.adapter.floors[s] < row.plan.next

\* A source that was searched, or is to be, is monitored unless it may be removed.
StillMonitored ==
  \A s \in Sources \ Removable :
    /\ row.adapter.floors[s] # End \/ s \in row.adapter.asked =>
         s \in monitored /\ (tick.busy => s \in tick.monitored)
    /\ tick.busy /\ s \in tick.monitored => s \in monitored

\* A reading that has stepped, and a source it is for that it has reached.
Reaching(s) ==
  /\ row.state = "READING" /\ ~FirstStep
  /\ s \in For /\ row.adapter.floors[s] # End

\* A row the baseline has not seen is listed for a rebuild, or will be when the
\* reading ends.
Owed ==
  \A s \in Sources \ Removable :
    rows[s] \subseteq baseline[s] \/ s \in row.adapter.pending \/ Reaching(s)

\* The inductive invariant.
IInv ==
  /\ TypeOK /\ Fresh /\ Frontier /\ FloorsBehind /\ RowsAboveFloor /\ StillMonitored
  /\ WindowRead /\ Owed

-----------------------------------------------------------------------------
(* The planner.                                                            *)

\* The width of a search is at least one bucket and at most MaxSpan.
LEMMA ChunkWidthBounds ==
  ASSUME NEW p \in Progress
  PROVE  ChunkWidth(p) \in 1..MaxSpan
BY PlannerAssumption DEF ChunkWidth, Progress, Widths, Least, Most

\* A step never asks for a bucket past the anchor.
LEMMA StepSpanBound ==
  ASSUME NEW p \in Progress, NEW budget \in 1..Budget
  PROVE  StepSpan(p, budget) \in Int /\ StepSpan(p, budget) <= End - p.next
<1>1. ChunkWidth(p) * budget \in Int
  BY ChunkWidthBounds, PlannerAssumption, HistoryAssumption
<1>2. End - p.next \in Int /\ MaxSpan \in Int
  BY PlannerAssumption DEF Progress
<1> QED BY <1>1, <1>2 DEF StepSpan, Least

\* What the planner is told of a step: the prefix ends before the anchor, and
\* leaves room for the piece that failed.
LEMMA StepResultBounds ==
  ASSUME NEW p \in Progress, NEW budget \in 1..Budget,
         NEW r \in StepResults(p, budget)
  PROVE  /\ r.done \in Nat /\ p.next + r.done <= End
         /\ r.status \in {"COMPLETE", "NOT_RUN", "FAILED"}
         /\ r.size \in Nat
         /\ r.status = "FAILED" => r.size >= 1 /\ p.next + r.done < End
<1> DEFINE span == StepSpan(p, budget)
<1>1. span \in Int /\ span <= End - p.next /\ End \in Int /\ p.next \in Int
  BY StepSpanBound, PlannerAssumption DEF Progress
<1> HIDE DEF span
<1>2. \/ \E k \in 1..span : r = [done |-> k, status |-> "COMPLETE", size |-> 0]
      \/ \E k \in 0..(span - 1) : r = [done |-> k, status |-> "NOT_RUN", size |-> 0]
      \/ r \in [done : 0..(span - 1), status : {"FAILED"}, size : 1..MaxSpan]
  BY DEF StepResults, span
<1> QED BY <1>1, <1>2, PlannerAssumption

\* Sizing the next search changes nothing but the width and its ceiling.
LEMMA WidthAfterStepKeeps ==
  ASSUME NEW p \in Progress, NEW current \in 1..MaxSpan, NEW density \in 0..MaxSpan
  PROVE  LET q == WidthAfterStep(p, current, density)
         IN  /\ q \in Progress
             /\ q.next = p.next /\ q.read = p.read /\ q.gaps = p.gaps
             /\ q.start = p.start
<1> DEFINE fit == IF density = 0 THEN InitialWidth ELSE density
           target == IF density = 0 THEN 2 * current
                     ELSE IF p.width = 0 THEN fit ELSE Least(fit, 2 * current)
           due == p.ceiling # 0 /\ p.clean + 1 >= ReleaseSteps
           released == due /\ 2 * p.ceiling >= fit
           ceiling == IF released THEN 0 ELSE IF due THEN 2 * p.ceiling ELSE p.ceiling
           clean == IF due THEN 0 ELSE IF p.ceiling = 0 THEN p.clean ELSE p.clean + 1
           width == IF released THEN Least(fit, 2 * current)
                    ELSE IF ceiling = 0 THEN target ELSE Least(target, ceiling)
<1>1. fit \in 1..MaxSpan
  BY PlannerAssumption
<1>2. target \in Nat
  BY <1>1, PlannerAssumption DEF Least
<1>3. p.ceiling \in Nat /\ p.clean \in Nat
  BY DEF Progress
<1>4. ceiling \in Nat /\ clean \in Nat
  BY <1>3
<1>5. width \in Nat
  BY <1>1, <1>2, <1>4, PlannerAssumption DEF Least
<1>6. WidthAfterStep(p, current, density) =
        [p EXCEPT !.ceiling = ceiling, !.clean = clean,
                  !.width = Most(1, Least(width, MaxSpan))]
  BY DEF WidthAfterStep
<1> HIDE DEF fit, target, due, released, ceiling, clean, width
<1>7. Most(1, Least(width, MaxSpan)) \in Widths
  BY <1>5, PlannerAssumption DEF Most, Least, Widths
<1> QED BY <1>4, <1>6, <1>7 DEF Progress

\* A settled step moves past its completed prefix, all of it read, or past that
\* and one bucket more, which becomes a gap.
LEMMA SettleStepMoves ==
  ASSUME NEW p \in Progress, NEW budget \in 1..Budget,
         NEW r \in StepResults(p, budget), NEW density \in 0..MaxSpan
  PROVE  LET q == SettleStep(p, r, density)
             edge == p.next + r.done
         IN  /\ q \in Progress
             /\ q.start = p.start
             /\ q.read = p.read + r.done
             /\ \/ q.next = edge /\ q.gaps = p.gaps
                \/ edge < End /\ q.next = edge + 1 /\ q.gaps = p.gaps \cup {edge}
<1> DEFINE moved == [p EXCEPT !.next = @ + Passed(r), !.read = @ + r.done]
           narrow == Most(1, r.size \div 2)
           halved == [moved EXCEPT !.width = narrow, !.ceiling = narrow, !.clean = 0]
           edge == p.next + r.done
<1>1. /\ r.done \in Nat /\ edge <= End /\ r.size \in Nat /\ p.next \in Nat
      /\ r.status \in {"COMPLETE", "NOT_RUN", "FAILED"}
      /\ r.status = "FAILED" => r.size >= 1 /\ edge < End
  BY StepResultBounds DEF Progress
<1>2. moved \in Progress /\ moved.next = edge /\ moved.read = p.read + r.done
        /\ moved.gaps = p.gaps /\ moved.failures = p.failures /\ moved.start = p.start
  <2>1. moved = [p EXCEPT !.next = edge, !.read = p.read + r.done]
    BY DEF Progress, Passed
  <2>2. edge \in 0..End /\ p.read + r.done \in Nat
    BY <1>1, PlannerAssumption DEF Progress
  <2> HIDE DEF moved, edge
  <2> QED BY <2>1, <2>2 DEF Progress
<1>3. ChunkWidth(p) \in 1..MaxSpan
  BY ChunkWidthBounds
<1>4. CASE r.status = "COMPLETE"
  <2> DEFINE m == [moved EXCEPT !.failures = 0]
  <2>1. /\ m \in Progress /\ m.next = edge /\ m.read = p.read + r.done
        /\ m.gaps = p.gaps /\ m.start = p.start
    BY <1>2 DEF Progress
  <2>2. SettleStep(p, r, density) = WidthAfterStep(m, ChunkWidth(p), density)
    BY <1>4 DEF SettleStep
  <2> HIDE DEF moved, m
  <2> QED BY <1>3, <2>1, <2>2, WidthAfterStepKeeps
<1>5. CASE r.status = "NOT_RUN"
  <2>1. SettleStep(p, r, density) =
          IF r.done > 0 THEN WidthAfterStep(moved, ChunkWidth(p), density) ELSE moved
    BY <1>5 DEF SettleStep
  <2> HIDE DEF moved
  <2> QED BY <1>2, <1>3, <2>1, WidthAfterStepKeeps
<1>6. CASE r.status = "FAILED"
  <2>1. SettleStep(p, r, density) =
          IF r.size > 1 THEN halved
          ELSE IF BecomesGap(p, r)
          THEN [halved EXCEPT !.failures = 0, !.gaps = @ \cup {moved.next}, !.next = @ + 1]
          ELSE [halved EXCEPT !.failures = @ + 1]
    BY <1>6 DEF SettleStep
  <2>2. narrow \in Nat /\ narrow \in Widths
    <3>1. r.size \in 1..MaxSpan
      BY <1>6 DEF StepResults
    <3> QED BY <3>1, PlannerAssumption DEF Most, Widths
  <2>3. halved \in Progress /\ halved.next = edge /\ halved.read = p.read + r.done
          /\ halved.gaps = p.gaps /\ halved.start = p.start
    BY <1>2, <2>2 DEF Progress
  <2>4. edge \in Buckets /\ edge + 1 \in 0..End
    BY <1>1, <1>6, PlannerAssumption DEF Buckets
  <2> HIDE DEF moved, halved, narrow, edge
  <2>5. [halved EXCEPT !.failures = @ + 1] \in Progress
    BY <2>3 DEF Progress
  <2>6. [halved EXCEPT !.failures = 0, !.gaps = @ \cup {edge}, !.next = @ + 1] \in Progress
    BY <2>3, <2>4 DEF Progress
  <2>7. moved.next = edge
    BY <1>2
  <2>8. LET q == [halved EXCEPT !.failures = 0, !.gaps = @ \cup {edge}, !.next = @ + 1]
        IN  /\ q.read = p.read + r.done /\ q.next = edge + 1
            /\ q.gaps = p.gaps \cup {edge} /\ q.start = p.start
    BY <2>3 DEF Progress
  <2>9. LET q == [halved EXCEPT !.failures = @ + 1]
        IN  /\ q.read = p.read + r.done /\ q.next = edge
            /\ q.gaps = p.gaps /\ q.start = p.start
    BY <2>3 DEF Progress
  <2> QED BY <1>1, <1>6, <2>1, <2>3, <2>5, <2>6, <2>7, <2>8, <2>9 DEF edge
<1> QED BY <1>1, <1>4, <1>5, <1>6

-----------------------------------------------------------------------------
(* Types.                                                                  *)

Stores == [Sources -> SUBSET Buckets]

\* The end of a tick keeps the scope row it is given but for the rebuilt sources.
LEMMA StoreEffect ==
  ASSUME NEW v \in Row, NEW found \in Stores, baseline \in Stores, Store(v, found)
  PROVE  /\ row' \in Row /\ baseline' \in Stores
         /\ rows' = found /\ tick' = Idle
         /\ UNCHANGED <<switchOn, live, monitored, held>>
         /\ row'.state = v.state /\ row'.anchored = v.anchored
         /\ row'.blank = v.blank /\ row'.stale = v.stale /\ row'.plan = v.plan
         /\ row'.adapter.floors = v.adapter.floors
         /\ row'.adapter.top = v.adapter.top /\ row'.adapter.asked = v.adapter.asked
         /\ \A s \in Sources :
              /\ baseline'[s] \in {baseline[s], found[s]}
              /\ s \in v.adapter.pending =>
                   s \in row'.adapter.pending \/ baseline'[s] = found[s]
         /\ v.blank => row' = v
<1>1. PICK b \in Batches(v) :
        /\ row' = [v EXCEPT !.adapter.pending = @ \ b]
        /\ baseline' = [s \in Sources |-> IF s \in b THEN found[s] ELSE baseline[s]]
  BY DEF Store
<1>2. b \subseteq Sources /\ (v.blank => b = {})
  BY DEF Batches, Row, Adapter
<1>3. v.adapter.pending \ {} = v.adapter.pending
  OBVIOUS
<1>4. v.blank => row' = v
  BY <1>1, <1>2, <1>3 DEF Row, Adapter
<1>5. row' \in Row
  BY <1>1, <1>2 DEF Row, Adapter
<1>6. baseline' \in Stores
  BY <1>1, <1>2 DEF Stores
<1> QED BY <1>1, <1>2, <1>4, <1>5, <1>6 DEF Store, Row, Adapter

LEMMA NewTypes ==
  /\ \A start \in Buckets : NewProgress(start) \in Progress
  /\ NewProgress(0) \in Progress /\ NewAdapter \in Adapter /\ NoRow \in Row
<1>1. \A start \in Buckets : NewProgress(start) \in Progress
  BY PlannerAssumption DEF NewProgress, Progress, Widths, Buckets
<1>0. NewProgress(0) \in Progress
  BY <1>1, PlannerAssumption DEF Buckets
<1>2. NewAdapter \in Adapter
  BY PlannerAssumption DEF NewAdapter, Adapter
<1> QED BY <1>0, <1>1, <1>2 DEF NoRow, Row, States

\* The states a trigger leads from and to.
LEMMA Triggers ==
  ASSUME TypeOK
  PROVE  /\ ScopeAction = "STEP" => row.state = "READING"
         /\ ScopeAction = "RESTART" => row.state \in {"COMPLETE", "PARTIAL", "UNAVAILABLE"}
         /\ ScopeAction = "ANCHOR_FOUND" => row.state = "WAITING"
         /\ ScopeAction \in {"REQUEST_READY", "REQUEST_AWAITING_ANCHOR"} =>
              row.state = "NOT_REQUESTED"
         /\ ScopeAction \in {"SWITCHED_OFF", "STOPPED_BY_OPERATOR"} =>
              row.state \in {"READING", "WAITING"}
<1>1. tick.mode \in Modes /\ switchOn \in BOOLEAN /\ row.state \in States
  BY DEF TypeOK, Row
<1> QED BY <1>1 DEF ScopeAction, Modes, States

LEMMA NextStates ==
  /\ NextState("REQUEST_AWAITING_ANCHOR") = "WAITING"
  /\ \A trigger \in {"REQUEST_READY", "ANCHOR_FOUND", "RESTART"} :
       NextState(trigger) = "READING"
  /\ NextState("NOTHING_TO_READ") = "UNAVAILABLE"
  /\ NextState("FINISHED_COMPLETE") = "COMPLETE"
  /\ \A trigger \in {"FINISHED_PARTIAL", "TOO_MANY_GAPS", "TIME_LIMIT", "SWITCHED_OFF",
                     "STOPPED_BY_OPERATOR"} :
       NextState(trigger) = "PARTIAL"
BY DEF NextState

\* A step works on a progress and an adapter of their types.
LEMMA StepTypes ==
  ASSUME TypeOK
  PROVE  StepPlans \subseteq Progress /\ StepAdapter \in Adapter
<1>1. StepPlans \subseteq Progress
  BY NewTypes, HistoryAssumption DEF StepPlans, TypeOK, Row
<1>2. StepAdapter \in Adapter
  <2>1. row.adapter \in Adapter /\ tick.monitored \subseteq Sources
    BY DEF TypeOK, Row
  <2> QED BY <2>1, NewTypes DEF StepAdapter, Adapter
<1> QED BY <1>1, <1>2

LEMMA SteppedType ==
  ASSUME TypeOK, NEW p \in Progress, NEW a \in Adapter
  PROVE  /\ Stepped(p, a) \in Row
         /\ Stepped(p, a).state = row.state /\ Stepped(p, a).anchored = row.anchored
         /\ ~Stepped(p, a).blank /\ ~Stepped(p, a).stale
         /\ Stepped(p, a).plan = p /\ Stepped(p, a).adapter = a
BY DEF TypeOK, Row, Stepped

\* The verdicts of a reading.
Verdicts == {"FINISHED_COMPLETE", "FINISHED_PARTIAL", "TOO_MANY_GAPS", "TIME_LIMIT"}

\* A finished reading ends in one of the final states, COMPLETE only from the
\* planner's own verdict, and lists the sources of `keys` that have a floor.
LEMMA FinishedRow ==
  ASSUME NEW v \in Row, NEW trigger \in Verdicts, NEW keys \in SUBSET Sources
  PROVE  LET w == Finished(v, trigger, keys)
         IN  /\ w \in Row
             /\ w.state \in {"COMPLETE", "PARTIAL", "UNAVAILABLE"}
             /\ w.state = "COMPLETE" => trigger = "FINISHED_COMPLETE"
             /\ w.anchored = v.anchored /\ w.blank = v.blank /\ w.stale = v.stale
             /\ w.plan = v.plan /\ w.adapter.floors = v.adapter.floors
             /\ w.adapter.top = v.adapter.top /\ w.adapter.asked = v.adapter.asked
             /\ w.adapter.pending =
                  v.adapter.pending \cup {s \in keys : v.adapter.floors[s] # End}
<1> DEFINE end == Finish(trigger, v.plan.start, v.adapter.floors)
<1>1. /\ end \in Verdicts \cup {"NOTHING_TO_READ"}
      /\ end = "FINISHED_COMPLETE" => trigger = "FINISHED_COMPLETE"
  BY DEF Finish, Verdicts
<1>2. /\ NextState(end) \in {"COMPLETE", "PARTIAL", "UNAVAILABLE"}
      /\ NextState(end) = "COMPLETE" => trigger = "FINISHED_COMPLETE"
  BY <1>1, NextStates DEF Verdicts
<1> HIDE DEF end
<1>3. Finished(v, trigger, keys) =
        [v EXCEPT !.state = NextState(end),
                  !.adapter.pending = @ \cup {s \in keys : v.adapter.floors[s] # End}]
  BY DEF Finished, end
<1> DEFINE due == {s \in keys : v.adapter.floors[s] # End}
           w == [v EXCEPT !.state = NextState(end), !.adapter.pending = @ \cup due]
<1>4. due \in SUBSET Sources
  OBVIOUS
<1>5. NextState(end) \in States
  BY <1>2 DEF States
<1> HIDE DEF due
<1>6. w \in Row
  BY <1>4, <1>5 DEF Row, Adapter
<1>7. /\ w.state = NextState(end)
      /\ w.anchored = v.anchored /\ w.blank = v.blank /\ w.stale = v.stale
      /\ w.plan = v.plan /\ w.adapter.floors = v.adapter.floors
      /\ w.adapter.top = v.adapter.top /\ w.adapter.asked = v.adapter.asked
      /\ w.adapter.pending = v.adapter.pending \cup due
  BY DEF Row, Adapter
<1> QED BY <1>2, <1>3, <1>6, <1>7 DEF due

-----------------------------------------------------------------------------
(* What a step of the system does.                                         *)

Final == {"COMPLETE", "PARTIAL", "UNAVAILABLE"}

\* Sources that leave the pending ones are rebuilt, and no other baseline changes.
Rebuilt(pending) ==
  \A s \in Sources :
    /\ baseline'[s] \in {baseline[s], rows'[s]}
    /\ s \in pending => s \in row'.adapter.pending \/ baseline'[s] = rows'[s]

\* The tick is over, is the same, or begins; a source that cannot be removed
\* stays monitored.
Watch ==
  /\ monitored \ Removable \subseteq monitored'
  /\ monitored' \subseteq Sources
  /\ \/ ~tick'.busy
     \/ tick.busy /\ tick'.monitored = tick.monitored
     \/ tick'.monitored = monitored /\ monitored' = monitored

\* A step that keeps the progress, the floors and the rows.
Kept ==
  /\ row'.plan = row.plan /\ row'.blank = row.blank
  /\ row'.adapter.floors = row.adapter.floors
  /\ row'.adapter.top = row.adapter.top /\ row'.adapter.asked = row.adapter.asked
  /\ row.blank => row'.adapter = row.adapter
  /\ rows' = rows
  /\ Rebuilt(row.adapter.pending)
  /\ Watch
  /\ \/ row'.state = row.state /\ row'.stale = row.stale
     \/ /\ row.state # "READING" /\ row'.state = "READING"
        /\ row'.stale = ~row.blank
     \/ /\ row.state = "NOT_REQUESTED" /\ row'.state = "WAITING"
        /\ row'.stale = row.stale
     \/ /\ row.state \in {"READING", "WAITING"} /\ row'.state = "PARTIAL"
        /\ row'.stale = row.stale
        /\ Rebuilt(row.adapter.pending \cup Reached)
     \/ /\ row.state = "READING" /\ FirstStep /\ row'.state = "UNAVAILABLE"
        /\ row'.stale = row.stale

\* A step of a reading that read the buckets from the next one of its plan p up
\* to `edge`, and may have skipped `edge`.
StepDone(p, edge) ==
  LET a == StepAdapter
      floors == row'.adapter.floors
      read == p.next..(edge - 1)
  IN  /\ row.state = "READING" /\ tick.busy /\ Watch
      /\ edge \in p.next..End
      /\ ~row'.blank /\ ~row'.stale
      /\ row'.adapter.top = a.top /\ row'.adapter.asked = a.asked
      /\ row'.plan.start = p.start
      /\ row'.plan.read = p.read + (edge - p.next)
      /\ \/ row'.plan.next = edge /\ row'.plan.gaps = p.gaps
         \/ edge < End /\ row'.plan.next = edge + 1 /\ row'.plan.gaps = p.gaps \cup {edge}
      /\ \A s \in Sources :
           \/ floors[s] = a.floors[s]
           \/ s \in Searched(a) /\ floors[s] \in read /\ floors[s] < a.floors[s]
      /\ \A s \in Sources :
           IF s \in Searched(a) /\ floors[s] # End
           THEN rows'[s] = rows[s] \cup {b \in read : b >= FloorOf(p.start, floors[s])}
           ELSE rows'[s] = rows[s]
      /\ Rebuilt(a.pending)
      /\ row'.state \in {"READING"} \cup Final
      /\ row'.state # "READING" =>
           \A s \in Sources \ Removable :
             s \in RebuildKeys(a) /\ floors[s] # End =>
               s \in row'.adapter.pending \/ baseline'[s] = rows'[s]
      /\ row'.state = "COMPLETE" =>
           \/ row'.plan.next = End /\ row'.plan.gaps = {}
           \/ a.top /\ Searched(a) = {}

\* A set of numbers has a least element.
LEMMA LeastElement ==
  ASSUME NEW T, T \subseteq Nat, T # {}
  PROVE  \E b \in T : \A c \in T : b <= c
<1>1. IsWellFoundedOn(OpToRel(<, Nat), Nat)
  BY NatLessThanWellFounded
<1>2. PICK b \in T : \A c \in T : <<c, b>> \notin OpToRel(<, Nat)
  BY <1>1, WFMin
<1>3. \A c \in T : ~(c < b)
  BY <1>2 DEF OpToRel
<1> QED BY <1>3

\* The step finds a floor only in what it read, and below the earlier one.
LEMMA FoldFloorsEffect ==
  ASSUME TypeOK, NEW a \in Adapter, NEW read \in SUBSET Buckets
  PROVE  /\ FoldFloors(a, read) \in [Sources -> 0..End]
         /\ \A s \in Sources :
              \/ FoldFloors(a, read)[s] = a.floors[s]
              \/ /\ s \in Searched(a) /\ FoldFloors(a, read)[s] \in read
                 /\ FoldFloors(a, read)[s] < a.floors[s]
<1>1. ASSUME NEW s \in Sources, s \in Searched(a),
             \E b \in held[s] \cap read : b < a.floors[s]
      PROVE  /\ FoldFloors(a, read)[s] \in read
             /\ FoldFloors(a, read)[s] < a.floors[s]
  <2> DEFINE T == held[s] \cap read
             m == CHOOSE b \in T : \A c \in T : b <= c
  <2>1. T \subseteq Nat /\ T \subseteq read /\ T # {}
    <3>1. Buckets \subseteq Nat
      BY PlannerAssumption DEF Buckets
    <3> QED BY <1>1, <3>1
  <2>2. m \in T /\ \A c \in T : m <= c
    <3> HIDE DEF T
    <3> QED BY <2>1, LeastElement
  <2>3. FoldFloors(a, read)[s] = m
    BY <1>1 DEF FoldFloors
  <2>4. a.floors[s] \in Int
    BY PlannerAssumption DEF Adapter
  <2>5. PICK b \in T : b < a.floors[s]
    BY <1>1
  <2> HIDE DEF T, m
  <2> QED BY <2>1, <2>2, <2>3, <2>4, <2>5
<1>2. ASSUME NEW s \in Sources,
             ~(s \in Searched(a) /\ \E b \in held[s] \cap read : b < a.floors[s])
      PROVE  FoldFloors(a, read)[s] = a.floors[s]
  BY <1>2 DEF FoldFloors
<1>3. \A s \in Sources :
        \/ FoldFloors(a, read)[s] = a.floors[s]
        \/ /\ s \in Searched(a) /\ FoldFloors(a, read)[s] \in read
           /\ FoldFloors(a, read)[s] < a.floors[s]
  BY <1>1, <1>2
<1>4. \A s \in Sources : FoldFloors(a, read)[s] \in 0..End
  <2> TAKE s \in Sources
  <2>1. a.floors[s] \in 0..End /\ Buckets \subseteq 0..End
    BY PlannerAssumption DEF Adapter, Buckets
  <2> QED BY <1>3, <2>1
<1>5. FoldFloors(a, read) = [s \in Sources |-> FoldFloors(a, read)[s]]
  BY DEF FoldFloors
<1> QED BY <1>3, <1>4, <1>5

LEMMA FoldRowsEffect ==
  ASSUME TypeOK, NEW a, NEW start, NEW read \in SUBSET Buckets, NEW floors
  PROVE  /\ FoldRows(a, start, read, floors) \in Stores
         /\ \A s \in Sources :
              IF s \in Searched(a) /\ floors[s] # End
              THEN FoldRows(a, start, read, floors)[s] =
                     rows[s] \cup {b \in read : b >= FloorOf(start, floors[s])}
              ELSE FoldRows(a, start, read, floors)[s] = rows[s]
BY DEF FoldRows, Stores, TypeOK


\* The row, the rows and the baselines of a state that are not touched.
LEMMA UntouchedKept ==
  ASSUME TypeOK, UNCHANGED <<row, rows, baseline>>, Watch
  PROVE  Kept
<1>1. Rebuilt(row.adapter.pending)
  BY DEF Rebuilt
<1> QED BY <1>1 DEF Kept

\* Requests, the console, operators and the clock keep the reading.
LEMMA OthersKeep ==
  ASSUME TypeOK,
         \/ \E answer \in {"NO", "YES"} : Decide(answer)
         \/ RequestStart \/ RequestStop \/ LiveBucket
         \/ \E s \in Sources : SetMonitoring(s)
         \/ Redeploy \/ HourPasses \/ TickStarts \/ Begin \/ Leave
         \/ UNCHANGED vars
  PROVE  TypeOK' /\ Kept
<1>0. tick \in [clock : BOOLEAN, busy : BOOLEAN, mode : Modes, fresh : BOOLEAN,
                late : BOOLEAN, overdue : BOOLEAN, monitored : SUBSET Sources]
      /\ monitored \subseteq Sources
  BY DEF TypeOK
<1>1. CASE \E answer \in {"NO", "YES"} : Decide(answer)
  <2>1. TypeOK'
    BY <1>1 DEF TypeOK, Decide, Answers
  <2>2. UNCHANGED <<row, rows, baseline>> /\ Watch
    BY <1>0, <1>1 DEF Decide, Watch
  <2> QED BY <2>1, <2>2, UntouchedKept
<1>2. CASE RequestStart
  <2>1. TypeOK'
    BY <1>2 DEF TypeOK, RequestStart
  <2>2. UNCHANGED <<row, rows, baseline>> /\ Watch
    BY <1>0, <1>2 DEF RequestStart, Watch
  <2> QED BY <2>1, <2>2, UntouchedKept
<1>3. CASE RequestStop
  <2>1. TypeOK'
    BY <1>3 DEF TypeOK, RequestStop
  <2>2. UNCHANGED <<row, rows, baseline>> /\ Watch
    BY <1>0, <1>3 DEF RequestStop, Watch
  <2> QED BY <2>1, <2>2, UntouchedKept
<1>4. CASE LiveBucket
  <2>1. TypeOK'
    BY <1>4 DEF TypeOK, LiveBucket
  <2>2. UNCHANGED <<row, rows, baseline>> /\ Watch
    BY <1>0, <1>4 DEF LiveBucket, Watch
  <2> QED BY <2>1, <2>2, UntouchedKept
<1>5. CASE \E s \in Sources : SetMonitoring(s)
  <2>1. PICK s \in Sources : SetMonitoring(s)
    BY <1>5
  <2>2. TypeOK'
    BY <2>1 DEF TypeOK, SetMonitoring
  <2>3. UNCHANGED <<row, rows, baseline>> /\ Watch
    BY <1>0, <2>1 DEF SetMonitoring, Watch
  <2> QED BY <2>2, <2>3, UntouchedKept
<1>6. CASE Redeploy
  <2>1. TypeOK'
    BY <1>6 DEF TypeOK, Redeploy, Idle, Modes
  <2>2. UNCHANGED <<row, rows, baseline>> /\ Watch
    BY <1>0, <1>6 DEF Redeploy, Watch, Idle
  <2> QED BY <2>1, <2>2, UntouchedKept
<1>7. CASE HourPasses
  <2>1. TypeOK'
    BY <1>7, HistoryAssumption DEF TypeOK, HourPasses
  <2>2. UNCHANGED <<row, rows, baseline>> /\ Watch
    BY <1>0, <1>7 DEF HourPasses, Watch
  <2> QED BY <2>1, <2>2, UntouchedKept
<1>8. CASE Begin
  <2>1. ConsoleMode(decision) \in Modes
    BY DEF TypeOK, ConsoleMode, Modes, Answers
  <2>2. TypeOK'
    BY <1>8, <2>1 DEF TypeOK, Begin
  <2>3. UNCHANGED <<row, rows, baseline>> /\ Watch
    BY <1>0, <1>8 DEF Begin, Watch
  <2> QED BY <2>2, <2>3, UntouchedKept
<1>11. CASE TickStarts
  <2>1. Expired(age) \in BOOLEAN
    BY DEF Expired
  <2>2. TypeOK'
    BY <1>11, <2>1 DEF TypeOK, TickStarts, Idle, Modes
  <2>3. UNCHANGED <<row, rows, baseline>> /\ Watch
    BY <1>0, <1>11 DEF TickStarts, Watch, Idle
  <2> QED BY <2>2, <2>3, UntouchedKept
<1>9. CASE Leave
  <2>1. TypeOK'
    BY <1>9 DEF TypeOK, Leave, Idle, Modes
  <2>2. UNCHANGED <<row, rows, baseline>> /\ Watch
    BY <1>0, <1>9 DEF Leave, Watch, Idle
  <2> QED BY <2>1, <2>2, UntouchedKept
<1>10. CASE UNCHANGED vars
  <2>1. TypeOK'
    BY <1>10 DEF TypeOK, vars
  <2>2. UNCHANGED <<row, rows, baseline>> /\ Watch
    BY <1>0, <1>10 DEF vars, Watch
  <2> QED BY <2>1, <2>2, UntouchedKept
<1> QED BY <1>1, <1>2, <1>3, <1>4, <1>5, <1>6, <1>7, <1>8, <1>9, <1>10, <1>11

\* The end of a tick has its types and leaves the sources monitored.
LEMMA StoreTypes ==
  ASSUME TypeOK, NEW v \in Row, NEW found \in Stores, Store(v, found),
         decision' \in [answer : Answers, stopped : BOOLEAN, fresh : BOOLEAN],
         age' \in 0..(MaxHours + 1)
  PROVE  TypeOK' /\ Watch /\ Rebuilt(v.adapter.pending)
<1>1. /\ baseline \in Stores /\ ~Idle.busy
      /\ Idle \in [clock : BOOLEAN, busy : BOOLEAN, mode : Modes, fresh : BOOLEAN,
                   late : BOOLEAN, overdue : BOOLEAN, monitored : SUBSET Sources]
  BY DEF TypeOK, Idle, Modes, Stores
<1>2. TypeOK'
  BY <1>1, StoreEffect DEF TypeOK, Stores
<1>3. Watch
  BY <1>1, StoreEffect DEF TypeOK, Watch
<1>4. Rebuilt(v.adapter.pending)
  BY <1>1, StoreEffect DEF Rebuilt
<1> QED BY <1>2, <1>3, <1>4

\* What a finishing tick stores besides the row.
LEMMA StoreFinishedTypes ==
  ASSUME TypeOK, NEW v, NEW found, StoreFinished(v, found)
  PROVE  /\ Store(v, found)
         /\ decision' \in [answer : Answers, stopped : BOOLEAN, fresh : BOOLEAN]
         /\ age' \in 0..(MaxHours + 1)
BY HistoryAssumption DEF StoreFinished, TypeOK


\* A tick that does not step keeps the reading: it has nothing to do, creates,
\* starts or ends the scope, is refused, or finds no search left.
LEMMA TicksKeep ==
  ASSUME TypeOK, Fresh,
         \/ TickNone \/ TickCreate \/ TickStart \/ TickEnd \/ TickRefused
         \/ TickWait /\ ~FirstStep
  PROVE  TypeOK' /\ Kept
<1>0. /\ row \in Row /\ rows \in Stores /\ baseline \in Stores
      /\ decision \in [answer : Answers, stopped : BOOLEAN, fresh : BOOLEAN]
      /\ age \in 0..(MaxHours + 1) /\ 0 \in 0..(MaxHours + 1)
      /\ switchOn \in BOOLEAN /\ live \in BOOLEAN
  BY HistoryAssumption DEF TypeOK, Stores
<1>1. ASSUME Store(row, rows), UNCHANGED <<decision, age>>
      PROVE  TypeOK' /\ Kept
  <2>1. TypeOK' /\ Watch /\ Rebuilt(row.adapter.pending)
    BY <1>0, <1>1, StoreTypes
  <2> QED BY <1>0, <1>1, <2>1, StoreEffect DEF Kept
<1>2. CASE TickNone
  BY <1>1, <1>2 DEF TickNone
<1>3. CASE TickWait /\ ~FirstStep
  BY <1>1, <1>3 DEF TickWait
<1>4. CASE TickCreate
  <2> DEFINE v == [NoRow EXCEPT !.state = NextState(ScopeAction), !.anchored = live]
  <2>1. row.state = "NOT_REQUESTED" /\ NextState(ScopeAction) \in {"WAITING", "READING"}
    BY <1>4, Triggers, NextStates DEF TickCreate
  <2>2. /\ v \in Row /\ v.blank = TRUE /\ v.stale = FALSE /\ v.plan = NewProgress(0)
        /\ v.adapter = NewAdapter /\ v.state = NextState(ScopeAction)
    BY <1>0, <2>1, NewTypes DEF Row, NoRow, States
  <2>3. /\ row.blank = TRUE /\ row.stale = FALSE
        /\ row.plan = NewProgress(0) /\ row.adapter = NewAdapter
    BY <1>0, <2>1 DEF Fresh, Row
  <2>4. Store(v, rows) /\ age' = 0 /\ UNCHANGED decision
    BY <1>4 DEF TickCreate
  <2> HIDE DEF v
  <2>5. TypeOK' /\ Watch /\ Rebuilt(v.adapter.pending)
    BY <1>0, <2>2, <2>4, StoreTypes
  <2>6. row' = v /\ rows' = rows
    BY <1>0, <2>2, <2>4, StoreEffect
  <2> QED BY <2>1, <2>2, <2>3, <2>5, <2>6 DEF Kept
<1>5. CASE TickStart
  <2> DEFINE v == [row EXCEPT !.state = NextState(ScopeAction), !.anchored = @ \/ live,
                              !.stale = ~row.blank]
  <2>1. row.state # "READING" /\ NextState(ScopeAction) = "READING"
    BY <1>5, Triggers, NextStates DEF TickStart
  <2>2. row.blank \in BOOLEAN /\ row.anchored \in BOOLEAN
    BY <1>0 DEF Row
  <2>3. /\ v \in Row /\ v.blank = row.blank /\ v.stale = ~row.blank /\ v.plan = row.plan
        /\ v.adapter = row.adapter /\ v.state = "READING"
    BY <1>0, <2>1, <2>2 DEF Row, States
  <2>4. Store(v, rows) /\ age' = 0 /\ UNCHANGED decision
    BY <1>5 DEF TickStart
  <2> HIDE DEF v
  <2>5. TypeOK' /\ Watch /\ Rebuilt(v.adapter.pending)
    BY <1>0, <2>3, <2>4, StoreTypes
  <2> QED BY <1>0, <2>1, <2>3, <2>4, <2>5, StoreEffect DEF Kept
<1>6. CASE TickEnd
  <2> DEFINE v == [row EXCEPT !.state = NextState(ScopeAction),
                              !.adapter.pending = @ \cup Reached]
  <2>1. row.state \in {"READING", "WAITING"} /\ NextState(ScopeAction) = "PARTIAL"
    BY <1>6, Triggers, NextStates DEF TickEnd
  <2>2. Reached \subseteq Sources /\ (row.blank => Reached = {})
    BY DEF Reached
  <2>3. /\ v \in Row /\ v.blank = row.blank /\ v.stale = row.stale /\ v.plan = row.plan
        /\ v.adapter.floors = row.adapter.floors /\ v.adapter.top = row.adapter.top
        /\ v.adapter.asked = row.adapter.asked /\ v.state = "PARTIAL"
        /\ v.adapter.pending = row.adapter.pending \cup Reached
    BY <1>0, <2>1, <2>2 DEF Row, Adapter, States
  <2>4. row.blank => v.adapter = row.adapter
    <3> SUFFICES ASSUME row.blank PROVE v.adapter = row.adapter
      OBVIOUS
    <3>1. row.adapter.pending \cup Reached = row.adapter.pending
      BY <2>2
    <3> QED BY <1>0, <3>1 DEF Row, Adapter
  <2>5. StoreFinished(v, rows)
    BY <1>6 DEF TickEnd
  <2> HIDE DEF v
  <2>6. /\ Store(v, rows)
        /\ decision' \in [answer : Answers, stopped : BOOLEAN, fresh : BOOLEAN]
        /\ age' \in 0..(MaxHours + 1)
    BY <2>5, StoreFinishedTypes
  <2>7. TypeOK' /\ Watch /\ Rebuilt(row.adapter.pending \cup Reached)
    BY <1>0, <2>3, <2>6, StoreTypes
  <2>8. Rebuilt(row.adapter.pending)
    BY <2>7 DEF Rebuilt
  <2> QED BY <1>0, <2>1, <2>3, <2>4, <2>6, <2>7, <2>8, StoreEffect DEF Kept
<1>7. CASE TickRefused
  <2> DEFINE v == [row EXCEPT !.state = "UNAVAILABLE"]
  <2>1. row.state = "READING" /\ FirstStep
    BY <1>7, Triggers DEF TickRefused
  <2>2. /\ v \in Row /\ v.blank = row.blank /\ v.stale = row.stale /\ v.plan = row.plan
        /\ v.adapter = row.adapter /\ v.state = "UNAVAILABLE"
    BY <1>0 DEF Row, States
  <2>3. StoreFinished(v, rows)
    BY <1>7 DEF TickRefused
  <2> HIDE DEF v
  <2>4. /\ Store(v, rows)
        /\ decision' \in [answer : Answers, stopped : BOOLEAN, fresh : BOOLEAN]
        /\ age' \in 0..(MaxHours + 1)
    BY <2>3, StoreFinishedTypes
  <2>5. TypeOK' /\ Watch /\ Rebuilt(row.adapter.pending)
    BY <1>0, <2>2, <2>4, StoreTypes
  <2> QED BY <1>0, <2>1, <2>2, <2>4, <2>5, StoreEffect DEF Kept
<1> QED BY <1>2, <1>3, <1>4, <1>5, <1>6, <1>7


\* A stored step: the reading goes on, or ends with a verdict.
LEMMA StepStored ==
  ASSUME TypeOK, Reading, NEW q \in Progress, NEW b \in Adapter, NEW found \in Stores,
         NEW p \in Progress, NEW edge \in p.next..End,
         b.top = StepAdapter.top, b.asked = StepAdapter.asked,
         b.pending = StepAdapter.pending,
         q.start = p.start, q.read = p.read + (edge - p.next),
         \/ q.next = edge /\ q.gaps = p.gaps
         \/ edge < End /\ q.next = edge + 1 /\ q.gaps = p.gaps \cup {edge},
         \A s \in Sources :
           \/ b.floors[s] = StepAdapter.floors[s]
           \/ /\ s \in Searched(StepAdapter) /\ b.floors[s] \in p.next..(edge - 1)
              /\ b.floors[s] < StepAdapter.floors[s],
         \A s \in Sources :
           IF s \in Searched(StepAdapter) /\ b.floors[s] # End
           THEN found[s] = rows[s] \cup {c \in p.next..(edge - 1) :
                                           c >= FloorOf(p.start, b.floors[s])}
           ELSE found[s] = rows[s],
         \/ Store(Stepped(q, b), found) /\ UNCHANGED <<decision, age>>
         \/ \E trigger \in Verdicts, keys \in SUBSET Sources :
              /\ StoreFinished(Finished(Stepped(q, b), trigger, keys), found)
              /\ \A s \in Sources \ Removable :
                   s \in RebuildKeys(StepAdapter) /\ b.floors[s] # End => s \in keys
              /\ trigger = "FINISHED_COMPLETE" =>
                   \/ q.next = End /\ q.gaps = {}
                   \/ StepAdapter.top /\ Searched(StepAdapter) = {}
  PROVE  TypeOK' /\ StepDone(p, edge)
<1> DEFINE v == Stepped(q, b)
<1>0. /\ v \in Row /\ v.state = "READING" /\ ~v.blank /\ ~v.stale
      /\ v.plan = q /\ v.adapter = b
      /\ row.state = "READING" /\ tick.busy
  BY SteppedType, Triggers DEF Reading
<1>1. /\ baseline \in Stores
      /\ decision \in [answer : Answers, stopped : BOOLEAN, fresh : BOOLEAN]
      /\ age \in 0..(MaxHours + 1)
  BY DEF TypeOK, Stores
<1> HIDE DEF v
<1>2. CASE Store(v, found) /\ UNCHANGED <<decision, age>>
  <2>1. TypeOK' /\ Watch /\ Rebuilt(b.pending)
    BY <1>0, <1>1, <1>2, StoreTypes
  <2>2. /\ row'.state = "READING" /\ ~row'.blank /\ ~row'.stale /\ row'.plan = q
        /\ row'.adapter.floors = b.floors /\ row'.adapter.top = b.top
        /\ row'.adapter.asked = b.asked /\ rows' = found
    BY <1>0, <1>1, <1>2, StoreEffect
  <2> QED BY <1>0, <2>1, <2>2 DEF StepDone
<1>3. ASSUME NEW trigger \in Verdicts, NEW keys \in SUBSET Sources,
             StoreFinished(Finished(v, trigger, keys), found),
             \A s \in Sources \ Removable :
               s \in RebuildKeys(StepAdapter) /\ b.floors[s] # End => s \in keys,
             trigger = "FINISHED_COMPLETE" =>
               \/ q.next = End /\ q.gaps = {}
               \/ StepAdapter.top /\ Searched(StepAdapter) = {}
      PROVE  TypeOK' /\ StepDone(p, edge)
  <2> DEFINE w == Finished(v, trigger, keys)
  <2>1. /\ w \in Row /\ w.state \in Final
        /\ w.state = "COMPLETE" => trigger = "FINISHED_COMPLETE"
        /\ ~w.blank /\ ~w.stale
        /\ w.plan = q /\ w.adapter.floors = b.floors
        /\ w.adapter.top = b.top /\ w.adapter.asked = b.asked
        /\ w.adapter.pending = b.pending \cup {s \in keys : b.floors[s] # End}
    BY <1>0, FinishedRow DEF Final
  <2>2. /\ Store(w, found)
        /\ decision' \in [answer : Answers, stopped : BOOLEAN, fresh : BOOLEAN]
        /\ age' \in 0..(MaxHours + 1)
    BY <1>3, StoreFinishedTypes
  <2> HIDE DEF w
  <2>3. TypeOK' /\ Watch /\ Rebuilt(w.adapter.pending)
    BY <2>1, <2>2, StoreTypes
  <2>4. /\ row'.state = w.state /\ ~row'.blank /\ ~row'.stale /\ row'.plan = q
        /\ row'.adapter.floors = b.floors /\ row'.adapter.top = b.top
        /\ row'.adapter.asked = b.asked /\ rows' = found
    BY <1>1, <2>1, <2>2, StoreEffect
  <2>5. Rebuilt(b.pending)
    BY <2>1, <2>3 DEF Rebuilt
  <2>6. \A s \in Sources \ Removable :
          s \in RebuildKeys(StepAdapter) /\ row'.adapter.floors[s] # End =>
            s \in row'.adapter.pending \/ baseline'[s] = rows'[s]
    BY <1>3, <2>1, <2>3, <2>4 DEF Rebuilt
  <2>7. row'.state = "COMPLETE" =>
          \/ row'.plan.next = End /\ row'.plan.gaps = {}
          \/ StepAdapter.top /\ Searched(StepAdapter) = {}
    BY <1>3, <2>1, <2>4
  <2> QED BY <1>0, <2>1, <2>3, <2>4, <2>5, <2>6, <2>7 DEF StepDone
<1> QED BY <1>2, <1>3 DEF v

\* Each tick that steps does what StepDone says.
LEMMA TicksStep ==
  ASSUME TypeOK, StillMonitored,
         TickOverdue \/ (TickWait /\ FirstStep) \/ TickNothing \/ TickRead
  PROVE  TypeOK' /\ \E p \in StepPlans, edge \in Int : StepDone(p, edge)
<1> DEFINE a == StepAdapter
<1>a. StepPlans \subseteq Progress /\ a \in Adapter /\ rows \in Stores
  BY StepTypes DEF TypeOK, Stores
<1>0. ASSUME NEW p \in StepPlans
      PROVE  /\ p \in Progress /\ a \in Adapter /\ rows \in Stores
             /\ p.next \in p.next..End /\ p.next \in Int /\ p.read \in Int
             /\ p.next \in 0..End
  BY <1>a, PlannerAssumption DEF Progress
<1>1. /\ RebuildKeys(a) \in SUBSET Sources
      /\ tick.monitored \in SUBSET Sources
  BY <1>a DEF RebuildKeys, Adapter, TypeOK
<1>2. ASSUME Reading, NEW p \in StepPlans,
             \/ Store(Stepped(p, a), rows) /\ UNCHANGED <<decision, age>>
             \/ \E trigger \in Verdicts, keys \in SUBSET Sources :
                  /\ StoreFinished(Finished(Stepped(p, a), trigger, keys), rows)
                  /\ \A s \in Sources \ Removable :
                       s \in RebuildKeys(a) /\ a.floors[s] # End => s \in keys
                  /\ trigger = "FINISHED_COMPLETE" =>
                       \/ p.next = End /\ p.gaps = {}
                       \/ a.top /\ Searched(a) = {}
      PROVE  TypeOK' /\ StepDone(p, p.next)
  <2>1. \A s \in Sources :
          IF s \in Searched(a) /\ a.floors[s] # End
          THEN rows[s] = rows[s] \cup {c \in p.next..(p.next - 1) :
                                        c >= FloorOf(p.start, a.floors[s])}
          ELSE rows[s] = rows[s]
    BY <1>0
  <2>2. p.read = p.read + (p.next - p.next)
    BY <1>0
  <2> HIDE DEF a
  <2> QED BY <1>0, <1>2, <2>1, <2>2, StepStored DEF a
<1>3. CASE TickOverdue
  <2>1. PICK p \in StepPlans :
          StoreFinished(Finished(Stepped(p, a), "TIME_LIMIT", RebuildKeys(a)), rows)
    BY <1>3 DEF TickOverdue
  <2>2. Reading /\ "TIME_LIMIT" \in Verdicts
    BY <1>3 DEF TickOverdue, Verdicts
  <2>3. TypeOK' /\ StepDone(p, p.next)
    BY <1>1, <1>2, <2>1, <2>2
  <2> QED BY <1>0, <2>3
<1>4. CASE TickWait /\ FirstStep
  <2>1. PICK p \in StepPlans : Store(Stepped(p, a), rows)
    BY <1>4 DEF TickWait
  <2>2. Reading /\ UNCHANGED <<decision, age>>
    BY <1>4 DEF TickWait
  <2>3. TypeOK' /\ StepDone(p, p.next)
    BY <1>2, <2>1, <2>2
  <2> QED BY <1>0, <2>3
<1>5. CASE TickNothing
  <2>1. Reading /\ a.top /\ Searched(a) = {}
    BY <1>5 DEF TickNothing
  <2>2. \A s \in Sources \ Removable : s \notin RebuildKeys(a) \/ a.floors[s] = End
    <3> SUFFICES ASSUME NEW s \in Sources \ Removable, s \in a.asked, a.floors[s] # End
                 PROVE  FALSE
      BY <2>1 DEF RebuildKeys
    <3>1. s \notin tick.monitored
      BY <2>1 DEF Searched
    <3>2. CASE FirstStep
      BY <2>1, <3>1, <3>2 DEF FirstStep, StepAdapter, NewAdapter, TypeOK, Row, Adapter
    <3>3. CASE ~FirstStep
      BY <2>1, <3>1, <3>3 DEF FirstStep, StepAdapter, StillMonitored, Reading
    <3> QED BY <3>2, <3>3
  <2>3. PICK p \in StepPlans :
          StoreFinished(Finished(Stepped(p, a), "FINISHED_COMPLETE", {}), rows)
    BY <1>5 DEF TickNothing
  <2>4. "FINISHED_COMPLETE" \in Verdicts /\ {} \in SUBSET Sources
    BY DEF Verdicts
  <2> HIDE DEF a
  <2>5. TypeOK' /\ StepDone(p, p.next)
    BY <1>2, <2>1, <2>2, <2>3, <2>4
  <2> QED BY <1>0, <2>5
<1>6. CASE TickRead
  <2>1. Reading
    BY <1>6 DEF TickRead
  <2>2. PICK p \in StepPlans, budget \in 1..Budget : \E r \in StepResults(p, budget) :
          LET read == p.next..(p.next + r.done - 1)
              floors == FoldFloors(a, read)
              found == FoldRows(a, p.start, read, floors)
          IN \E d \in Densities(a, read) :
               LET q == SettleStep(p, r, d)
                   v == Stepped(q, [a EXCEPT !.floors = floors])
                   end == SettleTrigger(p, r, q)
               IN  IF end = "none"
                   THEN Store(v, found) /\ UNCHANGED <<decision, age>>
                   ELSE StoreFinished(Finished(v, end, RebuildKeys(a)), found)
    BY <1>6 DEF TickRead
  <2>3. PICK r \in StepResults(p, budget) :
          \E d \in Densities(a, p.next..(p.next + r.done - 1)) :
            LET read == p.next..(p.next + r.done - 1)
                floors == FoldFloors(a, read)
                found == FoldRows(a, p.start, read, floors)
                q == SettleStep(p, r, d)
                v == Stepped(q, [a EXCEPT !.floors = floors])
                end == SettleTrigger(p, r, q)
            IN  IF end = "none"
                THEN Store(v, found) /\ UNCHANGED <<decision, age>>
                ELSE StoreFinished(Finished(v, end, RebuildKeys(a)), found)
    BY <2>2
  <2> DEFINE edge == p.next + r.done
             read == p.next..(p.next + r.done - 1)
             floors == FoldFloors(a, read)
             found == FoldRows(a, p.start, read, floors)
             b == [a EXCEPT !.floors = floors]
  <2>4. r.done \in Nat /\ edge <= End /\ edge \in p.next..End /\ edge \in Int
    BY <1>0, StepResultBounds, PlannerAssumption
  <2>5. read = p.next..(edge - 1) /\ read \in SUBSET Buckets
    <3>1. p.next + r.done - 1 = edge - 1
      BY <1>0, <2>4
    <3>2. p.next..(edge - 1) \in SUBSET Buckets
      BY <1>0, <2>4, PlannerAssumption DEF Buckets
    <3> QED BY <3>1, <3>2
  <2>6. PICK d \in Densities(a, read) :
          LET q == SettleStep(p, r, d)
              end == SettleTrigger(p, r, q)
          IN  IF end = "none"
              THEN Store(Stepped(q, b), found) /\ UNCHANGED <<decision, age>>
              ELSE StoreFinished(Finished(Stepped(q, b), end, RebuildKeys(a)), found)
    BY <2>3
  <2> DEFINE q == SettleStep(p, r, d)
             end == SettleTrigger(p, r, q)
  <2>7. d \in 0..MaxSpan
    BY <2>6, HistoryAssumption, PlannerAssumption DEF Densities
  <2>8. /\ q \in Progress /\ q.start = p.start /\ q.read = p.read + r.done
        /\ \/ q.next = edge /\ q.gaps = p.gaps
           \/ edge < End /\ q.next = edge + 1 /\ q.gaps = p.gaps \cup {edge}
    <3>1. p \in Progress
      BY <1>0
    <3> QED BY <3>1, <2>7, SettleStepMoves
  <2>9. /\ end \in {"none"} \cup Verdicts
        /\ end = "FINISHED_COMPLETE" => q.next = End /\ q.gaps = {}
    <3>1. q.next \in 0..End
      BY <2>8 DEF Progress
    <3> HIDE DEF q
    <3> QED BY <3>1, PlannerAssumption DEF SettleTrigger, FinishVerdict, Verdicts
  <2>10. /\ floors \in [Sources -> 0..End]
         /\ \A s \in Sources :
              \/ floors[s] = a.floors[s]
              \/ s \in Searched(a) /\ floors[s] \in read /\ floors[s] < a.floors[s]
    <3>1. a \in Adapter /\ read \in SUBSET Buckets
      BY <1>0, <2>5
    <3> HIDE DEF a, read
    <3> QED BY <3>1, FoldFloorsEffect
  <2>11. /\ found \in Stores
         /\ \A s \in Sources :
              IF s \in Searched(a) /\ floors[s] # End
              THEN found[s] = rows[s] \cup {c \in read : c >= FloorOf(p.start, floors[s])}
              ELSE found[s] = rows[s]
    <3>1. read \in SUBSET Buckets
      BY <2>5
    <3> HIDE DEF a, read, floors
    <3> QED BY <3>1, FoldRowsEffect
  <2>12. /\ b \in Adapter /\ b.floors = floors /\ b.top = a.top /\ b.asked = a.asked
         /\ b.pending = a.pending
    <3> HIDE DEF a, floors
    <3> QED BY <1>0, <2>10 DEF Adapter
  <2>13. \/ Store(Stepped(q, b), found) /\ UNCHANGED <<decision, age>>
         \/ end \in Verdicts /\ StoreFinished(Finished(Stepped(q, b), end, RebuildKeys(a)), found)
    BY <2>6, <2>9
  <2>14. q.read = p.read + (edge - p.next)
    BY <1>0, <2>4, <2>8
  <2> HIDE DEF a, q, end, b, floors, found, read, edge
  <2>15. \/ Store(Stepped(q, b), found) /\ UNCHANGED <<decision, age>>
         \/ \E trigger \in Verdicts, keys \in SUBSET Sources :
              /\ StoreFinished(Finished(Stepped(q, b), trigger, keys), found)
              /\ \A s \in Sources \ Removable :
                   s \in RebuildKeys(a) /\ b.floors[s] # End => s \in keys
              /\ trigger = "FINISHED_COMPLETE" =>
                   \/ q.next = End /\ q.gaps = {}
                   \/ a.top /\ Searched(a) = {}
    BY <1>1, <2>9, <2>13
  <2>17. p \in Progress
    BY <1>0
  <2>16. TypeOK' /\ StepDone(p, edge)
    BY <2>17, <2>1, <2>4, <2>8, <2>10, <2>11, <2>12, <2>5, <2>14, <2>15, StepStored DEF a
  <2> QED BY <2>4, <2>16
<1> QED BY <1>3, <1>4, <1>5, <1>6


\* Every step of the system keeps the reading or steps it.
LEMMA NextShape ==
  ASSUME TypeOK, Fresh, StillMonitored, [Next]_vars
  PROVE  TypeOK' /\ (Kept \/ \E p \in StepPlans, edge \in Int : StepDone(p, edge))
<1>1. CASE \/ \E answer \in {"NO", "YES"} : Decide(answer)
           \/ RequestStart \/ RequestStop \/ LiveBucket
           \/ \E s \in Sources : SetMonitoring(s)
           \/ Redeploy \/ HourPasses \/ TickStarts \/ Begin
           \/ UNCHANGED vars
  BY <1>1, OthersKeep
<1>2. CASE TickDeferred \/ TickUnanchored \/ TickFails
  BY <1>2, OthersKeep DEF TickDeferred, TickUnanchored, TickFails
<1>3. CASE \/ TickNone \/ TickCreate \/ TickStart \/ TickEnd \/ TickRefused
           \/ TickWait /\ ~FirstStep
  BY <1>3, TicksKeep
<1>4. CASE TickOverdue \/ (TickWait /\ FirstStep) \/ TickNothing \/ TickRead
  BY <1>4, TicksStep
<1> QED BY <1>1, <1>2, <1>3, <1>4 DEF Next, TickCompletes

-----------------------------------------------------------------------------
(* The invariants.                                                         *)

LEMMA InitInv == Init => IInv
<1> SUFFICES ASSUME Init PROVE IInv
  OBVIOUS
<1>1. /\ row = NoRow /\ NoRow \in Row
      /\ rows = [s \in Sources |-> {}] /\ baseline = [s \in Sources |-> {}]
      /\ held \in [Sources -> SUBSET Buckets] /\ tick = Idle
  BY NewTypes, HistoryAssumption DEF Init
<1>2. /\ row.state = "NOT_REQUESTED" /\ row.blank /\ ~row.stale
      /\ row.plan = NewProgress(0) /\ row.adapter = NewAdapter
  BY <1>1 DEF NoRow
<1>3. TypeOK
  <2>1. decision \in [answer : Answers, stopped : BOOLEAN, fresh : BOOLEAN]
    BY DEF Init, Answers
  <2>2. age \in 0..(MaxHours + 1) /\ monitored \subseteq Sources
    BY HistoryAssumption DEF Init
  <2>3. rows \in [Sources -> SUBSET Buckets] /\ baseline \in [Sources -> SUBSET Buckets]
    BY <1>1
  <2>4. tick \in [clock : BOOLEAN, busy : BOOLEAN, mode : Modes, fresh : BOOLEAN,
                  late : BOOLEAN, overdue : BOOLEAN, monitored : SUBSET Sources]
    BY <1>1 DEF Idle, Modes
  <2> QED BY <1>1, <2>1, <2>2, <2>3, <2>4 DEF Init, TypeOK
<1>4. Fresh
  BY <1>1, <1>2 DEF Fresh
<1>5. Frontier
  BY <1>2, FS_EmptySet DEF Frontier, NewProgress
<1>6. \A s \in Sources : row.adapter.floors[s] = End
  BY <1>2 DEF NewAdapter
<1>7. ~row.adapter.top /\ row.adapter.asked = {} /\ ~tick.busy
  BY <1>1, <1>2 DEF NewAdapter, Idle
<1>8. FloorsBehind /\ WindowRead
  BY <1>6, <1>7 DEF FloorsBehind, WindowRead, For
<1>9. RowsAboveFloor /\ Owed
  <2>1. \A s \in Sources : rows[s] = {}
    BY <1>1
  <2> QED BY <2>1 DEF RowsAboveFloor, Owed
<1>10. StillMonitored
  BY <1>6, <1>7 DEF StillMonitored
<1> QED BY <1>3, <1>4, <1>5, <1>8, <1>9, <1>10 DEF IInv

\* A step that keeps the reading keeps the invariant.
LEMMA KeptInv ==
  ASSUME IInv, TypeOK', Kept
  PROVE  IInv'
<1>0. /\ row \in Row /\ row' \in Row /\ row.blank \in BOOLEAN /\ row.stale \in BOOLEAN
      /\ row.state \in States
  BY DEF IInv, TypeOK, Row
<1>1. For' = For
  BY DEF For, Kept
<1>2. Fresh'
  BY <1>0 DEF IInv, Fresh, Kept, States
<1>3. Frontier'
  BY DEF IInv, Frontier, Kept
<1>4. FloorsBehind' /\ WindowRead'
  BY <1>1 DEF IInv, FloorsBehind, WindowRead, Kept
<1>5. RowsAboveFloor'
  BY DEF IInv, RowsAboveFloor, Kept
<1>6. StillMonitored'
  BY DEF IInv, StillMonitored, Kept, Watch, TypeOK
<1>7. Owed'
  <2> SUFFICES ASSUME NEW s \in Sources \ Removable, ~(rows'[s] \subseteq baseline'[s]),
                      s \notin row'.adapter.pending
               PROVE  Reaching(s)'
    BY DEF Owed
  <2>1. rows' = rows /\ Rebuilt(row.adapter.pending)
    BY DEF Kept
  <2>2. ~(rows[s] \subseteq baseline[s]) /\ s \notin row.adapter.pending
    BY <2>1 DEF Rebuilt
  <2>3. Reaching(s)
    BY <2>2 DEF IInv, Owed
  <2>4. s \in Reached
    BY <1>0, <2>3 DEF Reaching, FirstStep, Reached
  <2>5. row'.state = row.state /\ row'.stale = row.stale
    <3>1. ~Rebuilt(row.adapter.pending \cup Reached)
      BY <2>1, <2>4 DEF Rebuilt
    <3> QED BY <2>3, <3>1 DEF Kept, Reaching
  <2> QED BY <1>1, <2>3, <2>5 DEF Reaching, FirstStep, Kept
<1> QED BY <1>2, <1>3, <1>4, <1>5, <1>6, <1>7 DEF IInv


\* What a step starts from: its plan, and the floors, the asked sources and the
\* pending ones it carries.
LEMMA StepStart ==
  ASSUME IInv, row.state = "READING", tick.busy, NEW p \in StepPlans
  PROVE  LET a == StepAdapter
             for == IF a.top THEN a.asked ELSE Sources
         IN  /\ p \in Progress /\ a \in Adapter
             /\ p.gaps \subseteq p.start..(p.next - 1)
             /\ p.read + Cardinality(p.gaps) = p.next - p.start
             /\ a.pending = row.adapter.pending
             /\ \A s \in Sources : a.floors[s] = row.adapter.floors[s]
             /\ FirstStep => p.gaps = {} /\ \A s \in for : a.floors[s] = End
             /\ ~FirstStep => p = row.plan /\ a = row.adapter /\ for = For
             /\ \A s \in Sources \ Removable :
                  a.floors[s] # End \/ s \in a.asked => s \in monitored /\ s \in tick.monitored
<1>0. /\ p \in Progress /\ StepAdapter \in Adapter
      /\ row.adapter \in Adapter /\ row.blank \in BOOLEAN /\ row.stale \in BOOLEAN
      /\ tick.monitored \subseteq Sources
  BY StepTypes DEF IInv, TypeOK, Row
<1>1. /\ p.gaps \subseteq p.start..(p.next - 1)
      /\ p.read + Cardinality(p.gaps) = p.next - p.start
      /\ FirstStep => p.gaps = {}
  <2>1. CASE FirstStep
    <3>1. PICK start \in Starts : p = NewProgress(start)
      BY <2>1 DEF StepPlans
    <3>2. start \in Int
      BY HistoryAssumption, PlannerAssumption DEF Buckets
    <3> QED BY <3>1, <3>2, FS_EmptySet DEF NewProgress
  <2>2. CASE ~FirstStep
    BY <2>2 DEF IInv, Frontier, StepPlans
  <2> QED BY <2>1, <2>2
<1>2. CASE row.blank
  <2>1. FirstStep /\ row.adapter = NewAdapter /\ StepAdapter = NewAdapter
    BY <1>2 DEF IInv, Fresh, FirstStep, StepAdapter
  <2>2. /\ ~StepAdapter.top /\ StepAdapter.asked = {}
        /\ \A s \in Sources : StepAdapter.floors[s] = End
    BY <2>1 DEF NewAdapter
  <2> QED BY <1>0, <1>1, <2>1, <2>2
<1>3. CASE ~row.blank /\ row.stale
  <2>1. /\ FirstStep
        /\ StepAdapter = [row.adapter EXCEPT !.top = TRUE,
                            !.asked = {s \in tick.monitored : row.adapter.floors[s] = End}]
    BY <1>3 DEF FirstStep, StepAdapter
  <2>2. /\ StepAdapter.top
        /\ StepAdapter.asked = {s \in tick.monitored : row.adapter.floors[s] = End}
        /\ StepAdapter.floors = row.adapter.floors
        /\ StepAdapter.pending = row.adapter.pending
    BY <1>0, <2>1 DEF Adapter
  <2>3. \A s \in Sources \ Removable :
          StepAdapter.floors[s] # End \/ s \in StepAdapter.asked =>
            s \in monitored /\ s \in tick.monitored
    BY <2>2 DEF IInv, StillMonitored
  <2> QED BY <1>0, <1>1, <2>1, <2>2, <2>3
<1>4. CASE ~row.blank /\ ~row.stale
  <2>1. ~FirstStep /\ p = row.plan /\ StepAdapter = row.adapter
    BY <1>4 DEF FirstStep, StepAdapter, StepPlans
  <2>2. \A s \in Sources \ Removable :
          row.adapter.floors[s] # End \/ s \in row.adapter.asked =>
            s \in monitored /\ s \in tick.monitored
    BY DEF IInv, StillMonitored
  <2> QED BY <1>0, <1>1, <2>1, <2>2 DEF For
<1> QED BY <1>2, <1>3, <1>4

LEMMA FloorOfBounds ==
  \A start \in Buckets, first \in 0..End :
    FloorOf(start, first) \in Int /\ FloorOf(start, first) >= first + Margin
BY HistoryAssumption, PlannerAssumption DEF FloorOf, Most, Buckets

\* A step of a reading keeps the invariant.
LEMMA StepInv ==
  ASSUME IInv, TypeOK', NEW p \in StepPlans, NEW edge \in Int, StepDone(p, edge)
  PROVE  IInv'
<1> DEFINE a == StepAdapter
           for == IF a.top THEN a.asked ELSE Sources
           floors == row'.adapter.floors
           read == p.next..(edge - 1)
<1>1. row.state = "READING" /\ tick.busy /\ Watch
  BY DEF StepDone
<1>2. /\ p \in Progress /\ a \in Adapter
      /\ p.gaps \subseteq p.start..(p.next - 1)
      /\ p.read + Cardinality(p.gaps) = p.next - p.start
      /\ a.pending = row.adapter.pending
      /\ \A s \in Sources : a.floors[s] = row.adapter.floors[s]
      /\ FirstStep => p.gaps = {} /\ \A s \in for : a.floors[s] = End
      /\ ~FirstStep => p = row.plan /\ a = row.adapter /\ for = For
      /\ \A s \in Sources \ Removable :
           a.floors[s] # End \/ s \in a.asked => s \in monitored /\ s \in tick.monitored
  BY <1>1, StepStart
<1>3. /\ edge \in p.next..End
      /\ ~row'.blank /\ ~row'.stale
      /\ row'.adapter.top = a.top /\ row'.adapter.asked = a.asked
      /\ row'.plan.start = p.start
      /\ row'.plan.read = p.read + (edge - p.next)
      /\ \/ row'.plan.next = edge /\ row'.plan.gaps = p.gaps
         \/ edge < End /\ row'.plan.next = edge + 1 /\ row'.plan.gaps = p.gaps \cup {edge}
      /\ row'.state \in {"READING"} \cup Final
  BY DEF StepDone
<1>4. \A s \in Sources :
        \/ floors[s] = a.floors[s]
        \/ s \in Searched(a) /\ floors[s] \in read /\ floors[s] < a.floors[s]
  BY DEF StepDone
<1>5. \A s \in Sources :
        IF s \in Searched(a) /\ floors[s] # End
        THEN rows'[s] = rows[s] \cup {b \in read : b >= FloorOf(p.start, floors[s])}
        ELSE rows'[s] = rows[s]
  BY DEF StepDone
<1>6. /\ Rebuilt(a.pending)
      /\ row'.state # "READING" =>
           \A s \in Sources \ Removable :
             s \in RebuildKeys(a) /\ floors[s] # End =>
               s \in row'.adapter.pending \/ baseline'[s] = rows'[s]
  BY DEF StepDone
<1>7. /\ For' = for /\ Searched(a) \subseteq for /\ Searched(a) \subseteq tick.monitored
      /\ for \subseteq Sources /\ tick.monitored \subseteq Sources
  BY <1>2, <1>3 DEF For, Searched, IInv, TypeOK, Adapter
<1>8. /\ p.next \in 0..End /\ p.start \in Buckets /\ p.start \in Nat /\ edge \in 0..End /\ End \in Nat /\ Margin \in Nat
      /\ \A s \in Sources : a.floors[s] \in 0..End /\ floors[s] \in 0..End
      /\ \A s \in Sources : rows[s] \subseteq Buckets
  BY <1>2, <1>3, PlannerAssumption, HistoryAssumption
     DEF Progress, Adapter, IInv, TypeOK, Row, Buckets
<1> HIDE DEF a, for, floors
<1>gaps. IsFiniteSet(p.gaps) /\ Cardinality(p.gaps) \in Nat
  <2>1. IsFiniteSet(p.start..(p.next - 1))
    <3>1. p.start \in Int /\ p.next - 1 \in Int
      BY <1>8
    <3> QED BY <3>1, FS_Interval
  <2>2. p.gaps \in SUBSET (p.start..(p.next - 1))
    BY <1>2
  <2>3. IsFiniteSet(p.gaps)
    BY <2>1, <2>2, FS_Subset
  <2> QED BY <2>3, FS_CardinalityType
\* Among the sources it is for, a floor that was there before belongs to a
\* reading that had stepped.
<1>9. ASSUME NEW s \in for, a.floors[s] # End
      PROVE  ~FirstStep /\ s \in For /\ row.adapter.floors[s] # End /\ a.floors[s] < p.next
  <2>1. ~FirstStep /\ s \in For /\ row.adapter.floors[s] # End
    BY <1>2, <1>7, <1>9
  <2> QED BY <1>2, <1>7, <2>1 DEF IInv, FloorsBehind
<1>10. Fresh'
  BY <1>3 DEF Fresh, Final
<1>11. Frontier'
  <2>0. p.start <= p.next
    BY <1>2, <1>8, <1>gaps DEF Progress
  <2>1. CASE row'.plan.next = edge /\ row'.plan.gaps = p.gaps
    <3>1. p.read \in Nat /\ p.read + (edge - p.next) + Cardinality(p.gaps) = edge - p.start
      <4>1. p.read \in Nat
        BY <1>2 DEF Progress
      <4> QED BY <1>2, <1>8, <4>1, <1>gaps
    <3> QED BY <1>2, <1>3, <1>8, <2>1, <3>1 DEF Frontier
  <2>2. CASE edge < End /\ row'.plan.next = edge + 1 /\ row'.plan.gaps = p.gaps \cup {edge}
    <3>1. IsFiniteSet(p.gaps) /\ edge \notin p.gaps
      BY <1>2, <1>3, <1>8, <1>gaps
    <3>2. Cardinality(p.gaps \cup {edge}) = Cardinality(p.gaps) + 1
          /\ Cardinality(p.gaps) \in Nat
      BY <3>1, FS_AddElement, FS_CardinalityType
    <3>3. p.read \in Nat
      BY <1>2 DEF Progress
    <3>4. p.read + (edge - p.next) + Cardinality(p.gaps \cup {edge}) = (edge + 1) - p.start
      BY <1>2, <1>8, <3>2, <3>3
    <3>5. p.gaps \cup {edge} \subseteq p.start..((edge + 1) - 1)
      BY <2>0, <1>2, <1>3, <1>8
    <3>6. row'.plan.gaps \subseteq row'.plan.start..(row'.plan.next - 1)
      BY <1>3, <2>2, <3>5
    <3>7. row'.plan.read + Cardinality(row'.plan.gaps) = row'.plan.next - row'.plan.start
      BY <1>3, <2>2, <3>4
    <3> QED BY <3>6, <3>7 DEF Frontier
  <2> QED BY <1>3, <2>1, <2>2
<1>12. FloorsBehind'
  <2> SUFFICES ASSUME NEW s \in for, floors[s] # End
               PROVE  floors[s] < row'.plan.next
    BY <1>7 DEF FloorsBehind, floors
  <2>1. edge <= row'.plan.next
    BY <1>3, <1>8
  <2>2. CASE floors[s] = a.floors[s]
    BY <1>3, <1>7, <1>8, <1>9, <2>1, <2>2
  <2>3. CASE floors[s] \in read
    BY <1>3, <1>8, <2>1, <2>3
  <2> QED BY <1>4, <1>7, <2>2, <2>3
<1>13. RowsAboveFloor'
  <2> SUFFICES ASSUME NEW s \in Sources, NEW b \in rows'[s]
               PROVE  floors[s] # End /\ b >= floors[s] + Margin
    BY DEF RowsAboveFloor, floors
  <2>1. CASE b \in rows[s]
    <3>1. a.floors[s] # End /\ b >= a.floors[s] + Margin
      BY <1>2, <2>1 DEF IInv, RowsAboveFloor
    <3>2. floors[s] <= a.floors[s] /\ floors[s] # End
      BY <1>3, <1>4, <1>8, <3>1
    <3>3. b \in Nat
      BY <1>8, <2>1 DEF Buckets
    <3> QED BY <1>8, <3>1, <3>2, <3>3
  <2>2. CASE b \notin rows[s]
    <3>1. b \in read /\ floors[s] # End /\ b >= FloorOf(p.start, floors[s])
      BY <1>5, <2>2
    <3> QED BY <1>8, <3>1, FloorOfBounds
  <2> QED BY <2>1, <2>2
<1>14. StillMonitored'
  <2> SUFFICES ASSUME NEW s \in Sources \ Removable
               PROVE  /\ floors[s] # End \/ s \in a.asked =>
                           s \in monitored' /\ (tick'.busy => s \in tick'.monitored)
                      /\ tick'.busy /\ s \in tick'.monitored => s \in monitored'
    BY <1>3 DEF StillMonitored, floors
  <2>1. s \in tick.monitored => s \in monitored
    BY <1>1 DEF IInv, StillMonitored
  <2>2. floors[s] # End \/ s \in a.asked => s \in monitored /\ s \in tick.monitored
    BY <1>2, <1>4, <1>7, <2>1
  <2> QED BY <1>1, <2>1, <2>2 DEF Watch
<1>15. WindowRead'
  <2> SUFFICES ASSUME NEW s \in for \ Removable, floors[s] # End,
                      NEW b \in 0..(row'.plan.next - 1), b >= FloorOf(p.start, floors[s]),
                      b \notin row'.plan.gaps
               PROVE  b \in rows'[s]
    BY <1>3, <1>7 DEF WindowRead, floors
  <2>1. s \in Sources /\ b \in Int /\ b >= floors[s] /\ b < edge
    <3>1. s \in Sources
      BY <1>7
    <3>2. b < edge
      BY <1>3, <1>8
    <3> QED BY <1>8, <3>1, <3>2, FloorOfBounds
  <2>2. s \in Searched(a)
    <3>1. CASE a.floors[s] # End
      BY <1>2, <2>1, <3>1 DEF for, Searched
    <3> QED BY <1>4, <2>1, <3>1
  <2>3. CASE b >= p.next
    BY <1>5, <1>8, <2>1, <2>2, <2>3
  <2>4. CASE b < p.next
    <3>1. floors[s] = a.floors[s]
      BY <1>4, <1>8, <2>1, <2>4
    <3>2. p = row.plan /\ s \in For /\ row.adapter.floors[s] = floors[s]
      BY <1>2, <1>9, <2>1, <3>1
    <3>3. b \in 0..(row.plan.next - 1) /\ b \notin row.plan.gaps
      BY <1>3, <1>8, <2>4, <3>2
    <3>4. b \in rows[s]
      BY <3>2, <3>3 DEF IInv, WindowRead
    <3> QED BY <1>5, <2>1, <3>4
  <2> QED BY <1>8, <2>1, <2>3, <2>4
<1>16. Owed'
  <2> SUFFICES ASSUME NEW s \in Sources \ Removable, ~(rows'[s] \subseteq baseline'[s]),
                      s \notin row'.adapter.pending
               PROVE  row'.state = "READING" /\ s \in for /\ floors[s] # End
    BY <1>3, <1>7 DEF Owed, Reaching, FirstStep, floors
  <2>1. s \in for /\ floors[s] # End
    <3>1. CASE s \in Searched(a) /\ floors[s] # End
      BY <1>7, <3>1
    <3>2. CASE ~(s \in Searched(a) /\ floors[s] # End)
      <4>1. rows'[s] = rows[s]
        BY <1>5, <3>2
      <4>2. ~(rows[s] \subseteq baseline[s]) /\ s \notin row.adapter.pending
        BY <1>2, <1>6, <4>1 DEF Rebuilt
      <4>3. Reaching(s)
        BY <4>2 DEF IInv, Owed
      <4>4. s \in for /\ a.floors[s] # End
        BY <1>2, <4>3 DEF Reaching
      <4> QED BY <1>4, <1>8, <4>4
    <3> QED BY <3>1, <3>2
  <2>2. s \in RebuildKeys(a)
    <3>1. a.floors[s] # End => s \in tick.monitored
      BY <1>2
    <3> QED BY <1>4, <1>7, <2>1, <3>1 DEF RebuildKeys, for
  <2> QED BY <1>6, <2>1, <2>2
<1> QED BY <1>10, <1>11, <1>12, <1>13, <1>14, <1>15, <1>16 DEF IInv

LEMMA NextInv == IInv /\ [Next]_vars => IInv'
<1> SUFFICES ASSUME IInv, [Next]_vars PROVE IInv'
  OBVIOUS
<1>1. TypeOK' /\ (Kept \/ \E p \in StepPlans, edge \in Int : StepDone(p, edge))
  BY NextShape DEF IInv
<1> QED BY <1>1, KeptInv, StepInv


LEMMA Invariance == Spec => []IInv
BY InitInv, NextInv, PTL DEF Spec

\* The variables of the reading have their types (history_backfill_scope rows,
\* log_source_metric rows, the decision).
THEOREM TypeOKHolds == Spec => []TypeOK
<1>1. IInv => TypeOK
  BY DEF IInv
<1> QED BY <1>1, Invariance, PTL

\* Every bucket behind the frontier was read once or is a recorded gap, whatever
\* the searches answer and whenever ticks die (settle_step).
THEOREM ReadOrGapHolds == Spec => []ReadOrGap
<1>1. IInv => ReadOrGap
  BY DEF IInv, Frontier, ReadOrGap
<1> QED BY <1>1, Invariance, PTL

\* No row lies before its source's proved floor (fold_step, _previous_reading).
THEOREM RowsAboveFloorHolds == Spec => []RowsAboveFloor
<1>1. IInv => RowsAboveFloor
  BY DEF IInv
<1> QED BY <1>1, Invariance, PTL

\* A reading leaves no hole between a source's floor and the frontier (fold_step).
THEOREM WindowReadHolds == Spec => []WindowRead
<1>1. IInv => WindowRead
  BY DEF IInv
<1> QED BY <1>1, Invariance, PTL

\* Once a reading is over, every source with rows its baseline has not seen is
\* listed for a rebuild (_finish_values, _with_pending, merge_pending).
THEOREM RebuildOwedHolds == Spec => []RebuildOwed
<1>1. IInv => RebuildOwed
  BY DEF IInv, Owed, Reaching, RebuildOwed
<1> QED BY <1>1, Invariance, PTL

-----------------------------------------------------------------------------
(* The refinement.                                                         *)

Reads == IF row.blank THEN {} ELSE For

\* A step that keeps the reading asks for one, gives it up, or changes nothing of
\* the abstract reading.
LEMMA KeptImplements ==
  ASSUME IInv, Kept
  PROVE  [Window!Advance]_(Window!readingVars)
<1>0. row.state \in States /\ row.blank \in BOOLEAN /\ row.stale \in BOOLEAN
  BY DEF IInv, TypeOK, Row
<1>1. /\ Reads' = Reads /\ row'.plan.next = row.plan.next
      /\ row'.plan.gaps = row.plan.gaps /\ rows' = rows
  BY DEF Kept, Reads, For
<1>2. row.state = "NOT_REQUESTED" => row.blank /\ ~row.stale
  BY DEF IInv, Fresh
<1>3. CASE row'.state = row.state /\ row'.stale = row.stale
  <2>1. Phase' = Phase
    BY <1>3 DEF Kept, Phase, FirstStep
  <2> QED BY <1>1, <2>1 DEF Window!readingVars, Reads
<1>4. CASE row.state # "READING" /\ row'.state = "READING" /\ row'.stale = ~row.blank
  <2>1. Phase \in {"idle", "complete", "short"} /\ Phase' = "starting"
    BY <1>0, <1>4 DEF Kept, Phase, FirstStep, States
  <2> QED BY <1>1, <2>1 DEF Window!Advance, Window!Ask, Reads
<1>5. CASE row.state = "NOT_REQUESTED" /\ row'.state = "WAITING"
  <2>1. Phase = "idle" /\ Phase' = "idle"
    BY <1>5 DEF Phase
  <2> QED BY <1>1, <2>1 DEF Window!readingVars, Reads
<1>6. CASE \/ row.state \in {"READING", "WAITING"} /\ row'.state = "PARTIAL"
           \/ row.state = "READING" /\ row'.state = "UNAVAILABLE"
  <2>1. Phase \in {"idle", "starting", "reading"} /\ Phase' = "short"
    BY <1>6 DEF Phase
  <2> QED BY <1>1, <2>1 DEF Window!Advance, Window!GiveUp, Reads
<1> QED BY <1>3, <1>4, <1>5, <1>6 DEF Kept

\* A step of a reading is a step of the abstract one.
LEMMA StepImplements ==
  ASSUME IInv, TypeOK', NEW p \in StepPlans, NEW edge \in Int, StepDone(p, edge)
  PROVE  Window!Step
<1> DEFINE a == StepAdapter
           for == IF a.top THEN a.asked ELSE Sources
           floors == row'.adapter.floors
           read == p.next..(edge - 1)
           next == row'.plan.next
           gaps == row'.plan.gaps
<1>1. row.state = "READING" /\ tick.busy
  BY DEF StepDone
<1>2. /\ p \in Progress /\ a \in Adapter
      /\ FirstStep => p.gaps = {}
      /\ ~FirstStep => p = row.plan /\ a = row.adapter /\ for = For
  BY <1>1, StepStart
<1>3. /\ edge \in p.next..End
      /\ ~row'.blank /\ ~row'.stale
      /\ row'.adapter.top = a.top /\ row'.adapter.asked = a.asked
      /\ \/ next = edge /\ gaps = p.gaps
         \/ edge < End /\ next = edge + 1 /\ gaps = p.gaps \cup {edge}
      /\ row'.state \in {"READING"} \cup Final
      /\ row'.state = "COMPLETE" =>
           (next = End /\ gaps = {}) \/ (a.top /\ Searched(a) = {})
  BY DEF StepDone
<1>4. \A s \in Sources :
        IF s \in Searched(a) /\ floors[s] # End
        THEN rows'[s] = rows[s] \cup {b \in read : b >= FloorOf(p.start, floors[s])}
        ELSE rows'[s] = rows[s]
  BY DEF StepDone
<1>5. /\ Reads' = for /\ Searched(a) \subseteq for /\ for \in SUBSET Sources
  <2>1. Reads' = for
    BY <1>3 DEF Reads, For
  <2>2. tick.monitored \subseteq Sources
    BY DEF IInv, TypeOK
  <2> HIDE DEF a
  <2> QED BY <1>2, <2>1, <2>2 DEF Searched, Adapter
<1>6. p.next \in 0..End /\ End \in Nat
  BY <1>2, PlannerAssumption DEF Progress
<1>7. a.top /\ Searched(a) = {} => for \subseteq Removable
  <2> SUFFICES ASSUME a.top, Searched(a) = {}, NEW s \in for, s \notin Removable
               PROVE  FALSE
    OBVIOUS
  <2>1. s \in Sources \ Removable /\ s \in a.asked
    BY <1>5
  <2>2. s \in tick.monitored
    BY <1>1, <2>1, StepStart
  <2> QED BY <2>1, <2>2 DEF Searched
<1>8. Phase' \in {"reading", "complete", "short"}
      /\ (Phase' = "complete" => row'.state = "COMPLETE")
  BY <1>3 DEF Phase, FirstStep, Final
<1>9. Phase = IF FirstStep THEN "starting" ELSE "reading"
  BY <1>1 DEF Phase
<1> HIDE DEF a, for, floors, next, gaps
<1>11. Window!Pass(p.next, p.gaps, for)
  <2>1. next \in p.next..End
    BY <1>3, <1>6
  <2>2. gaps = p.gaps \/ (next > p.next /\ gaps = p.gaps \cup {next - 1})
    BY <1>3, <1>6
  <2>3. read \subseteq (p.next..(next - 1)) \ (gaps \ p.gaps)
    BY <1>3, <1>6
  <2>4. ASSUME NEW s \in Sources
        PROVE  \E new \in SUBSET ((p.next..(next - 1)) \ (gaps \ p.gaps)) :
                 rows'[s] = rows[s] \cup (IF s \in for THEN new ELSE {})
    <3> DEFINE new == IF s \in Searched(a) /\ floors[s] # End
                      THEN {b \in read : b >= FloorOf(p.start, floors[s])} ELSE {}
    <3>1. new \in SUBSET ((p.next..(next - 1)) \ (gaps \ p.gaps))
      BY <2>3
    <3>2. rows'[s] = rows[s] \cup (IF s \in for THEN new ELSE {})
      BY <1>4, <1>5
    <3> HIDE DEF new
    <3> QED BY <3>1, <3>2
  <2> QED BY <1>5, <2>1, <2>2, <2>4 DEF Window!Pass, Reads, next, gaps
<1>12. \/ /\ Phase = "starting"
          /\ \E from \in 0..End, sources \in SUBSET Sources : Window!Pass(from, {}, sources)
       \/ Phase = "reading" /\ Window!Pass(row.plan.next, row.plan.gaps, Reads)
  <2>1. CASE FirstStep
    BY <1>2, <1>5, <1>6, <1>9, <1>11, <2>1
  <2>2. CASE ~FirstStep
    <3>1. Reads = for
      BY <1>2, <2>2 DEF Reads, FirstStep
    <3> QED BY <1>2, <1>9, <1>11, <2>2, <3>1
  <2> QED BY <2>1, <2>2
<1>13. Phase' = "complete" =>
         \/ row'.plan.next = End /\ row'.plan.gaps = {}
         \/ Reads' \subseteq Removable
  BY <1>3, <1>5, <1>7, <1>8 DEF next, gaps
<1> QED BY <1>8, <1>12, <1>13 DEF Window!Step, Reads

\* Every step of the collector is a step of the one-pass reading or changes
\* nothing of it (MetricCollector._history_phase against WindowReading).
THEOREM ImplementsHolds == Spec => Implements
<1>1. Init => Window!Initial
  <2> SUFFICES ASSUME Init PROVE Window!Initial
    OBVIOUS
  <2>1. row = NoRow /\ rows = [s \in Sources |-> {}]
    BY DEF Init
  <2>2. row.state = "NOT_REQUESTED" /\ row.blank /\ row.plan.next = 0 /\ row.plan.gaps = {}
    BY <2>1 DEF NoRow, NewProgress
  <2>3. Phase = "idle"
    BY <2>2 DEF Phase
  <2> QED BY <2>1, <2>2, <2>3 DEF Window!Initial
<1>2. IInv /\ [Next]_vars => [Window!Advance]_(Window!readingVars)
  <2> SUFFICES ASSUME IInv, [Next]_vars PROVE [Window!Advance]_(Window!readingVars)
    OBVIOUS
  <2>1. TypeOK' /\ (Kept \/ \E p \in StepPlans, edge \in Int : StepDone(p, edge))
    BY NextShape DEF IInv
  <2>2. CASE Kept
    BY <2>2, KeptImplements
  <2>3. CASE \E p \in StepPlans, edge \in Int : StepDone(p, edge)
    BY <2>1, <2>3, StepImplements DEF Window!Advance
  <2> QED BY <2>1, <2>2, <2>3
<1> QED BY <1>1, <1>2, Invariance, PTL DEF Spec, Implements, Window!Promise

=============================================================================
