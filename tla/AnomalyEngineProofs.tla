------------------------- MODULE AnomalyEngineProofs -------------------------
(***************************************************************************)
(* AnomalyEngine: no bucket is skipped, for any passes, verdicts,          *)
(* thresholds, operators and faults; and where passes do not overlap, no   *)
(* stale fault remains, the alert follows the incident and the incident is *)
(* what the verdicts have earned.                                          *)
(***************************************************************************)
EXTENDS AnomalyEngine, FiniteSetTheorems, WellFoundedInduction, TLAPS

FaultRecords == [attempts : Nat, closed : {"no", "resolved", "given_up"}]

\* The buckets that fault rows f close as not judged.
Given(f) == {b \in Buckets : f[b].closed = "given_up"}

\* The buckets that are settled, as committed.
Done == folded \cup Given(fault)

\* There is no hole in S.
Interval(S) == \A a, b \in S : a..b \subseteq S

\* A record has the fields of a pass, and its detector row the columns.
Shaped(w) == DOMAIN w = DOMAIN NoPass /\ DOMAIN w.det = Columns

\* The buckets that are settled as a pass sees them, when it has written rows.
Sees(w, own, D) == IF own THEN D \cup w.folded \cup Given(w.fault) ELSE D

\* The record w of a pass that holds the rows or not, beside the settled buckets D
\* and the fault rows f: it goes on right after a bucket that is settled for it, and
\* what it adds leaves no hole.
PassSound(w, own, D, f) ==
  LET S == Sees(w, own, D) IN
  /\ Shaped(w) /\ w.todo \in Seq(Buckets)
  /\ w.watermark = None => Len(w.todo) <= 1
  /\ w.watermark # None => w.watermark \in S /\ \A i \in 1..Len(w.todo) : w.todo[i] = w.watermark + i
  /\ w.det.last \in S \cup {0}
  /\ own => /\ w.pc = "ready"
            /\ w.fault \in [Buckets -> FaultRecords] /\ w.folded \subseteq Buckets
            /\ Given(f) \subseteq Given(w.fault)
            /\ Interval(S)
            /\ IF "watermark" \in w.dirty THEN w.watermark # None ELSE S = D
  /\ ~own => w.folded = {} /\ w.dirty = {}

Typed ==
  /\ bucket \in Seq([kind : Kinds, maintenance : BOOLEAN]) /\ Len(bucket) <= MaxBuckets
  /\ fault \in [Buckets -> FaultRecords] /\ folded \subseteq Buckets
  /\ DOMAIN det = Columns /\ lock \in Passes \cup {None}
  /\ DOMAIN pass = Passes

TablesSound ==
  /\ Interval(Done)
  /\ IF watermark = None THEN Done = {} ELSE watermark \in Done
  /\ det.last \in Done \cup {0}

PassesSound == \A p \in Passes : PassSound(pass[p], lock = p, Done, fault)

\* The inductive invariant.
IInv == Typed /\ TablesSound /\ PassesSound

-----------------------------------------------------------------------------
(* The judgement of a bucket.                                              *)

\* What the effects of a transition leave of a pass.
Same(r, w) ==
  /\ Shaped(r) /\ r.pc = w.pc /\ r.todo = w.todo /\ r.watermark = w.watermark
  /\ r.dirty = w.dirty /\ r.fault = w.fault /\ r.folded = w.folded /\ r.failing = w.failing
  /\ r.muted = w.muted /\ r.det.last = w.det.last

LEMMA SameRaise ==
  ASSUME NEW w, Shaped(w), NEW b, NEW notify
  PROVE  Same(Raise(w, b, notify), w) /\ Raise(w, b, notify).det = w.det
BY DEF Same, Shaped, Raise, NoPass, Columns

LEMMA SameMove ==
  ASSUME NEW w, Shaped(w), NEW s
  PROVE  Same(MoveIncident(w, s), w) /\ MoveIncident(w, s).det = w.det
         /\ MoveIncident(w, s).alert = w.alert /\ MoveIncident(w, s).touched = w.touched
BY DEF Same, Shaped, MoveIncident, NoPass, Columns

LEMMA SameResolve ==
  ASSUME NEW w, Shaped(w)
  PROVE  Same(ResolveIncident(w), w)
<1> DEFINE m == MoveIncident(w, "RESOLVED")
           x == m.touched \/ w.alert.on
<1>1. Same(m, w)
  BY SameMove
<1> DEFINE u == [m EXCEPT !.det.open = FALSE, !.det.active = None]
<1>2. ResolveIncident(w) =
        [m EXCEPT !.det.open = FALSE, !.det.active = None, !.alert.on = FALSE, !.touched = x]
  BY Zenon DEF ResolveIncident
<1> HIDE DEF m, x
<1>3. ResolveIncident(w) = [u EXCEPT !.alert.on = FALSE, !.touched = x]
  BY <1>2
<1>4. Same(u, w)
  BY <1>1 DEF Same, Shaped, NoPass, Columns
<1> HIDE DEF u
<1> QED BY <1>3, <1>4 DEF Same, Shaped, NoPass

LEMMA SameTransitive ==
  ASSUME NEW r, NEW v, NEW w, Same(r, v), Same(v, w)
  PROVE  Same(r, w)
BY DEF Same

LEMMA SameTransition ==
  ASSUME NEW w, Shaped(w), NEW b, NEW previous
  PROVE  Same(Transition(w, b, previous), w)
<1> DEFINE r == Transition(w, b, previous)
           target == w.det.state
<1>1. CASE target = previous
  <2>1. r = Raise(w, b, FALSE) \/ r = w
    BY <1>1 DEF Transition
  <2>2. Same(w, w)
    BY DEF Same
  <2>3. Same(Raise(w, b, FALSE), w)
    BY SameRaise
  <2> QED BY <2>1, <2>2, <2>3, Zenon
<1>2. CASE target # previous /\ target = "CANDIDATE"
  <2>1. r = [w EXCEPT !.incident[NextId(w)] = "CANDIDATE", !.det.active = NextId(w)]
    BY <1>2 DEF Transition
  <2> QED BY <2>1 DEF Same, Shaped, NoPass, Columns
<1>3. CASE target # previous /\ target = "OPEN"
  <2> DEFINE v == [w EXCEPT !.incident[LiveIncident(w)] = "OPEN",
                            !.det.active = LiveIncident(w), !.det.open = TRUE]
  <2>1. r = Raise(v, b, TRUE)
    BY <1>3 DEF Transition
  <2>2. Same(v, w)
    BY DEF Same, Shaped, NoPass, Columns
  <2>3. Shaped(v)
    BY <2>2 DEF Same
  <2> HIDE DEF v
  <2>4. Same(Raise(v, b, TRUE), v)
    BY <2>3, SameRaise
  <2> QED BY <2>1, <2>2, <2>4, SameTransitive
<1>4. CASE target # previous /\ target = "RECOVERING"
  <2>1. r = MoveIncident(w, "RECOVERING")
    BY <1>4 DEF Transition
  <2> QED BY <2>1, SameMove
<1>5. CASE target # previous /\ target = "RESOLVED"
  <2>1. r = ResolveIncident(w)
    BY <1>5 DEF Transition
  <2> QED BY <2>1, SameResolve
<1>6. CASE target # previous /\ target = "SUPPRESSED"
  <2> DEFINE m == MoveIncident(w, "SUPPRESSED")
  <2>1. r = [m EXCEPT !.det.open = FALSE]
    BY <1>6 DEF Transition
  <2>2. Same(m, w)
    BY SameMove
  <2> HIDE DEF m
  <2> QED BY <2>1, <2>2 DEF Same, Shaped, NoPass, Columns
<1>7. CASE target # previous
           /\ target \notin {"CANDIDATE", "OPEN", "RECOVERING", "RESOLVED", "SUPPRESSED"}
  <2> DEFINE m == IF previous = "CANDIDATE" THEN MoveIncident(w, target) ELSE w
  <2>1. r = [m EXCEPT !.det.open = FALSE, !.det.active = None]
    BY <1>7 DEF Transition
  <2>2. Same(m, w)
    BY SameMove DEF Same
  <2> HIDE DEF m
  <2> QED BY <2>1, <2>2 DEF Same, Shaped, NoPass, Columns
<1> QED BY <1>1, <1>2, <1>3, <1>4, <1>5, <1>6, <1>7

\* The detector row with the counters of a verdict.
LEMMA AdvanceKeeps ==
  ASSUME NEW d, DOMAIN d = Columns, NEW s
  PROVE  /\ DOMAIN Advance(d, s) = Columns /\ Advance(d, s).state = d.state
         /\ Advance(d, s).open = d.open /\ Advance(d, s).active = d.active
BY DEF Advance, Columns

\* _apply_hysteresis folds a bucket that is later than the last one folded.
LEMMA ApplyFacts ==
  ASSUME NEW w, Shaped(w), NEW n
  PROVE  LET r == Apply(w, n) IN
         /\ w.det.last >= n => r = w
         /\ ~(w.det.last >= n) =>
              /\ Shaped(r) /\ r.pc = w.pc /\ r.todo = w.todo /\ r.watermark = w.watermark
              /\ r.dirty = w.dirty /\ r.fault = w.fault /\ r.failing = w.failing
              /\ r.folded = w.folded \cup {n} /\ r.det.last = n
<1>1. ASSUME ~(w.det.last >= n)
      PROVE  LET r == Apply(w, n) IN
              /\ Shaped(r) /\ r.pc = w.pc /\ r.todo = w.todo /\ r.watermark = w.watermark
              /\ r.dirty = w.dirty /\ r.fault = w.fault /\ r.failing = w.failing
              /\ r.folded = w.folded \cup {n} /\ r.det.last = n
  <2> DEFINE a == Advance(w.det, Signal(bucket[n]))
             d == [a EXCEPT !.last = n]
             e == [d EXCEPT !.state = NextState(d, bucket[n])]
             v == [w EXCEPT !.det = e, !.folded = @ \cup {n}]
  <2>1. Apply(w, n) = Transition(v, bucket[n], w.det.state)
    BY <1>1 DEF Apply
  <2>2. DOMAIN a = Columns
    BY AdvanceKeeps DEF Shaped
  <2> HIDE DEF a
  <2>3. DOMAIN d = Columns /\ d.last = n
    BY <2>2 DEF Columns
  <2> HIDE DEF d
  <2>4. DOMAIN e = Columns /\ e.last = n
    BY <2>3 DEF Columns
  <2> HIDE DEF e
  <2>5. /\ Shaped(v) /\ v.pc = w.pc /\ v.todo = w.todo /\ v.watermark = w.watermark
        /\ v.dirty = w.dirty /\ v.fault = w.fault /\ v.failing = w.failing
        /\ v.folded = w.folded \cup {n} /\ v.det.last = n
    BY <2>4 DEF Shaped, NoPass
  <2> HIDE DEF v
  <2>6. Same(Transition(v, bucket[n], w.det.state), v)
    BY <2>5, SameTransition
  <2> QED BY <2>1, <2>5, <2>6 DEF Same
<1>2. w.det.last >= n => Apply(w, n) = w
  BY DEF Apply
<1> QED BY <1>1, <1>2

LEMMA ClearFaultsFacts ==
  ASSUME NEW w, Shaped(w), w.fault \in [Buckets -> FaultRecords]
  PROVE  LET r == ClearFaults(w) IN
         /\ Shaped(r) /\ r.pc = w.pc /\ r.todo = w.todo /\ r.watermark = w.watermark
         /\ r.dirty = w.dirty /\ r.folded = w.folded /\ r.det = w.det
         /\ r.fault \in [Buckets -> FaultRecords] /\ Given(r.fault) = Given(w.fault)
<1>1. CASE ~w.failing
  BY <1>1 DEF ClearFaults
<1>2. CASE w.failing
  <2> DEFINE f == [b \in Buckets |-> IF b \in OpenFaults(w.fault)
                     THEN [w.fault[b] EXCEPT !.closed = "resolved"] ELSE w.fault[b]]
  <2>1. ClearFaults(w) = [w EXCEPT !.failing = FALSE, !.fault = f]
    BY <1>2 DEF ClearFaults
  <2>2. f \in [Buckets -> FaultRecords]
    BY DEF FaultRecords
  <2>3. \A b \in Buckets : f[b].closed = "given_up" <=> w.fault[b].closed = "given_up"
    BY DEF FaultRecords, OpenFaults
  <2> HIDE DEF f
  <2>4. Given(f) = Given(w.fault)
    BY <2>3 DEF Given
  <2> QED BY <2>1, <2>2, <2>4 DEF Shaped, NoPass
<1> QED BY <1>1, <1>2

-----------------------------------------------------------------------------
(* The invariant.                                                          *)

LEMMA Consts ==
  /\ MaxBuckets \in Nat /\ MaxPerPass \in Nat /\ MaxPerPass > 0 /\ BucketAttempts \in Nat
  /\ None \notin Nat /\ None \notin Passes /\ Buckets \subseteq Nat /\ 0 \notin Buckets
BY EngineAssumption DEF Buckets

LEMMA NoPassSound == ASSUME NEW D, NEW f PROVE PassSound(NoPass, FALSE, D, f)
<1>1. Shaped(NoPass) /\ NoPass.todo = <<>> /\ NoPass.watermark = None /\ NoPass.det.last = 0
      /\ NoPass.folded = {} /\ NoPass.dirty = {}
  BY DEF Shaped, NoPass, NewDetector, Columns
<1> QED BY <1>1 DEF PassSound, Sees

\* A pass that has written nothing is not disturbed by what others settle.
LEMMA PassSoundMonotone ==
  ASSUME NEW w, NEW D, NEW E, NEW f, NEW g, D \subseteq E, PassSound(w, FALSE, D, f)
  PROVE  PassSound(w, FALSE, E, g)
BY DEF PassSound, Sees

\* What a step of one pass that commits nothing leaves to show.
LEMMA QuietInv ==
  ASSUME IInv, NEW p \in Passes, NEW new,
         pass' = [pass EXCEPT ![p] = new],
         UNCHANGED <<bucket, tableVars>>,
         lock' \in Passes \cup {None},
         \A q \in Passes \ {p} : (lock' = q) <=> (lock = q),
         PassSound(new, lock' = p, Done, fault)
  PROVE  IInv'
<1>1. UNCHANGED <<bucket, watermark, det, incident, fault, alert, folded>>
  BY DEF tableVars
<1>2. Typed /\ DOMAIN pass = Passes
  BY DEF IInv, Typed
<1>3. DOMAIN pass' = Passes /\ pass'[p] = new /\ \A q \in Passes \ {p} : pass'[q] = pass[q]
  BY <1>2
<1>4. Typed'
  BY <1>1, <1>2, <1>3 DEF Typed
<1>5. Done' = Done /\ fault' = fault
  BY <1>1 DEF Done, Given
<1>6. TablesSound'
  BY <1>1, <1>5 DEF IInv, TablesSound
<1>7. PassesSound'
  <2> SUFFICES ASSUME NEW q \in Passes PROVE PassSound(pass'[q], lock' = q, Done, fault)
    BY <1>5 DEF PassesSound
  <2>1. CASE q = p
    BY <1>3, <2>1
  <2>2. CASE q # p
    <3>1. PassSound(pass[q], lock = q, Done, fault) /\ pass'[q] = pass[q]
      BY <1>3, <2>2 DEF IInv, PassesSound
    <3>2. (lock' = q) = (lock = q)
      BY <2>2
    <3> QED BY <3>1, <3>2, Zenon
  <2> QED BY <2>1, <2>2
<1> QED BY <1>4, <1>6, <1>7 DEF IInv

LEMMA InitInv == Init => IInv
<1> SUFFICES ASSUME Init PROVE IInv
  OBVIOUS
<1>1. /\ \A b \in Buckets : fault[b] = NoFault /\ fault[b].closed = "no"
      /\ fault \in [Buckets -> FaultRecords]
  BY DEF Init, NoFault, FaultRecords
<1>2. Done = {}
  BY <1>1 DEF Init, Done, Given
<1>3. det.last = 0 /\ DOMAIN det = Columns
  BY DEF Init, NewDetector, Columns
<1>4. Typed
  BY <1>1, <1>3, Consts DEF Init, Typed
<1>5. TablesSound
  BY <1>2, <1>3 DEF Init, TablesSound, Interval
<1>6. PassesSound
  <2>1. \A p \in Passes : pass[p] = NoPass /\ (lock = p) = FALSE
    BY Consts DEF Init
  <2> QED BY <2>1, NoPassSound, Zenon DEF PassesSound
<1> QED BY <1>4, <1>5, <1>6 DEF IInv

LEMMA ArriveInv == ASSUME IInv, Arrive PROVE IInv'
<1>1. UNCHANGED <<watermark, det, incident, fault, alert, folded, lock, pass>>
  BY DEF Arrive, tableVars
<1>2. /\ bucket' \in Seq([kind : Kinds, maintenance : BOOLEAN])
      /\ Len(bucket') <= MaxBuckets
  <2>1. PICK k \in Kinds, m \in Maintenance :
          bucket' = Append(bucket, [kind |-> k, maintenance |-> m])
    BY DEF Arrive
  <2>2. [kind |-> k, maintenance |-> m] \in [kind : Kinds, maintenance : BOOLEAN]
    BY EngineAssumption
  <2>3. Len(bucket) < MaxBuckets /\ bucket \in Seq([kind : Kinds, maintenance : BOOLEAN])
    BY DEF Arrive, IInv, Typed
  <2> QED BY <2>1, <2>2, <2>3, Consts
<1>3. Typed'
  BY <1>1, <1>2 DEF IInv, Typed
<1>4. Done' = Done
  BY <1>1 DEF Done, Given
<1>5. TablesSound' /\ PassesSound'
  BY <1>1, <1>4 DEF IInv, TablesSound, PassesSound
<1> QED BY <1>3, <1>5 DEF IInv

\* The settled buckets are buckets.
LEMMA DoneBuckets == ASSUME IInv PROVE Done \subseteq Buckets
BY DEF IInv, Typed, Done, Given

\* The pending buckets follow the watermark.
LEMMA PendingFacts ==
  ASSUME IInv
  PROVE  /\ Pending \in Seq(Buckets) /\ \A i \in 1..Len(Pending) : Pending[i] <= Len(bucket)
         /\ watermark = None => Len(Pending) <= 1
         /\ watermark # None => watermark \in Done
                                /\ \A i \in 1..Len(Pending) : Pending[i] = watermark + i
<1>1. Len(bucket) \in Nat /\ Len(bucket) <= MaxBuckets
      /\ (bucket = <<>> \/ Len(bucket) \in Buckets)
  BY Consts DEF IInv, Typed, Buckets
<1>2. CASE watermark = None
  <2>1. Pending = <<>> \/ (Pending = <<Len(bucket)>> /\ Len(bucket) \in Buckets)
    BY <1>1, <1>2 DEF Pending
  <2>2. CASE Pending = <<>>
    BY <1>2, <2>2
  <2>3. CASE Pending = <<Len(bucket)>> /\ Len(bucket) \in Buckets
    <3>1. Pending \in Seq(Buckets) /\ Len(Pending) = 1 /\ Pending[1] = Len(bucket)
      BY <2>3
    <3>2. \A i \in 1..Len(Pending) : i = 1
      BY <3>1
    <3> QED BY <1>1, <1>2, <3>1, <3>2
  <2> QED BY <2>1, <2>2, <2>3
<1>3. CASE watermark # None
  <2>1. watermark \in Done /\ watermark \in Buckets
    BY <1>3, DoneBuckets DEF IInv, TablesSound
  <2> DEFINE n == IF Len(bucket) - watermark < MaxPerPass
                  THEN Len(bucket) - watermark ELSE MaxPerPass
             z == IF n < 0 THEN 0 ELSE n
  <2>2. n \in Int /\ n <= Len(bucket) - watermark
    BY <1>1, <2>1, Consts
  <2>3. Pending = [i \in 1..n |-> watermark + i]
    BY <1>3 DEF Pending
  <2> HIDE DEF n
  <2>4. z \in Nat /\ 1..z = 1..n
    BY <2>2
  <2>5. \A i \in 1..z : watermark + i \in Buckets /\ watermark + i <= Len(bucket)
    BY <1>1, <2>1, <2>2, <2>4, Consts DEF Buckets
  <2> HIDE DEF z
  <2>6. Pending \in [1..z -> Buckets]
    BY <2>3, <2>4, <2>5
  <2>7. Pending \in Seq(Buckets) /\ Len(Pending) = z
    BY <2>4, <2>6
  <2>8. \A i \in 1..Len(Pending) : Pending[i] = watermark + i
    BY <2>3, <2>4, <2>7
  <2>9. \A i \in 1..Len(Pending) : Pending[i] <= Len(bucket)
    BY <2>5, <2>7, <2>8
  <2> QED BY <1>3, <2>1, <2>7, <2>8, <2>9
<1> QED BY <1>2, <1>3

LEMMA LoadInv == ASSUME IInv, NEW p \in Passes, Load(p) PROVE IInv'
<1> DEFINE new == [NoPass EXCEPT !.pc = "loaded", !.todo = Pending, !.watermark = watermark,
                                 !.muted = recordOnly, !.failing = OpenFaults(fault) # {}]
<1>1. pass' = [pass EXCEPT ![p] = new] /\ UNCHANGED <<bucket, tableVars, lock>>
  BY DEF Load
<1>2. PassSound(pass[p], lock = p, Done, fault) /\ lock \in Passes \cup {None}
  BY DEF IInv, PassesSound, Typed
<1>3. lock # p
  BY <1>2 DEF Load, PassSound
<1>4. /\ Shaped(new) /\ new.todo = Pending /\ new.watermark = watermark /\ new.det.last = 0
      /\ new.folded = {} /\ new.dirty = {}
  BY DEF Shaped, NoPass, NewDetector, Columns
<1> HIDE DEF new
<1>5. PassSound(new, FALSE, Done, fault)
  BY <1>4, PendingFacts DEF PassSound, Sees
<1>6. PassSound(new, lock' = p, Done, fault)
  <2>1. (lock' = p) = FALSE
    BY <1>1, <1>3
  <2> QED BY <1>5, <2>1, Zenon
<1> QED BY <1>1, <1>2, <1>6, QuietInv

LEMMA ReadStateInv == ASSUME IInv, NEW p \in Passes, ReadState(p) PROVE IInv'
<1> DEFINE new == [pass[p] EXCEPT !.pc = "ready", !.det = det]
<1>1. pass' = [pass EXCEPT ![p] = new] /\ UNCHANGED <<bucket, tableVars, lock>>
  BY DEF ReadState, IInv, Typed
<1>2. /\ PassSound(pass[p], lock = p, Done, fault) /\ lock \in Passes \cup {None}
      /\ DOMAIN det = Columns /\ det.last \in Done \cup {0}
  BY DEF IInv, PassesSound, Typed, TablesSound
<1>3. lock # p
  BY <1>2 DEF ReadState, PassSound
<1>4. PassSound(pass[p], FALSE, Done, fault)
  <2>1. (lock = p) = FALSE
    BY <1>3
  <2> QED BY <1>2, <2>1, Zenon
<1>5. /\ Shaped(new) /\ new.todo = pass[p].todo /\ new.watermark = pass[p].watermark
      /\ new.det = det /\ new.folded = pass[p].folded /\ new.dirty = pass[p].dirty
  BY <1>2, <1>4 DEF PassSound, Shaped, NoPass, Columns
<1> HIDE DEF new
<1>6. PassSound(new, FALSE, Done, fault)
  BY <1>2, <1>4, <1>5 DEF PassSound, Sees
<1>7. PassSound(new, lock' = p, Done, fault)
  <2>1. (lock' = p) = FALSE
    BY <1>1, <1>3
  <2> QED BY <1>6, <2>1, Zenon
<1> QED BY <1>1, <1>2, <1>7, QuietInv

\* A pass that may write sees the rows as its own.
LEMMA RowsFacts ==
  ASSUME IInv, NEW p \in Passes, CanWrite(p)
  PROVE  LET r == Rows(p) IN
         /\ PassSound(r, TRUE, Done, fault) /\ r.pc = "ready"
         /\ r.todo = pass[p].todo /\ r.watermark = pass[p].watermark
         /\ r.det = pass[p].det /\ r.dirty = pass[p].dirty
<1> DEFINE w == pass[p]
           r == Rows(p)
<1>1. /\ PassSound(w, lock = p, Done, fault) /\ TablesSound /\ fault \in [Buckets -> FaultRecords]
      /\ lock \in {None, p} /\ w.pc = "ready"
  BY DEF IInv, PassesSound, Typed, CanWrite
<1>2. Shaped(w)
  BY <1>1 DEF PassSound
<1>3. /\ Shaped(r) /\ r.pc = w.pc /\ r.todo = w.todo /\ r.watermark = w.watermark
      /\ r.det = w.det /\ r.dirty = w.dirty /\ r.folded = w.folded
      /\ r.fault = IF lock = p THEN w.fault ELSE fault
  BY <1>2 DEF Rows, Shaped, NoPass
<1> HIDE DEF r
<1>4. CASE lock = p
  <2>1. (lock = p) = TRUE
    BY <1>4
  <2>2. PassSound(w, TRUE, Done, fault)
    BY <1>1, <2>1, Zenon
  <2>3. PassSound(r, TRUE, Done, fault)
    BY <1>3, <1>4, <2>2 DEF PassSound, Sees
  <2> QED BY <1>1, <1>3, <2>3 DEF r
<1>5. CASE lock # p
  <2>1. (lock = p) = FALSE
    BY <1>5
  <2>2. PassSound(w, FALSE, Done, fault)
    BY <1>1, <2>1, Zenon
  <2>3. w.folded = {} /\ w.dirty = {}
    BY <2>2 DEF PassSound
  <2>4. Sees(r, TRUE, Done) = Done
    BY <1>3, <1>5, <2>3 DEF Sees, Done
  <2>5. PassSound(r, TRUE, Done, fault)
    BY <1>1, <1>3, <1>5, <2>2, <2>3, <2>4 DEF PassSound, Sees, TablesSound
  <2> QED BY <1>1, <1>3, <2>5 DEF r
<1> QED BY <1>4, <1>5

\* One bucket more, right after the last one that is settled.
LEMMA IntervalGrows ==
  ASSUME NEW S \in SUBSET Nat, Interval(S), NEW n \in Nat, S = {} \/ \E a \in S : n = a + 1
  PROVE  Interval(S \cup {n})
<1> SUFFICES ASSUME NEW a \in S \cup {n}, NEW b \in S \cup {n}, NEW y \in a..b
             PROVE  y \in S \cup {n}
  BY DEF Interval
<1>1. a \in Nat /\ b \in Nat /\ y \in Nat /\ a <= y /\ y <= b
  OBVIOUS
<1>2. CASE y = n
  BY <1>2
<1>3. CASE y # n
  <2>1. CASE S = {}
    BY <1>1, <1>3, <2>1
  <2>2. CASE \E m \in S : n = m + 1
    <3>1. PICK m \in S : n = m + 1
      BY <2>2
    <3>2. CASE b = n
      <4>1. CASE a = n
        BY <1>1, <1>3, <3>2, <4>1
      <4>2. CASE a # n
        <5>1. a \in S /\ y \in a..m
          BY <1>1, <1>3, <3>1, <3>2, <4>2
        <5> QED BY <3>1, <5>1 DEF Interval
      <4> QED BY <4>1, <4>2
    <3>3. CASE b # n
      <4>1. CASE a = n
        <5>1. b \in S /\ y \in m..b
          BY <1>1, <3>1, <3>3, <4>1
        <5> QED BY <3>1, <5>1 DEF Interval
      <4>2. CASE a # n
        BY <3>3, <4>2 DEF Interval
      <4> QED BY <4>1, <4>2
    <3> QED BY <3>2, <3>3
  <2> QED BY <2>1, <2>2
<1> QED BY <1>2, <1>3

LEMMA TodoFacts ==
  ASSUME NEW q \in Seq(Buckets), q # <<>>
  PROVE  /\ Len(q) \in Nat /\ Len(q) >= 1 /\ 1 \in 1..Len(q)
         /\ Head(q) = q[1] /\ Head(q) \in Buckets /\ Head(q) \in Nat /\ Head(q) > 0
         /\ Tail(q) \in Seq(Buckets) /\ Len(Tail(q)) = Len(q) - 1
         /\ \A i \in 1..Len(Tail(q)) : Tail(q)[i] = q[i + 1]
<1>1. Len(q) \in Nat /\ Len(q) >= 1 /\ 1 \in 1..Len(q) /\ Head(q) = q[1]
  OBVIOUS
<1>2. q[1] \in Buckets
  BY <1>1
<1>3. Head(q) \in Nat /\ Head(q) > 0
  BY <1>1, <1>2 DEF Buckets
<1>4. Tail(q) \in Seq(Buckets) /\ Len(Tail(q)) = Len(q) - 1
  OBVIOUS
<1>5. \A i \in 1..Len(Tail(q)) : Tail(q)[i] = q[i + 1]
  BY <1>1, <1>4
<1> QED BY <1>1, <1>2, <1>3, <1>4, <1>5

\* The pass r settles its next bucket n.
LEMMA Settles ==
  ASSUME NEW r, NEW D \in SUBSET Buckets, NEW f, PassSound(r, TRUE, D, f),
         r.todo # <<>>, r.watermark = None => D = {}, NEW n, n = Head(r.todo),
         NEW new, Shaped(new), new.pc = "ready", new.todo = Tail(r.todo), new.watermark = n,
         "watermark" \in new.dirty, new.fault \in [Buckets -> FaultRecords],
         new.folded \subseteq Buckets, Given(f) \subseteq Given(new.fault),
         Sees(new, TRUE, D) = Sees(r, TRUE, D) \cup {n},
         new.det.last \in Sees(new, TRUE, D) \cup {0}
  PROVE  PassSound(new, TRUE, D, f)
<1> DEFINE S == Sees(r, TRUE, D)
<1>1. /\ r.todo \in Seq(Buckets) /\ Interval(S)
      /\ r.watermark = None => Len(r.todo) <= 1 /\ S = D
      /\ r.watermark # None =>
           r.watermark \in S /\ \A i \in 1..Len(r.todo) : r.todo[i] = r.watermark + i
      /\ r.folded \subseteq Buckets
  <2> HIDE DEF S
  <2>1. /\ r.todo \in Seq(Buckets) /\ Interval(S) /\ r.folded \subseteq Buckets
        /\ r.watermark = None => Len(r.todo) <= 1
        /\ IF "watermark" \in r.dirty THEN r.watermark # None ELSE S = D
    BY DEF PassSound, S
  <2>2. r.watermark # None =>
          r.watermark \in S /\ \A i \in 1..Len(r.todo) : r.todo[i] = r.watermark + i
    BY DEF PassSound, S
  <2> QED BY <2>1, <2>2
<1>2. S \subseteq Buckets /\ S \subseteq Nat
  BY <1>1, Consts DEF Sees, Given
<1> HIDE DEF S
<1>3. /\ Len(r.todo) \in Nat /\ Len(r.todo) >= 1 /\ n = r.todo[1] /\ n \in Buckets /\ n \in Nat
      /\ new.todo \in Seq(Buckets) /\ Len(new.todo) = Len(r.todo) - 1
      /\ \A i \in 1..Len(new.todo) : new.todo[i] = r.todo[i + 1]
  BY <1>1, TodoFacts
<1>4. S = {} \/ \E a \in S : n = a + 1
  <2>1. CASE r.watermark = None
    BY <1>1, <2>1 DEF S
  <2>2. CASE r.watermark # None
    <3>1. 1 \in 1..Len(r.todo)
      BY <1>3
    <3> QED BY <1>1, <1>3, <2>2, <3>1
  <2> QED BY <2>1, <2>2
<1>5. Interval(S \cup {n})
  BY <1>1, <1>2, <1>3, <1>4, IntervalGrows
<1>6. \A i \in 1..Len(new.todo) : new.todo[i] = n + i
  <2> SUFFICES ASSUME NEW i \in 1..Len(new.todo) PROVE new.todo[i] = n + i
    OBVIOUS
  <2>1. i + 1 \in 1..Len(r.todo) /\ 1 \in 1..Len(r.todo) /\ i \in Nat /\ Len(r.todo) > 1
    BY <1>3
  <2>2. r.watermark # None
    BY <1>1, <1>3, <2>1
  <2>3. r.watermark \in Nat /\ r.todo[i + 1] = r.watermark + (i + 1) /\ n = r.watermark + 1
    BY <1>1, <1>2, <1>3, <2>1, <2>2
  <2>4. new.todo[i] = r.todo[i + 1]
    BY <1>3
  <2> QED BY <2>1, <2>3, <2>4
<1>7. n # None
  BY <1>3, Consts
<1>8. Sees(new, TRUE, D) = S \cup {n}
  BY DEF S
<1> QED BY <1>3, <1>5, <1>6, <1>7, <1>8 DEF PassSound

\* A pass that does not meet the watermark of another.
LEMMA NoConflict ==
  ASSUME IInv, NEW p \in Passes, ~InsertConflict(p)
  PROVE  pass[p].watermark = None => Done = {}
BY DEF IInv, TablesSound, InsertConflict

\* A step that leaves p with the rows.
LEMMA OwnInv ==
  ASSUME IInv, NEW p \in Passes, NEW new, pass' = [pass EXCEPT ![p] = new],
         UNCHANGED <<bucket, tableVars>>, lock \in {None, p}, lock' = p,
         PassSound(new, TRUE, Done, fault)
  PROVE  IInv'
<1>1. (lock' = p) = TRUE
  OBVIOUS
<1>2. PassSound(new, lock' = p, Done, fault)
  BY <1>1, Zenon
<1>3. \A q \in Passes \ {p} : (lock' = q) <=> (lock = q)
  BY Consts
<1>4. lock' \in Passes \cup {None}
  OBVIOUS
<1> QED BY <1>2, <1>3, <1>4, QuietInv

LEMMA JudgeInv == ASSUME IInv, NEW p \in Passes, Judge(p) PROVE IInv'
<1> DEFINE r == Rows(p)
           n == Head(pass[p].todo)
           a == Apply(r, n)
           w == ClearFaults(a)
           x == {c \in Columns : w.det[c] # pass[p].det[c]}
           new == [w EXCEPT !.todo = Tail(@), !.watermark = n,
                            !.dirty = @ \cup x \cup {"watermark"}]
           S == Sees(r, TRUE, Done)
<1>1. /\ pass' = [pass EXCEPT ![p] = new] /\ UNCHANGED <<bucket, tableVars>> /\ lock' = p
      /\ CanWrite(p) /\ ~InsertConflict(p) /\ lock \in {None, p} /\ pass[p].todo # <<>>
  BY DEF Judge, CanWrite
<1>2. /\ PassSound(r, TRUE, Done, fault) /\ r.pc = "ready"
      /\ r.todo = pass[p].todo /\ r.watermark = pass[p].watermark
  BY <1>1, RowsFacts
<1>3. r.watermark = None => Done = {}
  BY <1>1, <1>2, NoConflict
<1> HIDE DEF r
<1>4. /\ Shaped(r) /\ r.todo \in Seq(Buckets) /\ r.todo # <<>> /\ n = Head(r.todo)
      /\ r.fault \in [Buckets -> FaultRecords] /\ r.folded \subseteq Buckets
      /\ Given(fault) \subseteq Given(r.fault) /\ Interval(S)
      /\ r.det.last \in S \cup {0}
  BY <1>1, <1>2 DEF PassSound
<1>5. n \in Buckets /\ n \in Nat /\ n > 0
  BY <1>4, TodoFacts
<1>6. S \subseteq Buckets /\ S \subseteq Nat
  BY <1>4, DoneBuckets, Consts DEF Sees, Given
<1>7. r.watermark = None => S = {}
  <2>1. IF "watermark" \in r.dirty THEN r.watermark # None ELSE S = Done
    BY <1>2 DEF PassSound
  <2> QED BY <1>3, <2>1
<1>8. r.watermark # None => r.watermark \in S /\ n = r.watermark + 1
  <2>1. r.watermark # None =>
          r.watermark \in S /\ \A i \in 1..Len(r.todo) : r.todo[i] = r.watermark + i
    <3> HIDE DEF S
    <3> QED BY <1>2 DEF PassSound, S
  <2>2. 1 \in 1..Len(r.todo) /\ n = r.todo[1]
    BY <1>4, TodoFacts
  <2> QED BY <2>1, <2>2
<1> HIDE DEF n, S
<1>9. /\ Shaped(a) /\ a.pc = "ready" /\ a.todo = r.todo
      /\ a.fault = r.fault /\ a.folded \subseteq Buckets
      /\ Sees(a, TRUE, Done) = S \cup {n} /\ a.det.last \in S \cup {n, 0}
  <2>1. CASE r.det.last >= n
    <3>1. a = r
      BY <1>4, <2>1, ApplyFacts
    <3>2. r.watermark # None /\ r.det.last \in S
      <4>1. r.det.last # 0
        BY <1>5, <2>1
      <4> QED BY <1>4, <1>7, <4>1
    <3>3. n \in r.watermark..r.det.last
      <4>1. r.watermark \in Nat /\ r.det.last \in Nat /\ n = r.watermark + 1
        BY <1>6, <1>8, <3>2
      <4> QED BY <2>1, <4>1
    <3>4. n \in S
      BY <1>4, <1>8, <3>2, <3>3 DEF Interval
    <3> HIDE DEF a
    <3> QED BY <1>2, <1>4, <3>1, <3>2, <3>4 DEF S
  <2>2. CASE ~(r.det.last >= n)
    <3>1. /\ Shaped(a) /\ a.pc = r.pc /\ a.todo = r.todo /\ a.fault = r.fault
          /\ a.folded = r.folded \cup {n} /\ a.det.last = n
      BY <1>4, <2>2, ApplyFacts
    <3> HIDE DEF a
    <3>2. Sees(a, TRUE, Done) = S \cup {n}
      BY <3>1 DEF Sees, S
    <3> QED BY <1>2, <1>4, <1>5, <3>1, <3>2
  <2> QED BY <2>1, <2>2
<1> HIDE DEF a
<1>10. /\ Shaped(w) /\ w.pc = "ready" /\ w.todo = r.todo
       /\ w.fault \in [Buckets -> FaultRecords] /\ Given(w.fault) = Given(r.fault)
       /\ w.folded = a.folded /\ w.det = a.det
  BY <1>4, <1>9, ClearFaultsFacts
<1> HIDE DEF w, x
<1>11. /\ Shaped(new) /\ new.pc = "ready" /\ new.todo = Tail(r.todo) /\ new.watermark = n
       /\ new.fault = w.fault /\ new.folded = w.folded /\ new.det = w.det
       /\ "watermark" \in new.dirty
  BY <1>10 DEF Shaped, NoPass
<1> HIDE DEF new
<1>12. Sees(new, TRUE, Done) = S \cup {n}
  BY <1>9, <1>10, <1>11 DEF Sees, S
<1>13. new.det.last \in Sees(new, TRUE, Done) \cup {0}
  BY <1>9, <1>10, <1>11, <1>12
<1>14. PassSound(new, TRUE, Done, fault)
  <2>1. Done \in SUBSET Buckets
    BY DoneBuckets
  <2>2. Sees(new, TRUE, Done) = Sees(r, TRUE, Done) \cup {n}
    BY <1>12 DEF S
  <2> QED BY <1>2, <1>3, <1>4, <1>9, <1>10, <1>11, <1>13, <2>1, <2>2, Settles
<1> QED BY <1>1, <1>14, OwnInv

LEMMA MergedFacts ==
  ASSUME NEW w, DOMAIN w.det = Columns
  PROVE  /\ DOMAIN Merged(w) = Columns
         /\ Merged(w).last \in {w.det.last, det.last}
BY DEF Merged, Columns

\* _record_failure gives up the next bucket of pass r.
LEMMA GivenUpSound ==
  ASSUME IInv, NEW r, PassSound(r, TRUE, Done, fault), r.todo # <<>>,
         r.watermark = None => Done = {}, NEW k \in Nat
  PROVE  PassSound(GivenUp(r, Head(r.todo), k), TRUE, Done, fault)
<1> DEFINE n == Head(r.todo)
           f == [r.fault EXCEPT ![n] = [attempts |-> k, closed |-> "given_up"]]
           m == Merged(r)
           d == r.dirty \cup {"watermark"}
           new == [r EXCEPT !.fault = f, !.watermark = n, !.todo = Tail(r.todo),
                            !.dirty = d, !.det = m, !.failing = FALSE]
           S == Sees(r, TRUE, Done)
<1>1. /\ Shaped(r) /\ r.todo \in Seq(Buckets) /\ r.pc = "ready"
      /\ r.fault \in [Buckets -> FaultRecords] /\ r.folded \subseteq Buckets
      /\ Given(fault) \subseteq Given(r.fault) /\ r.det.last \in S \cup {0}
  BY DEF PassSound
<1>2. n \in Buckets
  BY <1>1, TodoFacts
<1>3. f \in [Buckets -> FaultRecords] /\ Given(f) = Given(r.fault) \cup {n}
  <2> HIDE DEF n
  <2>1. f \in [Buckets -> FaultRecords] /\ f[n].closed = "given_up"
        /\ \A b \in Buckets \ {n} : f[b] = r.fault[b]
    BY <1>1, <1>2 DEF FaultRecords
  <2> HIDE DEF f
  <2> QED BY <1>2, <2>1 DEF Given
<1>4. DOMAIN m = Columns /\ m.last \in S \cup {0}
  <2>1. DOMAIN m = Columns /\ m.last \in {r.det.last, det.last}
    BY <1>1, MergedFacts DEF Shaped
  <2>2. det.last \in Done \cup {0} /\ Done \subseteq S
    BY DEF IInv, TablesSound, Sees
  <2> HIDE DEF m, S
  <2> QED BY <1>1, <2>1, <2>2
<1>5. GivenUp(r, n, k) = new
  BY DEF GivenUp
<1> HIDE DEF f, m, n, S, d
<1>6. /\ Shaped(new) /\ new.pc = "ready" /\ new.todo = Tail(r.todo) /\ new.watermark = n
      /\ new.fault = f /\ new.folded = r.folded /\ new.det = m /\ new.dirty = d
  BY <1>1, <1>4 DEF Shaped, NoPass
<1> HIDE DEF new
<1>7. "watermark" \in new.dirty
  BY <1>6 DEF d
<1>8. Sees(new, TRUE, Done) = S \cup {n}
  BY <1>3, <1>6 DEF Sees, S
<1>9. PassSound(new, TRUE, Done, fault)
  <2>1. Done \in SUBSET Buckets
    BY DoneBuckets
  <2>2. Sees(new, TRUE, Done) = Sees(r, TRUE, Done) \cup {n}
    BY <1>8 DEF S
  <2>3. n = Head(r.todo)
    BY DEF n
  <2>4. new.det.last \in Sees(new, TRUE, Done) \cup {0}
    BY <1>4, <1>6, <1>8
  <2>5. /\ new.fault \in [Buckets -> FaultRecords] /\ new.folded \subseteq Buckets
        /\ Given(fault) \subseteq Given(new.fault)
    BY <1>1, <1>3, <1>6
  <2> QED BY <1>6, <1>7, <2>1, <2>2, <2>3, <2>4, <2>5, Settles
<1> QED BY <1>5, <1>9 DEF n

\* _record_failure holds the next bucket of pass r.
LEMMA HeldSound ==
  ASSUME IInv, NEW r, PassSound(r, TRUE, Done, fault), NEW n \in Buckets, NEW k \in Nat
  PROVE  PassSound(Held(r, n, k), TRUE, Done, fault)
<1> DEFINE f == [r.fault EXCEPT ![n].attempts = k]
           new == [r EXCEPT !.fault = f, !.failing = TRUE, !.todo = <<>>]
<1>1. /\ Shaped(r) /\ r.pc = "ready" /\ r.fault \in [Buckets -> FaultRecords]
  BY DEF PassSound
<1>2. f \in [Buckets -> FaultRecords] /\ \A b \in Buckets : f[b].closed = r.fault[b].closed
  BY <1>1 DEF FaultRecords
<1>3. Given(f) = Given(r.fault)
  BY <1>2 DEF Given
<1>4. Held(r, n, k) = new
  BY DEF Held
<1> HIDE DEF f
<1>5. /\ Shaped(new) /\ new.pc = "ready" /\ new.todo = <<>> /\ new.watermark = r.watermark
      /\ new.fault = f /\ new.folded = r.folded /\ new.det = r.det /\ new.dirty = r.dirty
  BY <1>1 DEF Shaped, NoPass
<1> HIDE DEF new
<1>6. Sees(new, TRUE, Done) = Sees(r, TRUE, Done)
  BY <1>3, <1>5 DEF Sees
<1>7. new.todo \in Seq(Buckets) /\ Len(new.todo) = 0
  BY <1>5
<1>8. PassSound(new, TRUE, Done, fault)
  <2> DEFINE S == Sees(r, TRUE, Done)
  <2> HIDE DEF S
  <2>1. /\ r.watermark # None => r.watermark \in S
        /\ r.det.last \in S \cup {0} /\ r.folded \subseteq Buckets
        /\ Given(fault) \subseteq Given(r.fault) /\ Interval(S)
        /\ IF "watermark" \in r.dirty THEN r.watermark # None ELSE S = Done
    BY DEF PassSound, S
  <2>2. Sees(new, TRUE, Done) = S
    BY <1>6 DEF S
  <2>3. \A i \in 1..Len(new.todo) : new.todo[i] = new.watermark + i
    BY <1>7
  <2>4. /\ new.watermark # None => new.watermark \in S
        /\ new.det.last \in S \cup {0} /\ new.folded \subseteq Buckets
        /\ new.fault \in [Buckets -> FaultRecords] /\ Given(fault) \subseteq Given(new.fault)
        /\ IF "watermark" \in new.dirty THEN new.watermark # None ELSE S = Done
    BY <1>2, <1>3, <1>5, <2>1
  <2>5. Shaped(new) /\ new.pc = "ready" /\ Len(new.todo) <= 1 /\ Interval(S)
    BY <1>5, <1>7, <2>1
  <2>6. new.todo \in Seq(Buckets)
    BY <1>7
  <2> QED BY <2>2, <2>3, <2>4, <2>5, <2>6, Zenon DEF PassSound
<1> QED BY <1>4, <1>8

\* A pass that ends without a commit.
LEMMA DropInv ==
  ASSUME IInv, NEW p \in Passes, pass' = [pass EXCEPT ![p] = NoPass],
         UNCHANGED <<bucket, tableVars>>,
         lock' \in Passes \cup {None}, lock' # p,
         \A q \in Passes \ {p} : (lock' = q) <=> (lock = q)
  PROVE  IInv'
<1>1. (lock' = p) = FALSE
  OBVIOUS
<1>2. PassSound(NoPass, lock' = p, Done, fault)
  BY <1>1, NoPassSound, Zenon
<1> QED BY <1>2, QuietInv

LEMMA JudgeFailsInv == ASSUME IInv, NEW p \in Passes, JudgeFails(p) PROVE IInv'
<1> DEFINE r == Rows(p)
           n == Head(pass[p].todo)
           k == IF r.fault[n].attempts < BucketAttempts THEN r.fault[n].attempts + 1
                ELSE BucketAttempts
<1>1. /\ UNCHANGED <<bucket, tableVars>> /\ CanWrite(p) /\ lock \in {None, p}
      /\ pass[p].todo # <<>>
  BY DEF JudgeFails, CanWrite
<1>2. /\ PassSound(r, TRUE, Done, fault) /\ r.todo = pass[p].todo
      /\ r.watermark = pass[p].watermark
  BY <1>1, RowsFacts
<1>3. \/ ~InsertConflict(p) /\ pass' = [pass EXCEPT ![p] = GivenUp(r, n, k)] /\ lock' = p
      \/ pass' = [pass EXCEPT ![p] = NoPass] /\ lock' = None
      \/ pass' = [pass EXCEPT ![p] = Held(r, n, k)] /\ lock' = p
  BY DEF JudgeFails
<1> HIDE DEF r
<1>4. r.todo \in Seq(Buckets) /\ r.todo # <<>> /\ r.fault \in [Buckets -> FaultRecords]
  BY <1>1, <1>2 DEF PassSound
<1>5. n = Head(r.todo) /\ n \in Buckets
  BY <1>2, <1>4, TodoFacts
<1> HIDE DEF n
<1>6. k \in Nat
  BY <1>4, <1>5, Consts DEF FaultRecords
<1> HIDE DEF k
<1>7. CASE ~InsertConflict(p) /\ pass' = [pass EXCEPT ![p] = GivenUp(r, n, k)] /\ lock' = p
  <2>1. r.watermark = None => Done = {}
    BY <1>2, <1>7, NoConflict
  <2>2. PassSound(GivenUp(r, n, k), TRUE, Done, fault)
    BY <1>2, <1>4, <1>5, <1>6, <2>1, GivenUpSound
  <2> QED BY <1>1, <1>7, <2>2, OwnInv
<1>8. CASE pass' = [pass EXCEPT ![p] = NoPass] /\ lock' = None
  <2>1. lock' # p /\ \A q \in Passes \ {p} : (lock' = q) <=> (lock = q)
    BY <1>1, <1>8, Consts
  <2> QED BY <1>1, <1>8, <2>1, DropInv
<1>9. CASE pass' = [pass EXCEPT ![p] = Held(r, n, k)] /\ lock' = p
  <2>1. PassSound(Held(r, n, k), TRUE, Done, fault)
    BY <1>2, <1>5, <1>6, HeldSound
  <2> QED BY <1>1, <1>9, <2>1, OwnInv
<1> QED BY <1>3, <1>7, <1>8, <1>9

LEMMA RecordFailsInv == ASSUME IInv, NEW p \in Passes, RecordFails(p) PROVE IInv'
<1> DEFINE w == pass[p]
           new == [w EXCEPT !.todo = <<>>]
<1>1. pass' = [pass EXCEPT ![p] = new] /\ UNCHANGED <<bucket, tableVars, lock>>
  BY DEF RecordFails, IInv, Typed
<1>2. PassSound(w, lock = p, Done, fault) /\ lock \in Passes \cup {None}
  BY DEF IInv, PassesSound, Typed
<1> HIDE DEF w
<1>3. /\ Shaped(new) /\ new.pc = w.pc /\ new.todo = <<>> /\ new.watermark = w.watermark
      /\ new.fault = w.fault /\ new.folded = w.folded /\ new.det = w.det /\ new.dirty = w.dirty
  BY <1>2 DEF PassSound, Shaped, NoPass
<1> HIDE DEF new
<1>4. new.todo \in Seq(Buckets) /\ Len(new.todo) = 0
  BY <1>3
<1>5. PassSound(new, lock = p, Done, fault)
  BY <1>2, <1>3, <1>4 DEF PassSound, Sees
<1>6. PassSound(new, lock' = p, Done, fault)
  BY <1>1, <1>5
<1> QED BY <1>1, <1>2, <1>6, QuietInv

LEMMA CrashInv == ASSUME IInv, NEW p \in Passes, Crash(p) PROVE IInv'
<1>1. /\ pass' = [pass EXCEPT ![p] = NoPass] /\ UNCHANGED <<bucket, tableVars>>
      /\ lock' = IF lock = p THEN None ELSE lock
  BY DEF Crash
<1>2. lock \in Passes \cup {None}
  BY DEF IInv, Typed
<1>3. /\ lock' \in Passes \cup {None} /\ lock' # p
      /\ \A q \in Passes \ {p} : (lock' = q) <=> (lock = q)
  BY <1>1, <1>2, Consts
<1> QED BY <1>1, <1>3, DropInv

\* A commit: the settled buckets are those the pass has seen.
LEMMA CommitInv == ASSUME IInv, NEW p \in Passes, Commit(p) PROVE IInv'
<1> DEFINE w == pass[p]
           S == Sees(w, TRUE, Done)
<1>1. /\ PassSound(w, lock = p, Done, fault) /\ lock \in Passes \cup {None}
      /\ DOMAIN pass = Passes /\ Typed /\ TablesSound
  BY DEF IInv, PassesSound, Typed
<1>2. pass' = [pass EXCEPT ![p] = NoPass] /\ UNCHANGED bucket
  BY DEF Commit
<1>3. CASE lock # p
  <2>1. UNCHANGED <<tableVars, lock>>
    BY <1>3 DEF Commit
  <2> QED BY <1>1, <1>2, <1>3, <2>1, DropInv
<1>4. CASE lock = p
  <2>1. /\ watermark' = IF "watermark" \in w.dirty THEN w.watermark ELSE watermark
        /\ det' = Merged(w) /\ fault' = w.fault /\ folded' = folded \cup w.folded /\ lock' = None
    BY <1>4 DEF Commit
  <2>2. PassSound(w, TRUE, Done, fault)
    <3>1. (lock = p) = TRUE
      BY <1>4
    <3> QED BY <1>1, <3>1, Zenon
  <2> HIDE DEF w
  <2>3. /\ Shaped(w) /\ w.fault \in [Buckets -> FaultRecords] /\ w.folded \subseteq Buckets
        /\ Given(fault) \subseteq Given(w.fault)
    BY <2>2 DEF PassSound
  <2>4. /\ w.watermark # None => w.watermark \in S
        /\ w.det.last \in S \cup {0} /\ Interval(S)
        /\ IF "watermark" \in w.dirty THEN w.watermark # None ELSE S = Done
    <3> HIDE DEF S
    <3> QED BY <2>2 DEF PassSound, S
  <2>5. Done' = S /\ Done \subseteq S
    BY <2>1, <2>3 DEF Done, Sees
  <2> HIDE DEF S
  <2>6. DOMAIN Merged(w) = Columns /\ Merged(w).last \in {w.det.last, det.last}
    BY <2>3, MergedFacts DEF Shaped
  <2>7. det.last \in Done \cup {0}
    BY <1>1 DEF TablesSound
  <2>8. det'.last \in S \cup {0} /\ DOMAIN det' = Columns
    BY <2>1, <2>4, <2>5, <2>6, <2>7
  <2>9. Typed'
    BY <1>1, <1>2, <2>1, <2>3, <2>8 DEF Typed
  <2>10. IF watermark' = None THEN S = {} ELSE watermark' \in S
    <3>1. CASE "watermark" \in w.dirty
      BY <2>1, <2>4, <3>1
    <3>2. CASE "watermark" \notin w.dirty
      BY <1>1, <2>1, <2>4, <3>2 DEF TablesSound
    <3> QED BY <3>1, <3>2
  <2>11. TablesSound'
    BY <2>4, <2>5, <2>8, <2>10 DEF TablesSound
  <2>12. PassesSound'
    <3> SUFFICES ASSUME NEW q \in Passes PROVE PassSound(pass'[q], lock' = q, Done', fault')
      BY DEF PassesSound
    <3>1. (lock' = q) = FALSE
      BY <2>1, Consts
    <3>2. CASE q = p
      <4>1. pass'[q] = NoPass
        BY <1>1, <1>2, <3>2
      <4> QED BY <3>1, <4>1, NoPassSound, Zenon
    <3>3. CASE q # p
      <4>1. pass'[q] = pass[q] /\ (lock = q) = FALSE
        BY <1>1, <1>2, <1>4, <3>3
      <4>2. PassSound(pass[q], lock = q, Done, fault)
        BY DEF IInv, PassesSound
      <4>3. PassSound(pass[q], FALSE, Done, fault)
        BY <4>1, <4>2, Zenon
      <4>4. Done \subseteq Done'
        BY <2>5
      <4>5. PassSound(pass[q], FALSE, Done', fault')
        BY <4>3, <4>4, PassSoundMonotone
      <4> QED BY <3>1, <4>1, <4>5, Zenon
    <3> QED BY <3>2, <3>3
  <2> QED BY <2>9, <2>11, <2>12 DEF IInv
<1> QED BY <1>3, <1>4

LEMMA NextInv == ASSUME IInv, [Next]_vars PROVE IInv'
<1>1. CASE Arrive
  BY <1>1, ArriveInv
<1>2. CASE OperatorResolves \/ EditPolicy \/ UNCHANGED vars
  <2>1. UNCHANGED <<bucket, watermark, det, fault, folded, lock, pass>>
    BY <1>2 DEF OperatorResolves, EditPolicy, vars, tableVars
  <2>2. Done' = Done
    BY <2>1 DEF Done, Given
  <2> QED BY <2>1, <2>2 DEF IInv, Typed, TablesSound, PassesSound
<1>3. ASSUME NEW p \in Passes, PassStep(p) \/ JudgeFails(p) \/ RecordFails(p) \/ Crash(p)
      PROVE  IInv'
  <2>1. CASE Load(p)
    BY <2>1, LoadInv
  <2>2. CASE ReadState(p)
    BY <2>2, ReadStateInv
  <2>3. CASE Judge(p)
    BY <2>3, JudgeInv
  <2>4. CASE Commit(p)
    BY <2>4, CommitInv
  <2>5. CASE JudgeFails(p)
    BY <2>5, JudgeFailsInv
  <2>6. CASE RecordFails(p)
    BY <2>6, RecordFailsInv
  <2>7. CASE Crash(p)
    BY <2>7, CrashInv
  <2> QED BY <1>3, <2>1, <2>2, <2>3, <2>4, <2>5, <2>6, <2>7 DEF PassStep
<1> QED BY <1>1, <1>2, <1>3 DEF Next

LEMMA Invariance == Spec => []IInv
<1> QED BY InitInv, NextInv, PTL DEF Spec

\* Whatever the passes, the faults and the operators, the watermark leaves behind
\* only buckets that were judged or given up (evaluate_pending, _record_failure).
THEOREM NoBucketSkippedHolds == Spec => []NoBucketSkipped
<1>1. IInv => NoBucketSkipped
  <2> SUFFICES ASSUME IInv, NEW b \in Buckets, NEW a \in Buckets, watermark # None,
                      b <= watermark, a <= b, a \in folded \/ fault[a].closed = "given_up"
               PROVE  b \in folded \/ fault[b].closed = "given_up"
    BY DEF NoBucketSkipped
  <2>1. a \in Done /\ watermark \in Done /\ Interval(Done)
    BY DEF IInv, TablesSound, Done, Given
  <2>2. b \in a..watermark
    BY <2>1, DoneBuckets, Consts
  <2>3. b \in Done
    BY <2>1, <2>2 DEF Interval
  <2> QED BY <2>3 DEF Done, Given
<1> QED BY <1>1, Invariance, PTL

-----------------------------------------------------------------------------
(* Passes that do not overlap: the faults.                                 *)

Alone == \A p, q \in Passes : p = q

\* Settled buckets A and fault rows F beside a watermark m and n buckets: the folded
\* buckets are behind the watermark and have no open fault, and no open fault is
\* beyond the bucket that comes next.
Tidy(A, F, m, n) ==
  /\ \A b \in A : m # None /\ b <= m /\ b \notin OpenFaults(F)
  /\ \A b \in OpenFaults(F) : IF m = None THEN b <= n ELSE b <= m + 1

\* The next bucket of a pass is the last that can have an open fault, and has none
\* unless the pass knows that there are open ones.
Ahead(w, F, n) ==
  /\ \A i \in 1..Len(w.todo) : w.todo[i] <= n
  /\ w.todo # <<>> =>
       /\ \A b \in OpenFaults(F) : b <= Head(w.todo)
       /\ ~w.failing => Head(w.todo) \notin OpenFaults(F)

PassTidy(w, own, A, f, m, n) ==
  LET F == IF own THEN w.fault ELSE f IN
  /\ Tidy(A \cup w.folded, F, w.watermark, n)
  /\ Ahead(w, F, n)
  /\ w.watermark = m \/ (own /\ "watermark" \in w.dirty)

\* The inductive invariant of the faults.
FInv ==
  /\ Tidy(folded, fault, watermark, Len(bucket))
  /\ \A p \in Passes : pass[p].pc # "idle" =>
       PassTidy(pass[p], lock = p, folded, fault, watermark, Len(bucket))

LEMMA InitFaults == Init => FInv
<1> SUFFICES ASSUME Init PROVE FInv
  OBVIOUS
<1>1. OpenFaults(fault) = {}
  BY DEF Init, OpenFaults, NoFault
<1>2. \A p \in Passes : pass[p].pc = "idle"
  BY DEF Init, NoPass
<1> QED BY <1>1, <1>2 DEF FInv, Tidy, Init

\* A step of the only pass that commits nothing.
LEMMA QuietFaults ==
  ASSUME Alone, FInv, DOMAIN pass = Passes, NEW p \in Passes, NEW new,
         pass' = [pass EXCEPT ![p] = new],
         UNCHANGED <<bucket, tableVars>>,
         new.pc # "idle" => PassTidy(new, lock' = p, folded, fault, watermark, Len(bucket))
  PROVE  FInv'
<1>1. UNCHANGED <<bucket, watermark, fault, folded>>
  BY DEF tableVars
<1>2. pass'[p] = new /\ \A q \in Passes : q = p
  BY DEF Alone
<1> QED BY <1>1, <1>2 DEF FInv

LEMMA ArriveFaults == ASSUME IInv, FInv, Arrive PROVE FInv'
<1>1. UNCHANGED <<watermark, fault, folded, lock, pass>>
  BY DEF Arrive, tableVars
<1>2. Len(bucket) \in Nat /\ Len(bucket') \in Nat /\ Len(bucket) <= Len(bucket')
  BY DEF Arrive, IInv, Typed
<1>3. ASSUME NEW A, NEW F, NEW m, Tidy(A, F, m, Len(bucket)) PROVE Tidy(A, F, m, Len(bucket'))
  <2>1. OpenFaults(F) \subseteq Nat
    BY Consts DEF OpenFaults
  <2> QED BY <1>2, <1>3, <2>1 DEF Tidy
<1>4. ASSUME NEW w, w.todo \in Seq(Buckets), NEW F, Ahead(w, F, Len(bucket))
      PROVE  Ahead(w, F, Len(bucket'))
  <2>1. \A i \in 1..Len(w.todo) : w.todo[i] \in Nat
    <3>1. \A i \in 1..Len(w.todo) : w.todo[i] \in Buckets
      BY <1>4
    <3> QED BY <3>1, Consts
  <2> QED BY <1>2, <1>4, <2>1 DEF Ahead
<1>5. ASSUME NEW p \in Passes, pass[p].pc # "idle"
      PROVE  PassTidy(pass[p], lock = p, folded, fault, watermark, Len(bucket'))
  <2>1. /\ PassTidy(pass[p], lock = p, folded, fault, watermark, Len(bucket))
        /\ pass[p].todo \in Seq(Buckets)
    BY <1>5 DEF FInv, IInv, PassesSound, PassSound
  <2> QED BY <1>3, <1>4, <2>1 DEF PassTidy
<1> QED BY <1>1, <1>3, <1>5 DEF FInv

LEMMA LoadFaults == ASSUME Alone, IInv, FInv, NEW p \in Passes, Load(p) PROVE FInv'
<1> DEFINE x == OpenFaults(fault) # {}
           new == [NoPass EXCEPT !.pc = "loaded", !.todo = Pending, !.watermark = watermark,
                                 !.muted = recordOnly, !.failing = x]
<1>1. /\ pass' = [pass EXCEPT ![p] = new] /\ UNCHANGED <<bucket, tableVars, lock>>
      /\ DOMAIN pass = Passes /\ Pending # <<>>
  BY DEF Load, IInv, Typed
<1>2. lock # p
  <2>1. PassSound(pass[p], lock = p, Done, fault)
    BY DEF IInv, PassesSound
  <2> QED BY <2>1 DEF Load, PassSound
<1> HIDE DEF x
<1>3. /\ new.todo = Pending /\ new.watermark = watermark /\ new.folded = {} /\ new.failing = x
  BY DEF NoPass
<1> HIDE DEF new
<1>4. Len(bucket) \in Nat /\ Pending \in Seq(Buckets)
  BY PendingFacts DEF IInv, Typed
<1>5. \A i \in 1..Len(Pending) : Pending[i] <= Len(bucket)
  BY PendingFacts
<1>6. \A b \in OpenFaults(fault) : b <= Head(Pending)
  <2> SUFFICES ASSUME NEW b \in OpenFaults(fault) PROVE b <= Head(Pending)
    OBVIOUS
  <2>1. IF watermark = None THEN b <= Len(bucket) ELSE b <= watermark + 1
    BY DEF FInv, Tidy
  <2>2. CASE watermark = None
    <3>1. Pending = <<Len(bucket)>>
      BY <1>1, <2>2 DEF Pending
    <3> QED BY <2>1, <2>2, <3>1
  <2>3. CASE watermark # None
    <3>1. Head(Pending) = watermark + 1
      BY <1>1, <1>4, <2>3, PendingFacts, TodoFacts
    <3> QED BY <2>1, <2>3, <3>1
  <2> QED BY <2>2, <2>3
<1>7. Ahead(new, fault, Len(bucket))
  BY <1>3, <1>5, <1>6 DEF Ahead, x
<1>8. Tidy(folded \cup new.folded, fault, new.watermark, Len(bucket))
  BY <1>3 DEF FInv
<1>9. PassTidy(new, lock' = p, folded, fault, watermark, Len(bucket))
  BY <1>1, <1>2, <1>3, <1>7, <1>8 DEF PassTidy
<1> QED BY <1>1, <1>9, QuietFaults

LEMMA ReadStateFaults == ASSUME Alone, IInv, FInv, NEW p \in Passes, ReadState(p) PROVE FInv'
<1> DEFINE w == pass[p]
           new == [w EXCEPT !.pc = "ready", !.det = det]
<1>1. /\ pass' = [pass EXCEPT ![p] = new] /\ UNCHANGED <<bucket, tableVars, lock>>
      /\ DOMAIN pass = Passes /\ Shaped(w)
  BY DEF ReadState, IInv, Typed, PassesSound, PassSound
<1>2. PassTidy(w, lock = p, folded, fault, watermark, Len(bucket))
  BY DEF ReadState, FInv
<1> HIDE DEF w
<1>3. /\ new.todo = w.todo /\ new.watermark = w.watermark /\ new.folded = w.folded
      /\ new.failing = w.failing /\ new.fault = w.fault /\ new.dirty = w.dirty
  BY <1>1 DEF Shaped, NoPass
<1> HIDE DEF new
<1>4. PassTidy(new, lock' = p, folded, fault, watermark, Len(bucket))
  BY <1>1, <1>2, <1>3 DEF PassTidy, Ahead
<1> QED BY <1>1, <1>4, QuietFaults

\* A pass that may write, and nobody beside it.
LEMMA RowsTidy ==
  ASSUME IInv, FInv, NEW p \in Passes, CanWrite(p)
  PROVE  /\ PassTidy(Rows(p), TRUE, folded, fault, watermark, Len(bucket))
         /\ ~InsertConflict(p)
<1> DEFINE w == pass[p]
           r == Rows(p)
<1>1. /\ PassSound(w, lock = p, Done, fault) /\ lock \in {None, p} /\ w.pc = "ready"
      /\ PassTidy(w, lock = p, folded, fault, watermark, Len(bucket))
  BY DEF IInv, PassesSound, CanWrite, FInv
<1>2. Shaped(w)
  BY <1>1 DEF PassSound
<1>3. /\ r.todo = w.todo /\ r.watermark = w.watermark /\ r.dirty = w.dirty
      /\ r.folded = w.folded /\ r.failing = w.failing
      /\ r.fault = IF lock = p THEN w.fault ELSE fault
  BY <1>2 DEF Rows, Shaped, NoPass
<1>4. ~InsertConflict(p)
  BY <1>1 DEF InsertConflict, PassSound, PassTidy
<1> HIDE DEF w, r
<1>5. PassTidy(r, TRUE, folded, fault, watermark, Len(bucket))
  BY <1>1, <1>3 DEF PassTidy, Ahead
<1> QED BY <1>4, <1>5 DEF r

\* The only pass settles its next bucket n.
LEMMA SettlesTidy ==
  ASSUME NEW r, NEW D \in SUBSET Buckets, NEW f, PassSound(r, TRUE, D, f),
         NEW A \in SUBSET Buckets, NEW m, NEW k \in Nat, PassTidy(r, TRUE, A, f, m, k),
         r.todo # <<>>, NEW n, n = Head(r.todo),
         NEW new, new.todo = Tail(r.todo), new.watermark = n, "watermark" \in new.dirty,
         new.folded \subseteq r.folded \cup {n},
         OpenFaults(new.fault) \subseteq OpenFaults(r.fault), n \notin OpenFaults(new.fault)
  PROVE  PassTidy(new, TRUE, A, f, m, k)
<1>1. /\ r.todo \in Seq(Buckets) /\ r.folded \subseteq Buckets
      /\ r.watermark = None => Len(r.todo) <= 1
      /\ r.watermark # None => \A i \in 1..Len(r.todo) : r.todo[i] = r.watermark + i
  BY DEF PassSound
<1>0. r.watermark # None => r.watermark \in Int
  <2> SUFFICES ASSUME r.watermark # None PROVE r.watermark \in Int
    OBVIOUS
  <2>1. r.watermark \in Sees(r, TRUE, D)
    BY DEF PassSound
  <2>2. r.watermark \in Buckets
    BY <1>1, <2>1 DEF Sees, Given
  <2> QED BY <2>2 DEF Buckets
<1>2. Tidy(A \cup r.folded, r.fault, r.watermark, k) /\ Ahead(r, r.fault, k)
  BY DEF PassTidy
<1>3. /\ Len(r.todo) \in Nat /\ Len(r.todo) >= 1 /\ n = r.todo[1] /\ n \in Nat
      /\ new.todo \in Seq(Buckets) /\ Len(new.todo) = Len(r.todo) - 1
      /\ \A i \in 1..Len(new.todo) : new.todo[i] = r.todo[i + 1]
      /\ 1 \in 1..Len(r.todo)
  BY <1>1, TodoFacts
<1>4. OpenFaults(r.fault) \subseteq Nat /\ A \subseteq Nat /\ r.folded \subseteq Nat /\ n # None
  BY <1>1, <1>3, Consts DEF OpenFaults
<1>5. \A b \in OpenFaults(new.fault) : b \in Nat /\ b <= n /\ b # n
  BY <1>2, <1>4 DEF Ahead
<1>6. ASSUME NEW b \in A \cup r.folded PROVE b <= n /\ b \notin OpenFaults(new.fault)
  <2>1. r.watermark # None /\ b <= r.watermark /\ b \notin OpenFaults(r.fault)
    BY <1>2 DEF Tidy
  <2>2. n = r.watermark + 1
    BY <1>1, <1>3, <2>1
  <2> QED BY <1>0, <1>4, <2>1, <2>2
<1>7. Tidy(A \cup new.folded, new.fault, n, k)
  <2>1. \A b \in A \cup new.folded : b <= n /\ b \notin OpenFaults(new.fault)
    BY <1>3, <1>6
  <2>2. \A b \in OpenFaults(new.fault) : b <= n + 1
    BY <1>3, <1>5
  <2> QED BY <1>4, <2>1, <2>2 DEF Tidy
<1>8. Ahead(new, new.fault, k)
  <2>1. \A i \in 1..Len(new.todo) : new.todo[i] <= k
    <3>1. \A i \in 1..Len(new.todo) : i + 1 \in 1..Len(r.todo)
      BY <1>3
    <3> QED BY <1>2, <1>3, <3>1 DEF Ahead
  <2>2. ASSUME new.todo # <<>> PROVE Head(new.todo) = n + 1
    <3>1. Len(new.todo) >= 1 /\ Head(new.todo) = new.todo[1] /\ 1 \in 1..Len(new.todo)
      BY <1>3, <2>2, TodoFacts
    <3>2. Len(r.todo) \in Nat /\ Len(r.todo) > 1
      BY <1>3, <3>1
    <3>3. r.watermark # None
      BY <1>1, <3>2
    <3>4. r.watermark \in Int
      BY <1>0, <3>3
    <3>5. 2 \in 1..Len(r.todo) /\ new.todo[1] = r.todo[2]
      <4>1. new.todo[1] = r.todo[1 + 1]
        BY <1>3, <3>1
      <4> QED BY <3>2, <4>1
    <3>6. r.todo[2] = r.watermark + 2 /\ n = r.watermark + 1
      BY <1>1, <1>3, <3>3, <3>5
    <3> QED BY <3>1, <3>4, <3>5, <3>6
  <2>3. \A b \in OpenFaults(new.fault) : b <= n + 1 /\ b # n + 1
    BY <1>3, <1>5
  <2> QED BY <2>1, <2>2, <2>3 DEF Ahead
<1> QED BY <1>7, <1>8 DEF PassTidy

LEMMA ClearFaultsOpen ==
  ASSUME NEW w, Shaped(w), w.fault \in [Buckets -> FaultRecords]
  PROVE  /\ OpenFaults(ClearFaults(w).fault) \subseteq OpenFaults(w.fault)
         /\ w.failing => OpenFaults(ClearFaults(w).fault) = {}
<1>1. CASE ~w.failing
  BY <1>1 DEF ClearFaults
<1>2. CASE w.failing
  <2> DEFINE f == [b \in Buckets |-> IF b \in OpenFaults(w.fault)
                     THEN [w.fault[b] EXCEPT !.closed = "resolved"] ELSE w.fault[b]]
  <2>1. ClearFaults(w) = [w EXCEPT !.failing = FALSE, !.fault = f]
    BY <1>2 DEF ClearFaults
  <2>2. \A b \in Buckets : b \in OpenFaults(w.fault) => f[b].closed = "resolved"
    BY DEF FaultRecords
  <2>3. \A b \in Buckets : b \notin OpenFaults(w.fault) => f[b] = w.fault[b]
    OBVIOUS
  <2> HIDE DEF f
  <2>4. OpenFaults(f) = {}
    BY <2>2, <2>3 DEF OpenFaults
  <2>5. ClearFaults(w).fault = f
    BY <2>1 DEF Shaped, NoPass
  <2> QED BY <2>4, <2>5
<1> QED BY <1>1, <1>2

LEMMA JudgeFaults == ASSUME Alone, IInv, FInv, NEW p \in Passes, Judge(p) PROVE FInv'
<1> DEFINE r == Rows(p)
           n == Head(pass[p].todo)
           a == Apply(r, n)
           w == ClearFaults(a)
           x == {c \in Columns : w.det[c] # pass[p].det[c]}
           new == [w EXCEPT !.todo = Tail(@), !.watermark = n,
                            !.dirty = @ \cup x \cup {"watermark"}]
<1>1. /\ pass' = [pass EXCEPT ![p] = new] /\ UNCHANGED <<bucket, tableVars>> /\ lock' = p
      /\ CanWrite(p) /\ pass[p].todo # <<>> /\ DOMAIN pass = Passes
  BY DEF Judge, CanWrite, IInv, Typed
<1>2. /\ PassSound(r, TRUE, Done, fault) /\ r.todo = pass[p].todo
      /\ PassTidy(r, TRUE, folded, fault, watermark, Len(bucket))
  BY <1>1, RowsFacts, RowsTidy
<1> HIDE DEF r
<1>3. /\ Shaped(r) /\ r.todo # <<>> /\ n = Head(r.todo) /\ r.fault \in [Buckets -> FaultRecords]
  BY <1>1, <1>2 DEF PassSound
<1> HIDE DEF n
<1>4. /\ Shaped(a) /\ a.todo = r.todo /\ a.fault = r.fault /\ a.failing = r.failing
      /\ a.folded \subseteq r.folded \cup {n}
  BY <1>3, ApplyFacts
<1> HIDE DEF a
<1>5. /\ Shaped(w) /\ w.todo = r.todo /\ w.folded = a.folded
      /\ OpenFaults(w.fault) \subseteq OpenFaults(r.fault)
      /\ r.failing => OpenFaults(w.fault) = {}
  BY <1>3, <1>4, ClearFaultsFacts, ClearFaultsOpen
<1> HIDE DEF w, x
<1>6. /\ new.todo = Tail(r.todo) /\ new.watermark = n
      /\ new.fault = w.fault /\ new.folded = w.folded /\ "watermark" \in new.dirty
  BY <1>5 DEF Shaped, NoPass
<1> HIDE DEF new
<1>7. n \notin OpenFaults(new.fault)
  BY <1>2, <1>3, <1>5, <1>6 DEF PassTidy, Ahead
<1>8. PassTidy(new, TRUE, folded, fault, watermark, Len(bucket))
  <2>1. Done \in SUBSET Buckets /\ folded \in SUBSET Buckets /\ Len(bucket) \in Nat
    BY DoneBuckets DEF IInv, Typed
  <2>2. new.folded \subseteq r.folded \cup {n} /\ OpenFaults(new.fault) \subseteq OpenFaults(r.fault)
    BY <1>4, <1>5, <1>6
  <2> QED BY <1>2, <1>3, <1>6, <1>7, <2>1, <2>2, SettlesTidy
<1>9. PassTidy(new, lock' = p, folded, fault, watermark, Len(bucket))
  <2>1. (lock' = p) = TRUE
    BY <1>1
  <2> QED BY <1>8, <2>1, Zenon
<1> QED BY <1>1, <1>9, QuietFaults

LEMMA GivenUpTidy ==
  ASSUME IInv, NEW r, PassSound(r, TRUE, Done, fault), r.todo # <<>>, NEW k \in Nat,
         PassTidy(r, TRUE, folded, fault, watermark, Len(bucket))
  PROVE  PassTidy(GivenUp(r, Head(r.todo), k), TRUE, folded, fault, watermark, Len(bucket))
<1> DEFINE n == Head(r.todo)
           f == [r.fault EXCEPT ![n] = [attempts |-> k, closed |-> "given_up"]]
           m == Merged(r)
           d == r.dirty \cup {"watermark"}
           new == [r EXCEPT !.fault = f, !.watermark = n, !.todo = Tail(r.todo),
                            !.dirty = d, !.det = m, !.failing = FALSE]
<1>1. Shaped(r) /\ r.todo \in Seq(Buckets) /\ r.fault \in [Buckets -> FaultRecords]
  BY DEF PassSound
<1>2. n \in Buckets
  BY <1>1, TodoFacts
<1>3. OpenFaults(f) \subseteq OpenFaults(r.fault) /\ n \notin OpenFaults(f)
  <2> HIDE DEF n
  <2>1. f[n].closed = "given_up" /\ \A b \in Buckets \ {n} : f[b] = r.fault[b]
    BY <1>1, <1>2
  <2> HIDE DEF f
  <2> QED BY <1>2, <2>1 DEF OpenFaults
<1>4. GivenUp(r, n, k) = new
  BY DEF GivenUp
<1> HIDE DEF f, m, n, d
<1>5. /\ new.todo = Tail(r.todo) /\ new.watermark = n
      /\ new.fault = f /\ new.folded = r.folded /\ new.dirty = d
  BY <1>1 DEF Shaped, NoPass
<1> HIDE DEF new
<1>6. "watermark" \in new.dirty
  BY <1>5 DEF d
<1>7. Done \in SUBSET Buckets /\ folded \in SUBSET Buckets /\ Len(bucket) \in Nat
  BY DoneBuckets DEF IInv, Typed
<1>8. n = Head(r.todo)
  BY DEF n
<1>9. PassTidy(new, TRUE, folded, fault, watermark, Len(bucket))
  BY <1>3, <1>5, <1>6, <1>7, <1>8, SettlesTidy
<1> QED BY <1>4, <1>9 DEF n

LEMMA HeldTidy ==
  ASSUME IInv, NEW r, PassSound(r, TRUE, Done, fault), r.todo # <<>>, NEW k \in Nat,
         PassTidy(r, TRUE, folded, fault, watermark, Len(bucket))
  PROVE  PassTidy(Held(r, Head(r.todo), k), TRUE, folded, fault, watermark, Len(bucket))
<1> DEFINE n == Head(r.todo)
           f == [r.fault EXCEPT ![n].attempts = k]
           new == [r EXCEPT !.fault = f, !.failing = TRUE, !.todo = <<>>]
           A == folded \cup r.folded
<1>1. /\ Shaped(r) /\ r.todo \in Seq(Buckets) /\ r.fault \in [Buckets -> FaultRecords]
      /\ r.watermark # None => \A i \in 1..Len(r.todo) : r.todo[i] = r.watermark + i
      /\ r.folded \subseteq Buckets
  BY DEF PassSound
<1>2. /\ Tidy(A, r.fault, r.watermark, Len(bucket)) /\ Ahead(r, r.fault, Len(bucket))
      /\ r.watermark = watermark \/ "watermark" \in r.dirty
  BY DEF PassTidy
<1>3. n \in Buckets /\ n \in Nat /\ 1 \in 1..Len(r.todo) /\ n = r.todo[1]
  BY <1>1, TodoFacts
<1>4. A \subseteq Nat
  BY <1>1, Consts DEF IInv, Typed
<1>5. Held(r, n, k) = new
  BY DEF Held
<1> HIDE DEF n, A
<1>6. OpenFaults(f) \subseteq OpenFaults(r.fault) \cup {n}
  <2>1. \A b \in Buckets \ {n} : f[b] = r.fault[b]
    BY <1>1
  <2> HIDE DEF f
  <2> QED BY <2>1 DEF OpenFaults
<1> HIDE DEF f
<1>7. /\ new.todo = <<>> /\ new.watermark = r.watermark /\ new.fault = f
      /\ new.folded = r.folded /\ new.dirty = r.dirty
  BY <1>1 DEF Shaped, NoPass
<1> HIDE DEF new
<1>8. r.watermark # None => n = r.watermark + 1
  BY <1>1, <1>3
<1>9. r.watermark # None => r.watermark \in Int
  <2> SUFFICES ASSUME r.watermark # None PROVE r.watermark \in Int
    OBVIOUS
  <2>1. r.watermark \in Sees(r, TRUE, Done)
    BY DEF PassSound
  <2>2. r.watermark \in Buckets
    BY <1>1, <2>1, DoneBuckets DEF Sees, Given
  <2> QED BY <2>2 DEF Buckets
<1>10. n <= Len(bucket)
  BY <1>2, <1>3 DEF Ahead
<1>11. \A b \in A : r.watermark # None /\ b <= r.watermark /\ b \notin OpenFaults(f)
  <2> SUFFICES ASSUME NEW b \in A
               PROVE  r.watermark # None /\ b <= r.watermark /\ b \notin OpenFaults(f)
    OBVIOUS
  <2>1. r.watermark # None /\ b <= r.watermark /\ b \notin OpenFaults(r.fault)
    BY <1>2 DEF Tidy
  <2>2. b # n
    BY <1>4, <1>8, <1>9, <2>1
  <2> QED BY <1>6, <2>1, <2>2
<1>12. \A b \in OpenFaults(f) : IF r.watermark = None THEN b <= Len(bucket)
                                ELSE b <= r.watermark + 1
  <2> SUFFICES ASSUME NEW b \in OpenFaults(f)
               PROVE  IF r.watermark = None THEN b <= Len(bucket) ELSE b <= r.watermark + 1
    OBVIOUS
  <2>1. CASE b = n
    BY <1>3, <1>8, <1>9, <1>10, <2>1
  <2>2. CASE b # n
    <3>1. b \in OpenFaults(r.fault)
      BY <1>6, <2>2
    <3> QED BY <1>2, <3>1 DEF Tidy
  <2> QED BY <2>1, <2>2
<1>13. Tidy(folded \cup new.folded, new.fault, new.watermark, Len(bucket))
  BY <1>7, <1>11, <1>12 DEF Tidy, A
<1>14. Ahead(new, new.fault, Len(bucket))
  BY <1>7 DEF Ahead
<1>15. PassTidy(new, TRUE, folded, fault, watermark, Len(bucket))
  BY <1>2, <1>7, <1>13, <1>14 DEF PassTidy
<1> QED BY <1>5, <1>15 DEF n

LEMMA JudgeFailsFaults ==
  ASSUME Alone, IInv, FInv, NEW p \in Passes, JudgeFails(p) PROVE FInv'
<1> DEFINE r == Rows(p)
           n == Head(pass[p].todo)
           k == IF r.fault[n].attempts < BucketAttempts THEN r.fault[n].attempts + 1
                ELSE BucketAttempts
<1>1. /\ UNCHANGED <<bucket, tableVars>> /\ CanWrite(p) /\ pass[p].todo # <<>>
      /\ DOMAIN pass = Passes
  BY DEF JudgeFails, CanWrite, IInv, Typed
<1>2. /\ PassSound(r, TRUE, Done, fault) /\ r.todo = pass[p].todo
      /\ PassTidy(r, TRUE, folded, fault, watermark, Len(bucket))
  BY <1>1, RowsFacts, RowsTidy
<1>3. \/ pass' = [pass EXCEPT ![p] = GivenUp(r, n, k)] /\ lock' = p
      \/ pass' = [pass EXCEPT ![p] = NoPass] /\ lock' = None
      \/ pass' = [pass EXCEPT ![p] = Held(r, n, k)] /\ lock' = p
  BY DEF JudgeFails
<1> HIDE DEF r
<1>4. r.todo \in Seq(Buckets) /\ r.todo # <<>> /\ r.fault \in [Buckets -> FaultRecords]
  BY <1>1, <1>2 DEF PassSound
<1>5. n = Head(r.todo) /\ n \in Buckets
  BY <1>2, <1>4, TodoFacts
<1> HIDE DEF n
<1>6. k \in Nat
  BY <1>4, <1>5, Consts DEF FaultRecords
<1> HIDE DEF k
<1>7. ASSUME NEW new, PassTidy(new, TRUE, folded, fault, watermark, Len(bucket)),
             pass' = [pass EXCEPT ![p] = new], lock' = p
      PROVE  FInv'
  <2>1. (lock' = p) = TRUE
    BY <1>7
  <2>2. PassTidy(new, lock' = p, folded, fault, watermark, Len(bucket))
    BY <1>7, <2>1, Zenon
  <2> QED BY <1>1, <1>7, <2>2, QuietFaults
<1>8. CASE pass' = [pass EXCEPT ![p] = GivenUp(r, n, k)] /\ lock' = p
  <2>1. PassTidy(GivenUp(r, n, k), TRUE, folded, fault, watermark, Len(bucket))
    BY <1>2, <1>4, <1>5, <1>6, GivenUpTidy
  <2> QED BY <1>7, <1>8, <2>1
<1>9. CASE pass' = [pass EXCEPT ![p] = NoPass] /\ lock' = None
  <2>1. NoPass.pc = "idle"
    BY DEF NoPass
  <2> QED BY <1>1, <1>9, <2>1, QuietFaults
<1>10. CASE pass' = [pass EXCEPT ![p] = Held(r, n, k)] /\ lock' = p
  <2>1. PassTidy(Held(r, n, k), TRUE, folded, fault, watermark, Len(bucket))
    BY <1>2, <1>4, <1>5, <1>6, HeldTidy
  <2> QED BY <1>7, <1>10, <2>1
<1> QED BY <1>3, <1>8, <1>9, <1>10

LEMMA RecordFailsFaults ==
  ASSUME Alone, IInv, FInv, NEW p \in Passes, RecordFails(p) PROVE FInv'
<1> DEFINE w == pass[p]
           new == [w EXCEPT !.todo = <<>>]
<1>1. /\ pass' = [pass EXCEPT ![p] = new] /\ UNCHANGED <<bucket, tableVars, lock>>
      /\ DOMAIN pass = Passes /\ Shaped(w)
  BY DEF RecordFails, IInv, Typed, PassesSound, PassSound
<1>2. PassTidy(w, lock = p, folded, fault, watermark, Len(bucket))
  BY DEF RecordFails, CanWrite, FInv
<1> HIDE DEF w
<1>3. /\ new.todo = <<>> /\ new.watermark = w.watermark /\ new.folded = w.folded
      /\ new.fault = w.fault /\ new.dirty = w.dirty
  BY <1>1 DEF Shaped, NoPass
<1> HIDE DEF new
<1>4. PassTidy(new, lock' = p, folded, fault, watermark, Len(bucket))
  BY <1>1, <1>2, <1>3 DEF PassTidy, Ahead
<1> QED BY <1>1, <1>4, QuietFaults

LEMMA CommitFaults == ASSUME Alone, IInv, FInv, NEW p \in Passes, Commit(p) PROVE FInv'
<1> DEFINE w == pass[p]
<1>1. /\ pass' = [pass EXCEPT ![p] = NoPass] /\ UNCHANGED bucket /\ DOMAIN pass = Passes
  BY DEF Commit, IInv, Typed
<1>2. NoPass.pc = "idle"
  BY DEF NoPass
<1>3. CASE lock # p
  <2>1. UNCHANGED tableVars
    BY <1>3 DEF Commit
  <2> QED BY <1>1, <1>2, <2>1, QuietFaults
<1>4. CASE lock = p
  <2>1. /\ watermark' = IF "watermark" \in w.dirty THEN w.watermark ELSE watermark
        /\ fault' = w.fault /\ folded' = folded \cup w.folded
    BY <1>4 DEF Commit
  <2>2. PassTidy(w, lock = p, folded, fault, watermark, Len(bucket))
    BY DEF Commit, FInv
  <2> HIDE DEF w
  <2>3. Tidy(folded \cup w.folded, w.fault, w.watermark, Len(bucket))
    BY <1>4, <2>2 DEF PassTidy
  <2>4. watermark' = w.watermark
    BY <2>1, <2>2 DEF PassTidy
  <2>5. Tidy(folded', fault', watermark', Len(bucket'))
    BY <1>1, <2>1, <2>3, <2>4
  <2>6. \A q \in Passes : pass'[q].pc = "idle"
    BY <1>1, <1>2 DEF Alone
  <2> QED BY <2>5, <2>6 DEF FInv
<1> QED BY <1>3, <1>4

LEMMA NextFaults == ASSUME Alone, IInv, FInv, [Next]_vars PROVE FInv'
<1>1. CASE Arrive
  BY <1>1, ArriveFaults
<1>2. CASE OperatorResolves \/ EditPolicy \/ UNCHANGED vars
  <2>1. UNCHANGED <<bucket, watermark, fault, folded, lock, pass>>
    BY <1>2 DEF OperatorResolves, EditPolicy, vars, tableVars
  <2> QED BY <2>1 DEF FInv
<1>3. ASSUME NEW p \in Passes, PassStep(p) \/ JudgeFails(p) \/ RecordFails(p) \/ Crash(p)
      PROVE  FInv'
  <2>1. CASE Load(p)
    BY <2>1, LoadFaults
  <2>2. CASE ReadState(p)
    BY <2>2, ReadStateFaults
  <2>3. CASE Judge(p)
    BY <2>3, JudgeFaults
  <2>4. CASE Commit(p)
    BY <2>4, CommitFaults
  <2>5. CASE JudgeFails(p)
    BY <2>5, JudgeFailsFaults
  <2>6. CASE RecordFails(p)
    BY <2>6, RecordFailsFaults
  <2>7. CASE Crash(p)
    <3>1. /\ pass' = [pass EXCEPT ![p] = NoPass] /\ UNCHANGED <<bucket, tableVars>>
          /\ DOMAIN pass = Passes /\ NoPass.pc = "idle"
      BY <2>7 DEF Crash, IInv, Typed, NoPass
    <3> QED BY <3>1, QuietFaults
  <2> QED BY <1>3, <2>1, <2>2, <2>3, <2>4, <2>5, <2>6, <2>7 DEF PassStep
<1> QED BY <1>1, <1>2, <1>3 DEF Next

\* Where passes do not overlap, no bucket that was judged keeps an open fault, whatever
\* raised before (_clear_failure, and the sources with an open fault, which are read
\* once per engine).
THEOREM NoStaleFaultHolds == ASSUME \A p, q \in Passes : p = q PROVE Spec => []NoStaleFault
<1>1. Alone
  BY DEF Alone
<1>2. Init => IInv /\ FInv
  BY InitInv, InitFaults
<1>3. IInv /\ FInv /\ [Next]_vars => (IInv /\ FInv)'
  BY <1>1, NextInv, NextFaults
<1>4. IInv /\ FInv => NoStaleFault
  <2> SUFFICES ASSUME IInv, FInv, NEW b \in Buckets, b \in folded
               PROVE  fault[b].attempts = 0 \/ fault[b].closed # "no"
    BY DEF NoStaleFault
  <2>1. b \notin OpenFaults(fault)
    BY DEF FInv, Tidy
  <2>2. fault[b].attempts \in Nat
    BY DEF IInv, Typed, FaultRecords
  <2> QED BY <2>1, <2>2 DEF OpenFaults
<1> QED BY <1>2, <1>3, <1>4, PTL DEF Spec

-----------------------------------------------------------------------------
(* Passes that do not overlap, and no operator: the alert.                 *)

Opened == {"OPEN", "RECOVERING"}

AlertShaped(a) == DOMAIN a = {"on", "noticed"}

\* An alert a beside a detector row d.
Agree(a, d) ==
  /\ a.on <=> d.open
  /\ a.on => a.noticed
  /\ d.open <=> d.state \in Opened

\* The record r of a pass that writes the alert of w marks it.
Marks(r, w) == (r.touched \/ r.alert = w.alert) /\ (w.touched => r.touched)

LEMMA RaiseAlert ==
  ASSUME NEW w, Shaped(w), AlertShaped(w.alert), ~w.muted, NEW b, NEW notify
  PROVE  LET r == Raise(w, b, notify) IN
         /\ AlertShaped(r.alert) /\ Marks(r, w) /\ r.det = w.det
         /\ w.alert.on => r.alert = w.alert
         /\ ~w.alert.on /\ ~b.maintenance => r.alert.on = TRUE /\ r.alert.noticed = notify
<1> DEFINE r == Raise(w, b, notify)
<1>1. CASE b.maintenance
  <2>1. r = w
    BY <1>1 DEF Raise
  <2> QED BY <1>1, <2>1 DEF Marks
<1>2. CASE ~b.maintenance
  <2> DEFINE a == IF w.alert.on THEN w.alert ELSE [on |-> TRUE, noticed |-> notify]
  <2>1. r = [w EXCEPT !.touched = TRUE, !.alert = a]
    BY <1>2 DEF Raise
  <2>2. /\ AlertShaped(a) /\ (w.alert.on => a = w.alert)
        /\ ~w.alert.on => a.on = TRUE /\ a.noticed = notify
    BY DEF AlertShaped
  <2> HIDE DEF a
  <2>3. r.touched = TRUE /\ r.alert = a /\ r.det = w.det
    BY <2>1 DEF Shaped, NoPass
  <2> HIDE DEF r
  <2>4. Marks(r, w)
    BY <2>3 DEF Marks
  <2> QED BY <2>2, <2>3, <2>4 DEF r
<1> QED BY <1>1, <1>2

LEMMA ResolveAlert ==
  ASSUME NEW w, Shaped(w), AlertShaped(w.alert)
  PROVE  LET r == ResolveIncident(w) IN
         /\ AlertShaped(r.alert) /\ r.alert.on = FALSE /\ r.det.open = FALSE
         /\ r.det.state = w.det.state /\ (w.touched => r.touched)
         /\ w.alert.on => r.touched
<1> DEFINE m == MoveIncident(w, "RESOLVED")
           x == m.touched \/ w.alert.on
<1>1. Same(m, w) /\ m.alert = w.alert /\ m.touched = w.touched /\ m.det = w.det
  BY SameMove
<1>2. ResolveIncident(w) =
        [m EXCEPT !.det.open = FALSE, !.det.active = None, !.alert.on = FALSE, !.touched = x]
  BY Zenon DEF ResolveIncident
<1>3. (w.touched => x) /\ (w.alert.on => x)
  BY <1>1
<1> DEFINE a == [m.alert EXCEPT !.on = FALSE]
           d == [m.det EXCEPT !.open = FALSE, !.active = None]
<1> HIDE DEF m, x
<1>4. ResolveIncident(w) = [m EXCEPT !.det = d, !.alert = a, !.touched = x]
  BY <1>1, <1>2 DEF Same, Shaped, NoPass
<1>5. AlertShaped(a) /\ a.on = FALSE
  BY <1>1 DEF AlertShaped
<1>6. d.open = FALSE /\ d.state = w.det.state
  BY <1>1 DEF Same, Shaped, Columns
<1> HIDE DEF a, d
<1>7. ResolveIncident(w).alert = a /\ ResolveIncident(w).det = d /\ ResolveIncident(w).touched = x
  BY <1>1, <1>4 DEF Same, Shaped, NoPass
<1> QED BY <1>3, <1>5, <1>6, <1>7

\* next_state opens outside maintenance only, and an open incident ends by resolving.
LEMMA NextStateFacts ==
  ASSUME NEW d, NEW b
  PROVE  LET t == NextState(d, b) IN
         /\ d.state \in Opened => t \in Opened \cup {"RESOLVED"}
         /\ d.state \notin Opened =>
              t # "RECOVERING" /\ (t = "OPEN" => ~b.maintenance) /\ (t = "RESOLVED" => t = d.state)
<1> DEFINE t == NextState(d, b)
<1>1. Signal(b) = "anomalous" => ~b.maintenance
  BY DEF Signal
<1>2. CASE d.state \in Opened
  <2>1. OnAnomalous(d) \in Opened
    BY <1>2 DEF OnAnomalous, Opened
  <2>2. OnHealthy(d) \in Opened \cup {"RESOLVED"}
    BY <1>2 DEF OnHealthy, Opened
  <2>3. t \in {d.state, OnAnomalous(d), OnHealthy(d)}
    BY <1>2 DEF NextState, Opened, ActiveStates
  <2> QED BY <1>2, <2>1, <2>2, <2>3
<1>3. CASE d.state \notin Opened
  <2>1. OnAnomalous(d) \in {"OPEN", "CANDIDATE", d.state}
    BY <1>3 DEF OnAnomalous, Opened
  <2>2. OnHealthy(d) = "NORMAL"
    BY <1>3 DEF OnHealthy, Opened
  <2>3. \/ t \in {"SUPPRESSED", "NORMAL", "INSUFFICIENT_DATA", d.state, OnHealthy(d)}
        \/ t = OnAnomalous(d) /\ Signal(b) = "anomalous"
    BY DEF NextState
  <2> HIDE DEF t
  <2>4. t # "RECOVERING" /\ (t = "OPEN" => ~b.maintenance) /\ (t = "RESOLVED" => t = d.state)
    BY <1>1, <1>3, <2>1, <2>2, <2>3 DEF Opened
  <2> QED BY <1>3, <2>4 DEF t
<1> QED BY <1>2, <1>3

\* _apply_transition keeps the alert and the incident together.
LEMMA TransitionAlert ==
  ASSUME NEW w, Shaped(w), AlertShaped(w.alert), ~w.muted, NEW b, NEW previous,
         w.alert.on <=> w.det.open, w.alert.on => w.alert.noticed,
         w.det.open <=> previous \in Opened,
         previous \in Opened => w.det.state \in Opened \cup {"RESOLVED"},
         previous \notin Opened =>
           /\ w.det.state # "RECOVERING" /\ (w.det.state = "OPEN" => ~b.maintenance)
           /\ w.det.state = "RESOLVED" => w.det.state = previous
  PROVE  LET r == Transition(w, b, previous) IN
         AlertShaped(r.alert) /\ Agree(r.alert, r.det) /\ Marks(r, w)
<1> DEFINE r == Transition(w, b, previous)
           target == w.det.state
           Goal(v) == AlertShaped(v.alert) /\ Agree(v.alert, v.det) /\ Marks(v, w)
<1>1. CASE target = previous
  <2>1. Agree(w.alert, w.det)
    BY <1>1 DEF Agree
  <2>2. Goal(w)
    BY <2>1 DEF Marks
  <2>3. CASE target = "OPEN"
    <3>1. r = Raise(w, b, FALSE)
      BY <1>1, <2>3 DEF Transition
    <3>2. w.alert.on
      BY <1>1, <2>3 DEF Opened
    <3> DEFINE z == Raise(w, b, FALSE)
    <3>a. /\ AlertShaped(z.alert) /\ Marks(z, w) /\ z.det = w.det
          /\ w.alert.on => z.alert = w.alert
          /\ ~w.alert.on /\ ~b.maintenance => z.alert.on = TRUE /\ z.alert.noticed = FALSE
      BY RaiseAlert, Zenon
    <3> HIDE DEF z
    <3>3. AlertShaped(z.alert) /\ Marks(z, w) /\ z.det = w.det /\ z.alert = w.alert
      BY <3>2, <3>a
    <3>4. Agree(z.alert, z.det)
      BY <2>1, <3>3
    <3>5. r = z
      BY <3>1 DEF z
    <3> HIDE DEF r
    <3> QED BY <3>3, <3>4, <3>5 DEF r
  <2>4. CASE target # "OPEN"
    <3>1. r = w
      BY <1>1, <2>4 DEF Transition
    <3> QED BY <2>2, <3>1
  <2> QED BY <2>3, <2>4
<1>2. CASE target # previous /\ target = "CANDIDATE"
  <2> DEFINE i == NextId(w)
             d == [w.det EXCEPT !.active = i]
             v == [w EXCEPT !.incident[i] = "CANDIDATE", !.det.active = i]
  <2>1. r = v
    BY <1>2 DEF Transition
  <2>2. previous \notin Opened
    BY <1>2 DEF Opened
  <2> HIDE DEF i
  <2>3. v.alert = w.alert /\ v.touched = w.touched /\ v.det = d
    BY DEF Shaped, NoPass, Columns
  <2>4. d.open = w.det.open /\ d.state = "CANDIDATE"
    BY <1>2 DEF Shaped, Columns
  <2> HIDE DEF v, d
  <2>5. Goal(v)
    BY <2>2, <2>3, <2>4 DEF Agree, Marks, Opened
  <2> QED BY <2>1, <2>5
<1>3. CASE target # previous /\ target = "OPEN"
  <2> DEFINE i == LiveIncident(w)
             d == [w.det EXCEPT !.active = i, !.open = TRUE]
             v == [w EXCEPT !.incident[i] = "OPEN", !.det.active = i, !.det.open = TRUE]
             z == Raise(v, b, TRUE)
  <2>1. r = z
    BY <1>3 DEF Transition
  <2> HIDE DEF i
  <2>2. /\ Shaped(v) /\ v.alert = w.alert /\ v.touched = w.touched /\ v.det = d /\ v.muted = w.muted
    BY DEF Shaped, NoPass, Columns
  <2>3. d.open = TRUE /\ d.state = "OPEN"
    BY <1>3 DEF Shaped, Columns
  <2> HIDE DEF v, d
  <2>a. Shaped(v) /\ AlertShaped(v.alert) /\ ~v.muted
    BY <2>2
  <2>b. /\ AlertShaped(z.alert) /\ Marks(z, v) /\ z.det = v.det
        /\ v.alert.on => z.alert = v.alert
        /\ ~v.alert.on /\ ~b.maintenance => z.alert.on = TRUE /\ z.alert.noticed = TRUE
    BY <2>a, RaiseAlert, Zenon
  <2> HIDE DEF z
  <2>4. /\ AlertShaped(z.alert) /\ Marks(z, v) /\ z.det = v.det
        /\ w.alert.on => z.alert = w.alert
        /\ ~w.alert.on /\ ~b.maintenance => z.alert.on = TRUE /\ z.alert.noticed = TRUE
    BY <2>2, <2>b
  <2>5. w.alert.on \/ ~b.maintenance
    BY <1>3
  <2> HIDE DEF z
  <2>6. Agree(z.alert, z.det)
    BY <2>2, <2>3, <2>4, <2>5 DEF Agree, Opened
  <2>7. Marks(z, w)
    BY <2>2, <2>4 DEF Marks
  <2>8. Goal(z)
    BY <2>4, <2>6, <2>7
  <2> QED BY <2>1, <2>8
<1>4. CASE target # previous /\ target = "RECOVERING"
  <2> DEFINE v == MoveIncident(w, "RECOVERING")
  <2>1. r = v
    BY <1>4 DEF Transition
  <2>2. v.alert = w.alert /\ v.touched = w.touched /\ v.det = w.det
    BY SameMove
  <2> HIDE DEF v
  <2>3. previous \in Opened
    BY <1>4
  <2>4. Goal(v)
    BY <1>4, <2>2, <2>3 DEF Agree, Marks, Opened
  <2> QED BY <2>1, <2>4
<1>5. CASE target # previous /\ target = "RESOLVED"
  <2> DEFINE v == ResolveIncident(w)
  <2>1. r = v
    BY <1>5 DEF Transition
  <2>2. /\ AlertShaped(v.alert) /\ v.alert.on = FALSE /\ v.det.open = FALSE
        /\ v.det.state = w.det.state /\ (w.touched => v.touched) /\ (w.alert.on => v.touched)
    BY ResolveAlert
  <2> HIDE DEF v
  <2>3. previous \in Opened /\ w.alert.on
    BY <1>5
  <2>4. Goal(v)
    BY <1>5, <2>2, <2>3 DEF Agree, Marks, Opened
  <2> QED BY <2>1, <2>4
<1>6. CASE target # previous /\ target \notin {"CANDIDATE", "OPEN", "RECOVERING", "RESOLVED"}
  <2>1. previous \notin Opened /\ ~w.alert.on
    BY <1>6 DEF Opened
  <2>2. ASSUME NEW m, Shaped(m), m.alert = w.alert, m.touched = w.touched,
               m.det = w.det, NEW d, DOMAIN d = Columns, d.open = FALSE, d.state = w.det.state
        PROVE  Goal([m EXCEPT !.det = d])
    <3> DEFINE v == [m EXCEPT !.det = d]
    <3>1. v.alert = w.alert /\ v.touched = w.touched /\ v.det = d
      BY <2>2 DEF Shaped, NoPass
    <3> HIDE DEF v
    <3>2. Goal(v)
      BY <1>6, <2>1, <2>2, <3>1 DEF Agree, Marks, Opened
    <3> QED BY <3>2 DEF v
  <2>3. CASE target = "SUPPRESSED"
    <3> DEFINE m == MoveIncident(w, "SUPPRESSED")
               d == [w.det EXCEPT !.open = FALSE]
    <3>1. /\ Shaped(m) /\ m.alert = w.alert /\ m.touched = w.touched /\ m.det = w.det
      BY SameMove DEF Same
    <3>2. r = [m EXCEPT !.det.open = FALSE]
      BY <1>6, <2>3 DEF Transition
    <3> HIDE DEF m, r
    <3>3. r = [m EXCEPT !.det = d]
      BY <3>1, <3>2
    <3>4. DOMAIN d = Columns /\ d.open = FALSE /\ d.state = w.det.state
      BY DEF Shaped, Columns
    <3> HIDE DEF d
    <3> QED BY <2>2, <3>1, <3>3, <3>4 DEF r
  <2>4. CASE target # "SUPPRESSED"
    <3> DEFINE m == IF previous = "CANDIDATE" THEN MoveIncident(w, target) ELSE w
               d == [w.det EXCEPT !.open = FALSE, !.active = None]
    <3>1. /\ Shaped(m) /\ m.alert = w.alert /\ m.touched = w.touched /\ m.det = w.det
      BY SameMove DEF Same
    <3>2. r = [m EXCEPT !.det.open = FALSE, !.det.active = None]
      BY <1>6, <2>4 DEF Transition
    <3> HIDE DEF m, r
    <3>3. r = [m EXCEPT !.det = d]
      BY <3>1, <3>2 DEF Shaped, NoPass
    <3>4. DOMAIN d = Columns /\ d.open = FALSE /\ d.state = w.det.state
      BY DEF Shaped, Columns
    <3> HIDE DEF d
    <3> QED BY <2>2, <3>1, <3>3, <3>4 DEF r
  <2> QED BY <2>3, <2>4
<1> QED BY <1>1, <1>2, <1>3, <1>4, <1>5, <1>6
\* What the judgement of a bucket does to the alert and to the detector row.
LEMMA ApplyAlert ==
  ASSUME NEW w, Shaped(w), AlertShaped(w.alert), ~w.muted, Agree(w.alert, w.det), NEW n
  PROVE  LET r == Apply(w, n) IN
         Shaped(r) /\ AlertShaped(r.alert) /\ Agree(r.alert, r.det) /\ Marks(r, w)
         /\ r.muted = w.muted
<1>1. CASE w.det.last >= n
  <2>1. Apply(w, n) = w
    BY <1>1, ApplyFacts
  <2> QED BY <2>1 DEF Marks
<1>2. CASE ~(w.det.last >= n)
  <2> DEFINE b == bucket[n]
             a == Advance(w.det, Signal(b))
             d == [a EXCEPT !.last = n]
             e == [d EXCEPT !.state = NextState(d, b)]
             v == [w EXCEPT !.det = e, !.folded = @ \cup {n}]
             r == Transition(v, b, w.det.state)
  <2>1. Apply(w, n) = r
    BY <1>2 DEF Apply
  <2>2. DOMAIN a = Columns /\ a.state = w.det.state /\ a.open = w.det.open
    BY AdvanceKeeps DEF Shaped
  <2> HIDE DEF a, b
  <2>3. DOMAIN d = Columns /\ d.state = w.det.state /\ d.open = w.det.open
    BY <2>2 DEF Columns
  <2> HIDE DEF d
  <2>4. DOMAIN e = Columns /\ e.state = NextState(d, b) /\ e.open = w.det.open
    BY <2>3 DEF Columns
  <2> HIDE DEF e
  <2>5. /\ Shaped(v) /\ v.alert = w.alert /\ v.touched = w.touched /\ v.det = e
        /\ v.muted = w.muted
    BY <2>4 DEF Shaped, NoPass
  <2> HIDE DEF v
  <2>6. /\ w.det.state \in Opened => v.det.state \in Opened \cup {"RESOLVED"}
        /\ w.det.state \notin Opened =>
             /\ v.det.state # "RECOVERING" /\ (v.det.state = "OPEN" => ~b.maintenance)
             /\ v.det.state = "RESOLVED" => v.det.state = w.det.state
    BY <2>3, <2>4, <2>5, NextStateFacts
  <2>7. /\ AlertShaped(v.alert) /\ ~v.muted /\ (v.alert.on <=> v.det.open)
        /\ v.alert.on => v.alert.noticed
        /\ v.det.open <=> w.det.state \in Opened
    BY <2>4, <2>5 DEF Agree
  <2>8. AlertShaped(r.alert) /\ Agree(r.alert, r.det) /\ Marks(r, v)
    BY <2>5, <2>6, <2>7, TransitionAlert
  <2>9. Shaped(r) /\ r.muted = v.muted
    BY <2>5, SameTransition DEF Same
  <2> HIDE DEF r
  <2>10. Marks(r, w)
    BY <2>5, <2>8 DEF Marks
  <2> QED BY <2>1, <2>5, <2>8, <2>9, <2>10
<1> QED BY <1>1, <1>2

LEMMA ClearFaultsAlert ==
  ASSUME NEW w, Shaped(w)
  PROVE  LET r == ClearFaults(w) IN
         Shaped(r) /\ r.alert = w.alert /\ r.touched = w.touched /\ r.det = w.det
         /\ r.muted = w.muted /\ r.dirty = w.dirty /\ r.pc = w.pc
         /\ r.incident = w.incident /\ r.folded = w.folded
<1>1. CASE ~w.failing
  BY <1>1 DEF ClearFaults
<1>2. CASE w.failing
  <2> DEFINE f == [b \in Buckets |-> IF b \in OpenFaults(w.fault)
                     THEN [w.fault[b] EXCEPT !.closed = "resolved"] ELSE w.fault[b]]
  <2>1. ClearFaults(w) = [w EXCEPT !.failing = FALSE, !.fault = f]
    BY <1>2 DEF ClearFaults
  <2> HIDE DEF f
  <2> QED BY <2>1 DEF Shaped, NoPass
<1> QED BY <1>1, <1>2

\* The alert as a pass would read it.
AlertOf(w, a) == IF w.touched THEN w.alert ELSE a

\* The record w of a pass beside the committed alert a and detector row d: what it
\* would commit agrees, and a column it has not written is the committed one.
PassAgrees(w, a, d) ==
  /\ ~w.muted
  /\ w.pc # "ready" => ~w.touched
  /\ w.pc = "ready" => /\ AlertShaped(AlertOf(w, a)) /\ Agree(AlertOf(w, a), w.det)
                       /\ \A c \in Columns \ w.dirty : w.det[c] = d[c]

\* The inductive invariant of the alert.
AInv ==
  /\ recordOnly = FALSE
  /\ AlertShaped(alert) /\ Agree(alert, det)
  /\ \A p \in Passes : PassAgrees(pass[p], alert, det)

LEMMA NoPassAgrees == ASSUME NEW a, NEW d PROVE PassAgrees(NoPass, a, d)
BY DEF PassAgrees, NoPass

LEMMA InitAlert == Init => AInv
<1> SUFFICES ASSUME Init PROVE AInv
  OBVIOUS
<1>1. alert = NoAlert /\ det = NewDetector /\ recordOnly = FALSE
  BY DEF Init
<1>2. AlertShaped(NoAlert) /\ Agree(NoAlert, NewDetector)
  BY DEF AlertShaped, Agree, NoAlert, NewDetector, Opened
<1>3. \A p \in Passes : pass[p] = NoPass
  BY DEF Init
<1> QED BY <1>1, <1>2, <1>3, NoPassAgrees DEF AInv

\* A step of the only pass that commits nothing.
LEMMA QuietAlert ==
  ASSUME Alone, AInv, DOMAIN pass = Passes, NEW p \in Passes, NEW new,
         pass' = [pass EXCEPT ![p] = new],
         UNCHANGED <<tableVars, recordOnly>>, PassAgrees(new, alert, det)
  PROVE  AInv'
<1>1. UNCHANGED <<alert, det, recordOnly>>
  BY DEF tableVars
<1>2. pass'[p] = new /\ \A q \in Passes : q = p
  BY DEF Alone
<1> QED BY <1>1, <1>2 DEF AInv

LEMMA LoadAlert == ASSUME Alone, IInv, AInv, NEW p \in Passes, Load(p) PROVE AInv'
<1> DEFINE x == OpenFaults(fault) # {}
           new == [NoPass EXCEPT !.pc = "loaded", !.todo = Pending, !.watermark = watermark,
                                 !.muted = recordOnly, !.failing = x]
<1>1. /\ pass' = [pass EXCEPT ![p] = new] /\ UNCHANGED <<tableVars, recordOnly>>
      /\ DOMAIN pass = Passes
  BY DEF Load, IInv, Typed
<1> HIDE DEF x
<1>2. new.pc = "loaded" /\ new.touched = FALSE /\ new.muted = recordOnly
  BY DEF NoPass
<1> HIDE DEF new
<1>3. PassAgrees(new, alert, det)
  BY <1>2 DEF PassAgrees, AInv
<1> QED BY <1>1, <1>3, QuietAlert

LEMMA ReadStateAlert == ASSUME Alone, IInv, AInv, NEW p \in Passes, ReadState(p) PROVE AInv'
<1> DEFINE w == pass[p]
           new == [w EXCEPT !.pc = "ready", !.det = det]
<1>1. /\ pass' = [pass EXCEPT ![p] = new] /\ UNCHANGED <<tableVars, recordOnly>>
      /\ DOMAIN pass = Passes /\ Shaped(w)
  BY DEF ReadState, IInv, Typed, PassesSound, PassSound
<1>2. ~w.muted /\ ~w.touched
  BY DEF ReadState, AInv, PassAgrees
<1> HIDE DEF w
<1>3. new.pc = "ready" /\ new.det = det /\ new.touched = w.touched /\ new.muted = w.muted
  BY <1>1 DEF Shaped, NoPass
<1> HIDE DEF new
<1>4. AlertOf(new, alert) = alert
  BY <1>2, <1>3 DEF AlertOf
<1>5. PassAgrees(new, alert, det)
  BY <1>2, <1>3, <1>4 DEF PassAgrees, AInv
<1> QED BY <1>1, <1>5, QuietAlert

\* A pass with the rows it reads has the alert it would read.
LEMMA RowsAlert ==
  ASSUME IInv, AInv, NEW p \in Passes, CanWrite(p)
  PROVE  LET r == Rows(p) IN
         /\ Shaped(r) /\ r.pc = "ready" /\ ~r.muted /\ r.det = pass[p].det /\ r.dirty = pass[p].dirty
         /\ AlertShaped(r.alert) /\ Agree(r.alert, r.det)
         /\ \A c \in Columns \ r.dirty : r.det[c] = det[c]
         /\ ~r.touched => r.alert = alert
<1> DEFINE w == pass[p]
           r == Rows(p)
<1>1. Shaped(w) /\ w.pc = "ready" /\ PassAgrees(w, alert, det)
  BY DEF IInv, PassesSound, PassSound, CanWrite, AInv
<1>2. /\ Shaped(r) /\ r.pc = w.pc /\ r.det = w.det /\ r.dirty = w.dirty /\ r.muted = w.muted
      /\ r.touched = w.touched /\ r.alert = IF w.touched THEN w.alert ELSE alert
  BY <1>1 DEF Rows, Shaped, NoPass
<1> HIDE DEF r, w
<1>3. r.alert = AlertOf(w, alert)
  BY <1>2 DEF AlertOf
<1> QED BY <1>1, <1>2, <1>3 DEF PassAgrees, AlertOf, r, w

LEMMA JudgeAlert == ASSUME Alone, IInv, AInv, NEW p \in Passes, Judge(p) PROVE AInv'
<1> DEFINE r == Rows(p)
           n == Head(pass[p].todo)
           a == Apply(r, n)
           w == ClearFaults(a)
           x == {c \in Columns : w.det[c] # pass[p].det[c]}
           y == w.dirty \cup x \cup {"watermark"}
           new == [w EXCEPT !.todo = Tail(@), !.watermark = n, !.dirty = y]
<1>1. /\ pass' = [pass EXCEPT ![p] = new] /\ UNCHANGED <<tableVars, recordOnly>>
      /\ CanWrite(p) /\ DOMAIN pass = Passes
  BY DEF Judge, CanWrite, IInv, Typed
<1>2. /\ Shaped(r) /\ r.pc = "ready" /\ ~r.muted /\ r.det = pass[p].det /\ r.dirty = pass[p].dirty
      /\ AlertShaped(r.alert) /\ Agree(r.alert, r.det)
      /\ \A c \in Columns \ r.dirty : r.det[c] = det[c]
      /\ ~r.touched => r.alert = alert
  BY <1>1, RowsAlert
<1> HIDE DEF r, n
<1>3. /\ Shaped(a) /\ AlertShaped(a.alert) /\ Agree(a.alert, a.det) /\ Marks(a, r)
      /\ a.muted = r.muted
  BY <1>2, ApplyAlert
<1>4. a.pc = r.pc /\ a.dirty = r.dirty
  BY <1>2, ApplyFacts
<1> HIDE DEF a
<1>5. /\ Shaped(w) /\ w.alert = a.alert /\ w.touched = a.touched /\ w.det = a.det
      /\ w.muted = a.muted /\ w.dirty = a.dirty /\ w.pc = a.pc
  BY <1>3, ClearFaultsAlert
<1>6. \A c \in Columns \ y : w.det[c] = det[c]
  <2> HIDE DEF w
  <2> QED BY <1>2, <1>4, <1>5
<1> HIDE DEF w, x, y
<1>7. /\ new.pc = w.pc /\ new.alert = w.alert /\ new.touched = w.touched /\ new.det = w.det
      /\ new.muted = w.muted /\ new.dirty = y
  BY <1>5 DEF Shaped, NoPass
<1> HIDE DEF new
<1>8. AlertOf(new, alert) = a.alert
  BY <1>2, <1>3, <1>5, <1>7 DEF AlertOf, Marks
<1>9. PassAgrees(new, alert, det)
  BY <1>2, <1>3, <1>4, <1>5, <1>6, <1>7, <1>8 DEF PassAgrees
<1> QED BY <1>1, <1>9, QuietAlert

\* Where a column that is not dirty is the committed one, a row read back is the row.
LEMMA MergedSame ==
  ASSUME NEW w, DOMAIN w.det = Columns, \A c \in Columns \ w.dirty : w.det[c] = det[c]
  PROVE  \A c \in Columns : Merged(w)[c] = w.det[c]
BY DEF Merged

LEMMA JudgeFailsAlert == ASSUME Alone, IInv, AInv, NEW p \in Passes, JudgeFails(p) PROVE AInv'
<1> DEFINE r == Rows(p)
           n == Head(pass[p].todo)
           k == IF r.fault[n].attempts < BucketAttempts THEN r.fault[n].attempts + 1
                ELSE BucketAttempts
<1>1. /\ UNCHANGED <<tableVars, recordOnly>> /\ CanWrite(p) /\ DOMAIN pass = Passes
  BY DEF JudgeFails, IInv, Typed
<1>2. /\ Shaped(r) /\ r.pc = "ready" /\ ~r.muted
      /\ AlertShaped(r.alert) /\ Agree(r.alert, r.det)
      /\ \A c \in Columns \ r.dirty : r.det[c] = det[c]
      /\ ~r.touched => r.alert = alert
  BY <1>1, RowsAlert
<1>3. \/ pass' = [pass EXCEPT ![p] = GivenUp(r, n, k)]
      \/ pass' = [pass EXCEPT ![p] = NoPass]
      \/ pass' = [pass EXCEPT ![p] = Held(r, n, k)]
  BY DEF JudgeFails
<1> HIDE DEF r, n, k
<1>4. CASE pass' = [pass EXCEPT ![p] = GivenUp(r, n, k)]
  <2> DEFINE f == [r.fault EXCEPT ![n] = [attempts |-> k, closed |-> "given_up"]]
             m == Merged(r)
             d == r.dirty \cup {"watermark"}
             new == [r EXCEPT !.fault = f, !.watermark = n, !.todo = Tail(r.todo),
                              !.dirty = d, !.det = m, !.failing = FALSE]
  <2>1. GivenUp(r, n, k) = new
    BY DEF GivenUp
  <2>2. \A c \in Columns : m[c] = r.det[c]
    BY <1>2, MergedSame DEF Shaped
  <2>3. m.open = r.det.open /\ m.state = r.det.state
    BY <2>2 DEF Columns
  <2>4. \A c \in Columns \ d : m[c] = det[c]
    BY <1>2, <2>2
  <2> HIDE DEF f, m, d
  <2>5. /\ new.pc = "ready" /\ new.muted = r.muted /\ new.alert = r.alert
        /\ new.touched = r.touched /\ new.det = m /\ new.dirty = d
    BY <1>2 DEF Shaped, NoPass
  <2> HIDE DEF new
  <2>6. AlertOf(new, alert) = r.alert
    BY <1>2, <2>5 DEF AlertOf
  <2>7. Agree(r.alert, m)
    BY <1>2, <2>3 DEF Agree
  <2>8. PassAgrees(new, alert, det)
    BY <1>2, <2>4, <2>5, <2>6, <2>7 DEF PassAgrees
  <2> QED BY <1>1, <1>4, <2>1, <2>8, QuietAlert
<1>5. CASE pass' = [pass EXCEPT ![p] = NoPass]
  BY <1>1, <1>5, NoPassAgrees, QuietAlert
<1>6. CASE pass' = [pass EXCEPT ![p] = Held(r, n, k)]
  <2> DEFINE f == [r.fault EXCEPT ![n].attempts = k]
             new == [r EXCEPT !.fault = f, !.failing = TRUE, !.todo = <<>>]
  <2>1. Held(r, n, k) = new
    BY DEF Held
  <2> HIDE DEF f
  <2>2. /\ new.pc = "ready" /\ new.muted = r.muted /\ new.alert = r.alert
        /\ new.touched = r.touched /\ new.det = r.det /\ new.dirty = r.dirty
    BY <1>2 DEF Shaped, NoPass
  <2> HIDE DEF new
  <2>3. AlertOf(new, alert) = r.alert
    BY <1>2, <2>2 DEF AlertOf
  <2>4. PassAgrees(new, alert, det)
    BY <1>2, <2>2, <2>3 DEF PassAgrees
  <2> QED BY <1>1, <1>6, <2>1, <2>4, QuietAlert
<1> QED BY <1>3, <1>4, <1>5, <1>6

LEMMA RecordFailsAlert ==
  ASSUME Alone, IInv, AInv, NEW p \in Passes, RecordFails(p) PROVE AInv'
<1> DEFINE w == pass[p]
           new == [w EXCEPT !.todo = <<>>]
<1>1. /\ pass' = [pass EXCEPT ![p] = new] /\ UNCHANGED <<tableVars, recordOnly>>
      /\ DOMAIN pass = Passes /\ Shaped(w) /\ PassAgrees(w, alert, det)
  BY DEF RecordFails, IInv, Typed, PassesSound, PassSound, AInv
<1> HIDE DEF w
<1>2. /\ new.pc = w.pc /\ new.muted = w.muted /\ new.alert = w.alert
      /\ new.touched = w.touched /\ new.det = w.det /\ new.dirty = w.dirty
  BY <1>1 DEF Shaped, NoPass
<1> HIDE DEF new
<1>3. AlertOf(new, alert) = AlertOf(w, alert)
  BY <1>2 DEF AlertOf
<1>4. PassAgrees(new, alert, det)
  BY <1>1, <1>2, <1>3 DEF PassAgrees
<1> QED BY <1>1, <1>4, QuietAlert

LEMMA CommitAlert == ASSUME Alone, IInv, AInv, NEW p \in Passes, Commit(p) PROVE AInv'
<1> DEFINE w == pass[p]
<1>1. /\ pass' = [pass EXCEPT ![p] = NoPass] /\ UNCHANGED recordOnly /\ DOMAIN pass = Passes
  BY DEF Commit, IInv, Typed
<1>2. CASE lock # p
  <2>1. UNCHANGED tableVars
    BY <1>2 DEF Commit
  <2> QED BY <1>1, <2>1, NoPassAgrees, QuietAlert
<1>3. CASE lock = p
  <2>1. det' = Merged(w) /\ alert' = AlertOf(w, alert)
    BY <1>3 DEF Commit, AlertOf
  <2>2. Shaped(w) /\ PassAgrees(w, alert, det) /\ w.pc = "ready"
    BY DEF Commit, IInv, PassesSound, PassSound, AInv
  <2> HIDE DEF w
  <2>3. AlertShaped(alert') /\ Agree(alert', w.det)
    BY <2>1, <2>2 DEF PassAgrees
  <2>4. \A c \in Columns : Merged(w)[c] = w.det[c]
    BY <2>2, MergedSame DEF PassAgrees, Shaped
  <2>5. det'.open = w.det.open /\ det'.state = w.det.state
    BY <2>1, <2>4 DEF Columns
  <2>6. Agree(alert', det')
    BY <2>3, <2>5 DEF Agree
  <2>7. \A q \in Passes : pass'[q] = NoPass
    BY <1>1 DEF Alone
  <2> QED BY <1>1, <2>3, <2>6, <2>7, NoPassAgrees DEF AInv
<1> QED BY <1>2, <1>3

LEMMA NextAlert == ASSUME Alone, Operator = FALSE, IInv, AInv, [Next]_vars PROVE AInv'
<1>1. CASE Arrive \/ UNCHANGED vars
  <2>1. UNCHANGED <<alert, det, recordOnly, pass>>
    BY <1>1 DEF Arrive, vars, tableVars
  <2> QED BY <2>1 DEF AInv
<1>2. ASSUME NEW p \in Passes, PassStep(p) \/ JudgeFails(p) \/ RecordFails(p) \/ Crash(p)
      PROVE  AInv'
  <2>1. CASE Load(p)
    BY <2>1, LoadAlert
  <2>2. CASE ReadState(p)
    BY <2>2, ReadStateAlert
  <2>3. CASE Judge(p)
    BY <2>3, JudgeAlert
  <2>4. CASE Commit(p)
    BY <2>4, CommitAlert
  <2>5. CASE JudgeFails(p)
    BY <2>5, JudgeFailsAlert
  <2>6. CASE RecordFails(p)
    BY <2>6, RecordFailsAlert
  <2>7. CASE Crash(p)
    <3>1. /\ pass' = [pass EXCEPT ![p] = NoPass] /\ UNCHANGED <<tableVars, recordOnly>>
          /\ DOMAIN pass = Passes
      BY <2>7 DEF Crash, IInv, Typed
    <3> QED BY <3>1, NoPassAgrees, QuietAlert
  <2> QED BY <1>2, <2>1, <2>2, <2>3, <2>4, <2>5, <2>6, <2>7 DEF PassStep
<1>3. ~OperatorResolves /\ ~EditPolicy
  BY DEF OperatorResolves, EditPolicy
<1> QED BY <1>1, <1>2, <1>3 DEF Next

\* Where passes do not overlap and no operator intervenes, the committed alert is active
\* exactly while an incident is open, and one that is active was announced: through
\* every state of the lifecycle, in and out of maintenance, and with passes that raise,
\* are undone or die between the incident's write and the alert's (_apply_transition,
\* _resolve, open_or_update).
THEOREM AlertAgreesHolds ==
  ASSUME \A p, q \in Passes : p = q, Operator = FALSE
  PROVE  Spec => []AlertAgrees
<1>1. Alone
  BY DEF Alone
<1>2. Init => IInv /\ AInv
  BY InitInv, InitAlert
<1>3. IInv /\ AInv /\ [Next]_vars => (IInv /\ AInv)'
  BY <1>1, NextInv, NextAlert
<1>4. AInv => AlertAgrees
  BY DEF AInv, Agree, AlertAgrees
<1> QED BY <1>2, <1>3, <1>4, PTL DEF Spec
-----------------------------------------------------------------------------
(* Passes that do not overlap: the incident.                               *)

DetRecords ==
  [state : States, ca : Nat, ch : Nat, last : Nat, open : BOOLEAN, active : Incidents \cup {None}]
AlertRecords == [on : BOOLEAN, noticed : BOOLEAN]

\* The counters of a detector row count the verdicts in a row that end at bucket n.
Counts(q, F, n, d) ==
  /\ d.ca = Cardinality(RunTo(q, F, n, "anomalous"))
  /\ d.ch = Cardinality(RunTo(q, F, n, "healthy"))

\* The state of a detector row is what its counters and the verdicts F have earned.
Standing(q, F, d) ==
  /\ d.state \in Opened => Unresolved(q, F) /\ d.ch < ResolveAfter /\ (d.state = "OPEN" => d.ch = 0)
  /\ d.state = "RESOLVED" => d.ch >= ResolveAfter
  /\ NoMaintenance(q) /\ d.state \notin Opened =>
       ~Unresolved(q, F) /\ d.ca < OpenAfter /\ d.state # "SUPPRESSED"

Earned(q, F, d) ==
  /\ F \subseteq 1..Len(q) /\ \A i \in F : i <= d.last
  /\ Counts(q, F, d.last, d) /\ Standing(q, F, d)
  /\ d.open <=> d.state \in Opened

\* The incident rows beside a detector row: an active one is the one it names, in its
\* state, and there are no more rows than buckets.
Named(I, d) ==
  /\ I \in [Incidents -> States \cup {"unused"}]
  /\ \A i \in Incidents : I[i] # "unused" => i <= d.last
  /\ d.active # None => d.active <= d.last
  /\ \A i \in Incidents : I[i] \in ActiveStates => d.active = i /\ d.state = I[i]

LEMMA RunFinite ==
  ASSUME NEW F, F \subseteq 1..Len(bucket), bucket \in Seq([kind : Kinds, maintenance : BOOLEAN]),
         NEW n, NEW s
  PROVE  IsFiniteSet(RunTo(bucket, F, n, s)) /\ Cardinality(RunTo(bucket, F, n, s)) \in Nat
<1>1. IsFiniteSet(1..Len(bucket))
  BY FS_Interval
<1>2. RunTo(bucket, F, n, s) \subseteq 1..Len(bucket)
  BY DEF RunTo
<1> QED BY <1>1, <1>2, FS_Subset, FS_CardinalityType

\* A bucket behind all others leaves the runs that end before it alone.
LEMMA RunBefore ==
  ASSUME NEW F, F \subseteq Nat, NEW n \in Nat, \A i \in F : i < n, NEW m \in F, NEW s
  PROVE  RunTo(bucket, F \cup {n}, m, s) = RunTo(bucket, F, m, s)
<1>1. m < n /\ m \in Nat
  OBVIOUS
<1> QED BY <1>1 DEF RunTo

\* It adds to the run of its own verdict, ends the other, or says nothing.
Grown(F, m, n, s) ==
  LET c == Cardinality(RunTo(bucket, F \cup {n}, n, s)) IN
  /\ Signal(bucket[n]) = s => c = Cardinality(RunTo(bucket, F, m, s)) + 1
  /\ Signal(bucket[n]) # s /\ Signal(bucket[n]) = "unknown" => c = Cardinality(RunTo(bucket, F, m, s))
  /\ Signal(bucket[n]) \notin {s, "unknown"} => c = 0

LEMMA RunGrows ==
  ASSUME bucket \in Seq([kind : Kinds, maintenance : BOOLEAN]),
         NEW F, F \subseteq 1..Len(bucket), NEW m \in Nat, \A i \in F : i <= m,
         NEW n \in 1..Len(bucket), n > m, NEW s
  PROVE  Grown(F, m, n, s)
<1> DEFINE R == RunTo(bucket, F, m, s)
           Q == RunTo(bucket, F \cup {n}, n, s)
           x == Signal(bucket[n])
<1>1. \A i \in F : i \in Nat /\ i <= m /\ i < n
  OBVIOUS
<1>2. n \in Nat /\ n \notin F
  BY <1>1
<1>3. IsFiniteSet(R)
  BY RunFinite
<1>4. ASSUME x = s PROVE Cardinality(Q) = Cardinality(R) + 1
  <2>1. \A i \in F : i \in Q <=> i \in R
    BY <1>1, <1>2, <1>4 DEF RunTo
  <2>a. n \in Q
    BY <1>1, <1>2, <1>4 DEF RunTo
  <2>b. Q \subseteq F \cup {n} /\ R \subseteq F
    BY DEF RunTo
  <2>2. n \notin R
    BY <1>2 DEF RunTo
  <2> HIDE DEF Q, R
  <2>3. Q = R \cup {n}
    BY <2>1, <2>a, <2>b
  <2> QED BY <1>3, <2>2, <2>3, FS_AddElement
<1>5. ASSUME x # s, x = "unknown" PROVE Q = R
  <2>1. \A i \in F : i \in Q <=> i \in R
    BY <1>1, <1>2, <1>5 DEF RunTo
  <2>2. n \notin Q
    BY <1>5 DEF RunTo
  <2>3. Q \subseteq F \cup {n} /\ R \subseteq F
    BY DEF RunTo
  <2> HIDE DEF Q, R
  <2> QED BY <2>1, <2>2, <2>3
<1>6. ASSUME x \notin {s, "unknown"} PROVE Q = {}
  <2>1. \A i \in F : i \notin Q
    BY <1>1, <1>2, <1>6 DEF RunTo
  <2>2. n \notin Q
    BY <1>6 DEF RunTo
  <2>3. Q \subseteq F \cup {n}
    BY DEF RunTo
  <2> HIDE DEF Q
  <2> QED BY <2>1, <2>2, <2>3
<1> HIDE DEF Q, R, x
<1>7. Cardinality({}) = 0
  BY FS_EmptySet
<1> QED BY <1>4, <1>5, <1>6, <1>7 DEF Q, R, x, Grown

LEMMA DetUpdate ==
  ASSUME NEW d \in DetRecords, NEW x \in Nat, NEW y \in Nat
  PROVE  [d EXCEPT !.ca = x, !.ch = y] \in DetRecords
BY DEF DetRecords

\* advance_counters keeps the counters.
LEMMA AdvanceCounts ==
  ASSUME bucket \in Seq([kind : Kinds, maintenance : BOOLEAN]),
         NEW F, F \subseteq 1..Len(bucket), NEW d \in DetRecords, \A i \in F : i <= d.last,
         Counts(bucket, F, d.last, d), NEW n \in 1..Len(bucket), n > d.last
  PROVE  LET a == Advance(d, Signal(bucket[n])) IN
         a \in DetRecords /\ Counts(bucket, F \cup {n}, n, a)
<1> DEFINE x == Signal(bucket[n])
           a == Advance(d, x)
<1>1. x \in {"anomalous", "healthy", "unknown"}
  BY DEF Signal
<1>2. d.last \in Nat /\ d.ca \in Nat /\ d.ch \in Nat
  BY DEF DetRecords
<1>3. a \in DetRecords
  <2> HIDE DEF x
  <2>0. d.ca + 1 \in Nat /\ d.ch + 1 \in Nat /\ 0 \in Nat
    BY <1>2
  <2>1. [d EXCEPT !.ca = d.ca + 1, !.ch = 0] \in DetRecords
    BY <2>0, DetUpdate, Zenon
  <2>2. [d EXCEPT !.ca = 0, !.ch = d.ch + 1] \in DetRecords
    BY <2>0, DetUpdate, Zenon
  <2> QED BY <1>1, <2>1, <2>2 DEF Advance
<1> DEFINE A == Cardinality(RunTo(bucket, F \cup {n}, n, "anomalous"))
           H == Cardinality(RunTo(bucket, F \cup {n}, n, "healthy"))
<1>4. /\ x = "anomalous" => A = d.ca + 1 /\ H = 0
      /\ x = "healthy" => A = 0 /\ H = d.ch + 1
      /\ x = "unknown" => A = d.ca /\ H = d.ch
  <2>1. Grown(F, d.last, n, "anomalous") /\ Grown(F, d.last, n, "healthy")
    BY <1>2, RunGrows
  <2>2. /\ x = "anomalous" => A = d.ca + 1
        /\ x # "anomalous" /\ x = "unknown" => A = d.ca
        /\ x \notin {"anomalous", "unknown"} => A = 0
    BY <2>1 DEF Counts, Grown
  <2>3. /\ x = "healthy" => H = d.ch + 1
        /\ x # "healthy" /\ x = "unknown" => H = d.ch
        /\ x \notin {"healthy", "unknown"} => H = 0
    BY <2>1 DEF Counts, Grown
  <2> HIDE DEF x, A, H
  <2> QED BY <2>2, <2>3
<1>5. /\ x = "anomalous" => a.ca = d.ca + 1 /\ a.ch = 0
      /\ x = "healthy" => a.ca = 0 /\ a.ch = d.ch + 1
      /\ x = "unknown" => a = d
  <2> HIDE DEF x
  <2> QED BY DEF Advance, DetRecords
<1> HIDE DEF A, H, a, x
<1>6. a.ca = A /\ a.ch = H
  BY <1>1, <1>4, <1>5
<1> QED BY <1>3, <1>6 DEF Counts, A, H, a, x
\* What the counters a, which count bucket n in, say of the verdicts with n.
LEMMA UnresolvedStep ==
  ASSUME bucket \in Seq([kind : Kinds, maintenance : BOOLEAN]),
         NEW F, F \subseteq 1..Len(bucket), NEW n \in 1..Len(bucket), \A i \in F : i < n,
         NEW a, Counts(bucket, F \cup {n}, n, a)
  PROVE  LET G == F \cup {n} IN
         /\ Unresolved(bucket, F) /\ a.ch < ResolveAfter => Unresolved(bucket, G)
         /\ a.ca >= OpenAfter => Unresolved(bucket, G)
         /\ ~Unresolved(bucket, F) /\ ~(a.ca >= OpenAfter) => ~Unresolved(bucket, G)
         /\ ~(a.ch < ResolveAfter) /\ ~(a.ca >= OpenAfter) => ~Unresolved(bucket, G)
<1> DEFINE G == F \cup {n}
           A(i) == Cardinality(RunTo(bucket, G, i, "anomalous"))
           H(i) == Cardinality(RunTo(bucket, G, i, "healthy"))
<1>1. \A i \in F : /\ Cardinality(RunTo(bucket, F, i, "anomalous")) = A(i)
                   /\ Cardinality(RunTo(bucket, F, i, "healthy")) = H(i)
  <2>1. F \subseteq Nat /\ n \in Nat
    OBVIOUS
  <2>2. ASSUME NEW i \in F, NEW s PROVE RunTo(bucket, F, i, s) = RunTo(bucket, G, i, s)
    BY <2>1, RunBefore
  <2> QED BY <2>2
<1>2. A(n) = a.ca /\ H(n) = a.ch
  BY DEF Counts
<1>3. \A i \in F : i < n /\ ~(i > n)
  OBVIOUS
<1>4. Unresolved(bucket, F) <=> \E i \in F : A(i) >= OpenAfter /\ \A j \in F : j > i => H(j) < ResolveAfter
  BY <1>1 DEF Unresolved
<1>5. Unresolved(bucket, G) <=> \E i \in G : A(i) >= OpenAfter /\ \A j \in G : j > i => H(j) < ResolveAfter
  BY DEF Unresolved
<1> HIDE DEF A, H
<1> QED BY <1>2, <1>3, <1>4, <1>5

\* next_state moves as the verdicts have earned.
LEMMA StandingStep ==
  ASSUME bucket \in Seq([kind : Kinds, maintenance : BOOLEAN]),
         NEW F, F \subseteq 1..Len(bucket), NEW n \in 1..Len(bucket), \A i \in F : i < n,
         NEW d, d.ca \in Nat, d.ch \in Nat, d.state \in States, Standing(bucket, F, d),
         NEW a, a.state = d.state, Counts(bucket, F \cup {n}, n, a),
         Signal(bucket[n]) = "anomalous" => a.ca = d.ca + 1 /\ a.ch = 0,
         Signal(bucket[n]) = "healthy" => a.ca = 0 /\ a.ch = d.ch + 1,
         Signal(bucket[n]) = "unknown" => a.ca = d.ca /\ a.ch = d.ch,
         NEW e, e.state = NextState(a, bucket[n]), e.ca = a.ca, e.ch = a.ch
  PROVE  Standing(bucket, F \cup {n}, e)
<1> DEFINE G == F \cup {n}
           b == bucket[n]
           x == Signal(b)
           t == e.state
<1>1. /\ Unresolved(bucket, F) /\ a.ch < ResolveAfter => Unresolved(bucket, G)
      /\ a.ca >= OpenAfter => Unresolved(bucket, G)
      /\ ~Unresolved(bucket, F) /\ ~(a.ca >= OpenAfter) => ~Unresolved(bucket, G)
      /\ ~(a.ch < ResolveAfter) /\ ~(a.ca >= OpenAfter) => ~Unresolved(bucket, G)
  BY UnresolvedStep
<1>2. x \in {"anomalous", "healthy", "unknown"} /\ (b.kind = "insufficient" => x = "unknown")
  BY DEF Signal
<1>3. OpenAfter \in Nat /\ OpenAfter > 0 /\ ResolveAfter \in Nat /\ ResolveAfter > 0
  BY EngineAssumption
<1>4. a.ca \in Nat /\ a.ch \in Nat
  BY <1>2
<1>5. CASE d.state \in Opened
  <2>1. Unresolved(bucket, F) /\ d.ch < ResolveAfter /\ (d.state = "OPEN" => d.ch = 0)
    BY <1>5 DEF Standing
  <2>2. CASE x = "anomalous"
    <3>1. t = "OPEN"
      BY <1>2, <1>5, <2>2 DEF NextState, OnAnomalous, Opened, ActiveStates
    <3> QED BY <1>1, <1>3, <2>1, <2>2, <3>1 DEF Standing, Opened
  <2>3. CASE x = "healthy"
    <3>1. \/ t = "RESOLVED" /\ a.ch >= ResolveAfter
          \/ t = "RECOVERING" /\ a.ch < ResolveAfter
      <4>1. t = OnHealthy(a)
        BY <1>2, <1>5, <2>3 DEF NextState, Opened, ActiveStates
      <4> QED BY <1>3, <1>4, <1>5, <2>1, <2>3, <4>1 DEF OnHealthy, Opened
    <3> QED BY <1>1, <1>3, <1>4, <2>1, <2>3, <3>1 DEF Standing, Opened
  <2>4. CASE x = "unknown"
    <3>1. t = d.state
      BY <1>2, <1>5, <2>4 DEF NextState, Opened, ActiveStates
    <3> QED BY <1>1, <1>5, <2>1, <2>4, <3>1 DEF Standing, Opened
  <2> QED BY <1>2, <2>2, <2>3, <2>4
<1>6. CASE d.state \notin Opened
  <2>1. /\ d.state = "RESOLVED" => d.ch >= ResolveAfter
        /\ NoMaintenance(bucket) => ~Unresolved(bucket, F) /\ d.ca < OpenAfter /\ d.state # "SUPPRESSED"
    BY <1>6 DEF Standing
  <2>2. NoMaintenance(bucket) => ~b.maintenance
    BY DEF NoMaintenance
  <2>3. CASE x = "anomalous"
    <3>1. /\ t = "OPEN" => a.ca >= OpenAfter
          /\ t \notin {"RECOVERING", "RESOLVED"}
          /\ NoMaintenance(bucket) /\ t # "OPEN" => a.ca < OpenAfter /\ t # "SUPPRESSED"
      <4>1. d.state = "SUPPRESSED" => t \in {"SUPPRESSED", "NORMAL"} /\ ~NoMaintenance(bucket)
        BY <2>1, <2>3 DEF NextState, ActiveStates
      <4>2. d.state # "SUPPRESSED" => t = OnAnomalous(a) /\ d.state \in {"NORMAL", "INSUFFICIENT_DATA", "RESOLVED", "CANDIDATE"}
        <5>1. ~b.maintenance /\ b.kind # "insufficient"
          BY <1>2, <2>3 DEF Signal
        <5>2. d.state # "SUPPRESSED" => d.state \in {"NORMAL", "INSUFFICIENT_DATA", "RESOLVED", "CANDIDATE"}
          BY <1>6 DEF States, ActiveStates, Opened
        <5> QED BY <2>3, <5>1, <5>2 DEF NextState
      <4> QED BY <1>3, <1>4, <4>1, <4>2 DEF OnAnomalous
    <3> QED BY <1>1, <1>3, <1>4, <2>1, <2>3, <3>1 DEF Standing, Opened
  <2>4. CASE x = "healthy"
    <3>1. t \in {"SUPPRESSED", "NORMAL"} /\ (NoMaintenance(bucket) => t = "NORMAL")
      <4>1. OnHealthy(a) = "NORMAL"
        BY <1>6 DEF OnHealthy, Opened
      <4> QED BY <1>2, <2>2, <2>4, <4>1 DEF NextState
    <3> QED BY <1>1, <1>3, <1>4, <2>1, <2>4, <3>1 DEF Standing, Opened
  <2>5. CASE x = "unknown"
    <3>1. /\ t \in {"SUPPRESSED", "NORMAL", "INSUFFICIENT_DATA", d.state}
          /\ NoMaintenance(bucket) => t \in {"INSUFFICIENT_DATA", d.state}
      <4>1. NoMaintenance(bucket) => ~b.maintenance /\ d.state # "SUPPRESSED"
        BY <2>1, <2>2
      <4>2. t \in {"SUPPRESSED", "NORMAL", "INSUFFICIENT_DATA", d.state}
        BY <2>5 DEF NextState
      <4>3. ~b.maintenance /\ d.state # "SUPPRESSED" => t \in {"INSUFFICIENT_DATA", d.state}
        BY <2>5 DEF NextState
      <4> QED BY <4>1, <4>2, <4>3
    <3> HIDE DEF t
    <3>2. t \notin Opened
      BY <1>6, <3>1 DEF Opened
    <3>3. t = "RESOLVED" => a.ch >= ResolveAfter
      BY <2>1, <2>5, <3>1
    <3>4. NoMaintenance(bucket) => ~Unresolved(bucket, G) /\ a.ca < OpenAfter /\ t # "SUPPRESSED"
      BY <1>1, <1>3, <1>4, <2>1, <2>5, <3>1
    <3> QED BY <3>2, <3>3, <3>4 DEF Standing, t
  <2> QED BY <1>2, <2>3, <2>4, <2>5
<1> QED BY <1>5, <1>6
-----------------------------------------------------------------------------
(* The incident rows.                                                      *)

IncidentRows == [Incidents -> States \cup {"unused"}]

\* A set of numbers has a least element.
LEMMA LeastElement ==
  ASSUME NEW T, T \subseteq Nat, T # {}
  PROVE  \E m \in T : \A k \in T : m <= k
<1>1. PICK m \in T : \A k \in T : <<k, m>> \notin OpToRel(<, Nat)
  BY NatLessThanWellFounded, WFMin
<1>2. \A k \in T : ~(k < m)
  BY <1>1 DEF OpToRel
<1> QED BY <1>2

\* There is a row for the next incident: no more have been used than buckets.
LEMMA NextIdFacts ==
  ASSUME NEW w, w.incident \in IncidentRows, NEW n \in Buckets,
         \A i \in Incidents : w.incident[i] # "unused" => i < n
  PROVE  NextId(w) \in Incidents /\ NextId(w) <= n
<1> DEFINE T == {i \in Incidents : w.incident[i] = "unused"}
           First(i) == w.incident[i] = "unused" /\ \A j \in 1..(i - 1) : w.incident[j] # "unused"
<1>1. /\ Incidents \subseteq Nat /\ n \in Nat /\ n > 0 /\ n \in Incidents
      /\ MaxIncidents \in Nat
  BY EngineAssumption DEF Incidents, Buckets
<1>2. n \in T
  BY <1>1
<1>3. PICK m \in T : \A k \in T : m <= k
  BY <1>1, <1>2, LeastElement
<1>4. m \in Incidents /\ First(m)
  <2>1. \A j \in 1..(m - 1) : j \in Incidents /\ ~(m <= j)
    BY <1>1, <1>3 DEF Incidents
  <2> QED BY <1>3, <2>1
<1>5. NextId(w) \in Incidents /\ First(NextId(w))
  BY <1>4 DEF NextId
<1>6. n \notin 1..(NextId(w) - 1)
  BY <1>2, <1>5
<1>7. NextId(w) \in Nat
  BY <1>1, <1>5
<1> HIDE DEF T, First
<1>8. NextId(w) <= n
  BY <1>1, <1>6, <1>7
<1> QED BY <1>5, <1>8

\* The row of the incident that d names moves to s, and no other row is active.
LEMMA RowMoves ==
  ASSUME NEW I \in IncidentRows, NEW k \in Incidents, NEW s \in States,
         \A i \in Incidents : I[i] \in ActiveStates => i = k
  PROVE  LET J == [I EXCEPT ![k] = s] IN
         /\ J \in IncidentRows
         /\ \A i \in Incidents : J[i] # "unused" => I[i] # "unused" \/ i = k
         /\ \A i \in Incidents : J[i] \in ActiveStates => i = k /\ s = J[i]
BY DEF IncidentRows

LEMMA RaiseRows ==
  ASSUME NEW w, Shaped(w), w.alert \in AlertRecords, NEW b, NEW notify \in BOOLEAN
  PROVE  LET r == Raise(w, b, notify) IN
         r.alert \in AlertRecords /\ r.incident = w.incident /\ r.det = w.det
<1> DEFINE r == Raise(w, b, notify)
           a == IF w.alert.on THEN w.alert ELSE [on |-> TRUE, noticed |-> notify]
<1>1. CASE b.maintenance \/ w.muted
  <2>1. r = w
    BY <1>1 DEF Raise
  <2> QED BY <2>1
<1>2. CASE ~(b.maintenance \/ w.muted)
  <2>1. r = [w EXCEPT !.touched = TRUE, !.alert = a]
    BY <1>2 DEF Raise
  <2>2. [on |-> TRUE, noticed |-> notify] \in AlertRecords
    BY DEF AlertRecords
  <2>3. a \in AlertRecords
    BY <2>2
  <2> HIDE DEF a
  <2>4. r.alert = a /\ r.incident = w.incident /\ r.det = w.det
    BY <2>1 DEF Shaped, NoPass
  <2> HIDE DEF r
  <2>5. r.alert \in AlertRecords
    BY <2>3, <2>4
  <2> QED BY <2>4, <2>5, Zenon DEF r
<1> QED BY <1>1, <1>2

LEMMA MoveRows ==
  ASSUME NEW w, Shaped(w), NEW s
  PROVE  LET r == MoveIncident(w, s) IN
         /\ Shaped(r) /\ r.det = w.det /\ r.alert = w.alert
         /\ r.incident = IF w.det.active = None THEN w.incident
                         ELSE [w.incident EXCEPT ![w.det.active] = s]
BY DEF MoveIncident, Shaped, NoPass

\* Where w is the record before a bucket's side effects, from the state `previous`.
Entering(w, previous) ==
  /\ Shaped(w) /\ w.det \in DetRecords /\ w.alert \in AlertRecords
  /\ w.incident \in IncidentRows /\ w.det.last \in Buckets
  /\ \A i \in Incidents : w.incident[i] # "unused" => i < w.det.last
  /\ w.det.active # None => w.det.active < w.det.last
  /\ \A i \in Incidents : w.incident[i] \in ActiveStates => w.det.active = i /\ previous = w.incident[i]
  /\ w.det.open <=> previous \in Opened
  /\ previous \in Opened => w.det.state \in Opened \cup {"RESOLVED"}
  /\ previous \notin Opened => w.det.state # "RECOVERING"

\* And r is the record after them.
Entered(r, w) ==
  /\ r.det \in DetRecords /\ r.alert \in AlertRecords
  /\ r.det.state = w.det.state /\ r.det.ca = w.det.ca /\ r.det.ch = w.det.ch
  /\ r.det.last = w.det.last
  /\ r.det.open <=> r.det.state \in Opened
  /\ Named(r.incident, r.det)
LEMMA ActiveMoves ==
  ASSUME NEW w, NEW previous, Entering(w, previous), NEW s \in States
  PROVE  LET J == IF w.det.active = None THEN w.incident
                  ELSE [w.incident EXCEPT ![w.det.active] = s] IN
         /\ J \in IncidentRows
         /\ \A i \in Incidents : J[i] # "unused" => i <= w.det.last
         /\ \A i \in Incidents : J[i] \in ActiveStates => w.det.active = i /\ J[i] = s
<1>1. /\ w.incident \in IncidentRows /\ w.det.last \in Nat /\ Incidents \subseteq Nat
      /\ \A i \in Incidents : w.incident[i] # "unused" => i < w.det.last
      /\ \A i \in Incidents : w.incident[i] \in ActiveStates => w.det.active = i
      /\ w.det.active # None => w.det.active < w.det.last /\ w.det.active \in Incidents
  BY EngineAssumption DEF Entering, DetRecords, Incidents
<1>2. None \notin Incidents
  BY <1>1, EngineAssumption
<1>3. CASE w.det.active = None
  BY <1>1, <1>2, <1>3
<1>4. CASE w.det.active # None
  <2> DEFINE k == w.det.active
             J == [w.incident EXCEPT ![k] = s]
  <2>0. /\ k \in Incidents /\ k < w.det.last
        /\ \A i \in Incidents : w.incident[i] \in ActiveStates => i = k
    BY <1>1, <1>4
  <2> HIDE DEF k
  <2>1. /\ J \in IncidentRows
        /\ \A i \in Incidents : J[i] # "unused" => w.incident[i] # "unused" \/ i = k
        /\ \A i \in Incidents : J[i] \in ActiveStates => i = k /\ s = J[i]
    BY <1>1, <2>0, RowMoves
  <2> HIDE DEF J
  <2>2. \A i \in Incidents : J[i] # "unused" => i <= w.det.last
    BY <1>1, <2>0, <2>1
  <2> QED BY <1>4, <2>1, <2>2 DEF J, k
<1> QED BY <1>3, <1>4

\* _apply_transition: one incident, and it is the one the detector row names.
LEMMA TransitionRows ==
  ASSUME NEW w, NEW b, NEW previous, Entering(w, previous)
  PROVE  Entered(Transition(w, b, previous), w)
<1> DEFINE r == Transition(w, b, previous)
           target == w.det.state
           Moved(s) == IF w.det.active = None THEN w.incident
                       ELSE [w.incident EXCEPT ![w.det.active] = s]
<1>1. /\ Shaped(w) /\ w.det \in DetRecords /\ w.alert \in AlertRecords
      /\ w.incident \in IncidentRows
  BY DEF Entering
<1>2. /\ w.det.last \in Nat /\ Incidents \subseteq Nat /\ target \in States /\ None \notin Incidents
      /\ w.det.active \in Incidents \cup {None}
      /\ w.det.active # None => w.det.active <= w.det.last
  BY EngineAssumption DEF Entering, DetRecords, Incidents
<1>3. ASSUME NEW s \in States
      PROVE  /\ Moved(s) \in IncidentRows
             /\ \A i \in Incidents : Moved(s)[i] # "unused" => i <= w.det.last
             /\ \A i \in Incidents : Moved(s)[i] \in ActiveStates => w.det.active = i /\ Moved(s)[i] = s
  BY ActiveMoves
<1>4. ASSUME NEW k \in Incidents, k <= w.det.last,
             \A i \in Incidents : w.incident[i] \in ActiveStates => i = k, target \in States
      PROVE  LET J == [w.incident EXCEPT ![k] = target] IN
             /\ J \in IncidentRows
             /\ \A i \in Incidents : J[i] # "unused" => i <= w.det.last
             /\ \A i \in Incidents : J[i] \in ActiveStates => i = k /\ J[i] = target
  <2> DEFINE J == [w.incident EXCEPT ![k] = target]
  <2>1. /\ J \in IncidentRows
        /\ \A i \in Incidents : J[i] # "unused" => w.incident[i] # "unused" \/ i = k
        /\ \A i \in Incidents : J[i] \in ActiveStates => i = k /\ target = J[i]
    BY <1>1, <1>4, RowMoves
  <2> HIDE DEF J
  <2>2. \A i \in Incidents : w.incident[i] # "unused" => i < w.det.last
    BY DEF Entering
  <2>3. \A i \in Incidents : J[i] # "unused" => i <= w.det.last
    BY <1>2, <1>4, <2>1, <2>2
  <2> QED BY <2>1, <2>3 DEF J
<1>5. NextId(w) \in Incidents /\ NextId(w) <= w.det.last
  BY NextIdFacts DEF Entering
<1> HIDE DEF Moved
<1>6. CASE target = previous
  <2>1. Named(w.incident, w.det)
    <3>1. \A i \in Incidents : w.incident[i] # "unused" => i <= w.det.last
      BY <1>2 DEF Entering
    <3>2. \A i \in Incidents : w.incident[i] \in ActiveStates => w.det.active = i /\ target = w.incident[i]
      BY <1>6 DEF Entering
    <3> QED BY <1>1, <1>2, <3>1, <3>2 DEF Named, IncidentRows
  <2>2. w.det.open <=> target \in Opened
    BY <1>6 DEF Entering
  <2>3. ASSUME NEW v, v.alert \in AlertRecords, v.incident = w.incident, v.det = w.det
        PROVE  Entered(v, w)
    BY <1>1, <2>1, <2>2, <2>3 DEF Entered
  <2>4. /\ Raise(w, b, FALSE).alert \in AlertRecords
        /\ Raise(w, b, FALSE).incident = w.incident /\ Raise(w, b, FALSE).det = w.det
    <3>1. FALSE \in BOOLEAN
      OBVIOUS
    <3> QED BY <1>1, <3>1, RaiseRows, Zenon
  <2>5. r = w \/ r = Raise(w, b, FALSE)
    BY <1>6 DEF Transition
  <2>6. Entered(w, w)
    BY <1>1, <2>3
  <2>7. Entered(Raise(w, b, FALSE), w)
    BY <2>3, <2>4
  <2> QED BY <2>5, <2>6, <2>7, Zenon
<1>7. CASE target # previous /\ target = "CANDIDATE"
  <2> DEFINE k == NextId(w)
             J == [w.incident EXCEPT ![k] = "CANDIDATE"]
             d == [w.det EXCEPT !.active = k]
             v == [w EXCEPT !.incident[k] = "CANDIDATE", !.det.active = k]
  <2>1. r = v
    BY <1>7 DEF Transition
  <2>2. previous \notin ActiveStates
    BY <1>7 DEF Entering, Opened, ActiveStates
  <2>3. \A i \in Incidents : w.incident[i] \notin ActiveStates
    BY <2>2 DEF Entering
  <2> HIDE DEF k
  <2>4. k \in Incidents /\ k <= w.det.last
    BY <1>5 DEF k
  <2>5. /\ J \in IncidentRows
        /\ \A i \in Incidents : J[i] # "unused" => i <= w.det.last
        /\ \A i \in Incidents : J[i] \in ActiveStates => i = k /\ J[i] = target
    BY <1>2, <1>4, <1>7, <2>3, <2>4
  <2>6. /\ d \in DetRecords /\ d.active = k /\ d.state = target /\ d.ca = w.det.ca
        /\ d.ch = w.det.ch /\ d.last = w.det.last /\ d.open = w.det.open
    BY <1>1, <2>4 DEF DetRecords
  <2>7. v.alert = w.alert /\ v.incident = J /\ v.det = d
    BY <1>1 DEF Shaped, NoPass
  <2> HIDE DEF v, d, J
  <2>8. Named(J, d)
    BY <2>4, <2>5, <2>6 DEF Named, IncidentRows
  <2>9. d.open <=> d.state \in Opened
    BY <1>7, <2>2, <2>6 DEF Entering, Opened, ActiveStates
  <2>10. Entered(v, w)
    BY <1>1, <2>6, <2>7, <2>8, <2>9 DEF Entered
  <2> QED BY <2>1, <2>10
<1>8. CASE target # previous /\ target = "OPEN"
  <2> DEFINE k == LiveIncident(w)
             J == [w.incident EXCEPT ![k] = "OPEN"]
             d == [w.det EXCEPT !.active = k, !.open = TRUE]
             v == [w EXCEPT !.incident[k] = "OPEN", !.det.active = k, !.det.open = TRUE]
             z == Raise(v, b, TRUE)
  <2>1. r = z
    BY <1>8 DEF Transition
  <2>2. k \in Incidents /\ k <= w.det.last
    BY <1>2, <1>5 DEF LiveIncident
  <2>3. \A i \in Incidents : w.incident[i] \in ActiveStates => i = k
    BY <1>2 DEF Entering, LiveIncident
  <2> HIDE DEF k
  <2>4. /\ J \in IncidentRows
        /\ \A i \in Incidents : J[i] # "unused" => i <= w.det.last
        /\ \A i \in Incidents : J[i] \in ActiveStates => i = k /\ J[i] = target
    BY <1>2, <1>4, <1>8, <2>2, <2>3
  <2>5. /\ d \in DetRecords /\ d.active = k /\ d.state = target /\ d.ca = w.det.ca
        /\ d.ch = w.det.ch /\ d.last = w.det.last /\ d.open = TRUE
    BY <1>1, <2>2 DEF DetRecords
  <2>6. v.alert = w.alert /\ v.incident = J /\ v.det = d /\ Shaped(v)
    BY <1>1 DEF Shaped, NoPass, Columns
  <2> HIDE DEF v, d, J
  <2>7. v.alert \in AlertRecords
    BY <1>1, <2>6
  <2>8. z.alert \in AlertRecords /\ z.incident = v.incident /\ z.det = v.det
    <3>1. TRUE \in BOOLEAN
      OBVIOUS
    <3> QED BY <2>6, <2>7, <3>1, RaiseRows, Zenon
  <2> HIDE DEF z
  <2>9. Named(J, d)
    BY <2>2, <2>4, <2>5 DEF Named, IncidentRows
  <2>10. Entered(z, w)
    BY <1>8, <2>5, <2>6, <2>8, <2>9 DEF Entered, Opened
  <2> QED BY <2>1, <2>10
<1>9. CASE target # previous /\ target = "RECOVERING"
  <2> DEFINE v == MoveIncident(w, "RECOVERING")
  <2>1. r = v
    BY <1>9 DEF Transition
  <2>2. v.det = w.det /\ v.alert = w.alert /\ v.incident = Moved("RECOVERING")
    BY <1>1, MoveRows DEF Moved
  <2> HIDE DEF v
  <2>3. w.det.open <=> target \in Opened
    BY <1>9 DEF Entering, Opened
  <2>4. "RECOVERING" \in States
    BY DEF States, ActiveStates
  <2>5. Named(Moved("RECOVERING"), w.det)
    BY <1>2, <1>3, <1>9, <2>4 DEF Named, IncidentRows
  <2>6. Entered(v, w)
    BY <1>1, <2>2, <2>3, <2>5 DEF Entered
  <2> QED BY <2>1, <2>6
<1>10. CASE target # previous /\ target = "RESOLVED"
  <2> DEFINE m == MoveIncident(w, "RESOLVED")
             x == m.touched \/ w.alert.on
             a == [m.alert EXCEPT !.on = FALSE]
             d == [m.det EXCEPT !.open = FALSE, !.active = None]
             v == ResolveIncident(w)
  <2>1. r = v
    BY <1>10 DEF Transition
  <2>2. Shaped(m) /\ m.det = w.det /\ m.alert = w.alert /\ m.incident = Moved("RESOLVED")
    BY <1>1, MoveRows DEF Moved
  <2>3. v = [m EXCEPT !.det.open = FALSE, !.det.active = None, !.alert.on = FALSE, !.touched = x]
    BY Zenon DEF ResolveIncident
  <2> HIDE DEF m, x, v
  <2>4. v = [m EXCEPT !.det = d, !.alert = a, !.touched = x]
    BY <2>2, <2>3 DEF Shaped, NoPass
  <2>5. a \in AlertRecords
    BY <1>1, <2>2 DEF AlertRecords
  <2>6. /\ d \in DetRecords /\ d.active = None /\ d.state = target /\ d.ca = w.det.ca
        /\ d.ch = w.det.ch /\ d.last = w.det.last /\ d.open = FALSE
    BY <1>1, <2>2 DEF DetRecords
  <2> HIDE DEF a, d
  <2>7. v.alert = a /\ v.det = d /\ v.incident = Moved("RESOLVED")
    BY <2>2, <2>4 DEF Shaped, NoPass
  <2>8. "RESOLVED" \in States /\ "RESOLVED" \notin ActiveStates
    BY DEF States, ActiveStates
  <2>9. Named(Moved("RESOLVED"), d)
    BY <1>3, <2>6, <2>8 DEF Named, IncidentRows
  <2>10. Entered(v, w)
    BY <1>10, <2>5, <2>6, <2>7, <2>9 DEF Entered, Opened
  <2> QED BY <2>1, <2>10
<1>11. CASE target # previous /\ target \notin {"CANDIDATE", "OPEN", "RECOVERING", "RESOLVED"}
  <2>1. previous \notin Opened
    BY <1>11 DEF Entering, Opened
  <2>2. target \notin ActiveStates /\ target \notin Opened
    BY <1>11 DEF ActiveStates, Opened
  <2>3. ASSUME NEW m, Shaped(m), m.alert = w.alert, NEW J, m.incident = J, J \in IncidentRows,
               \A i \in Incidents : J[i] # "unused" => i <= w.det.last,
               \A i \in Incidents : J[i] \notin ActiveStates,
               NEW d \in DetRecords, d.state = target, d.ca = w.det.ca, d.ch = w.det.ch,
               d.last = w.det.last, d.open = FALSE, d.active \in {None, w.det.active}
        PROVE  Entered([m EXCEPT !.det = d], w)
    <3> DEFINE v == [m EXCEPT !.det = d]
    <3>1. v.alert = w.alert /\ v.incident = J /\ v.det = d
      BY <2>3 DEF Shaped, NoPass
    <3> HIDE DEF v
    <3>2. Named(J, d)
      BY <1>2, <2>3 DEF Named, IncidentRows
    <3>3. Entered(v, w)
      BY <1>1, <2>2, <2>3, <3>1, <3>2 DEF Entered
    <3> QED BY <3>3 DEF v
  <2>4. CASE target = "SUPPRESSED"
    <3> DEFINE m == MoveIncident(w, "SUPPRESSED")
               d == [w.det EXCEPT !.open = FALSE]
    <3>1. Shaped(m) /\ m.det = w.det /\ m.alert = w.alert /\ m.incident = Moved("SUPPRESSED")
      BY <1>1, MoveRows DEF Moved
    <3>2. r = [m EXCEPT !.det.open = FALSE]
      BY <1>11, <2>4 DEF Transition
    <3> HIDE DEF m, r
    <3>3. r = [m EXCEPT !.det = d]
      BY <3>1, <3>2
    <3>4. /\ d \in DetRecords /\ d.state = target /\ d.ca = w.det.ca /\ d.ch = w.det.ch
          /\ d.last = w.det.last /\ d.open = FALSE /\ d.active = w.det.active
      BY <1>1 DEF DetRecords
    <3> HIDE DEF d
    <3>5. "SUPPRESSED" \in States /\ "SUPPRESSED" \notin ActiveStates
      BY DEF States, ActiveStates
    <3>6. \A i \in Incidents : Moved("SUPPRESSED")[i] \notin ActiveStates
      BY <1>3, <3>5
    <3>7. Entered([m EXCEPT !.det = d], w)
      BY <1>3, <2>3, <3>1, <3>4, <3>5, <3>6
    <3> QED BY <3>3, <3>7 DEF r
  <2>5. CASE target # "SUPPRESSED"
    <3> DEFINE m == IF previous = "CANDIDATE" THEN MoveIncident(w, target) ELSE w
               J == IF previous = "CANDIDATE" THEN Moved(target) ELSE w.incident
               d == [w.det EXCEPT !.open = FALSE, !.active = None]
    <3>1. Shaped(m) /\ m.det = w.det /\ m.alert = w.alert /\ m.incident = J
      BY <1>1, MoveRows DEF Moved
    <3>2. r = [m EXCEPT !.det.open = FALSE, !.det.active = None]
      BY <1>11, <2>5 DEF Transition
    <3> HIDE DEF m, r
    <3>3. r = [m EXCEPT !.det = d]
      BY <3>1, <3>2 DEF Shaped, NoPass
    <3>4. /\ d \in DetRecords /\ d.state = target /\ d.ca = w.det.ca /\ d.ch = w.det.ch
          /\ d.last = w.det.last /\ d.open = FALSE /\ d.active = None
      BY <1>1 DEF DetRecords
    <3> HIDE DEF d
    <3>5. J \in IncidentRows /\ \A i \in Incidents : J[i] # "unused" => i <= w.det.last
      <4>1. \A i \in Incidents : w.incident[i] # "unused" => i <= w.det.last
        BY <1>2 DEF Entering
      <4> QED BY <1>1, <1>2, <1>3, <4>1
    <3>6. \A i \in Incidents : J[i] \notin ActiveStates
      <4>1. CASE previous = "CANDIDATE"
        BY <1>2, <1>3, <2>2, <4>1
      <4>2. CASE previous # "CANDIDATE"
        <5>1. previous \notin ActiveStates
          BY <2>1, <4>2 DEF ActiveStates, Opened
        <5> QED BY <4>2, <5>1 DEF Entering
      <4> QED BY <4>1, <4>2
    <3> HIDE DEF J
    <3>7. Entered([m EXCEPT !.det = d], w)
      BY <2>3, <3>1, <3>4, <3>5, <3>6
    <3> QED BY <3>3, <3>7 DEF r
  <2> QED BY <2>4, <2>5
<1> QED BY <1>6, <1>7, <1>8, <1>9, <1>10, <1>11
\* _apply_hysteresis on a bucket.
LEMMA ApplyEarned ==
  ASSUME bucket \in Seq([kind : Kinds, maintenance : BOOLEAN]),
         NEW w, Shaped(w), w.det \in DetRecords, w.alert \in AlertRecords,
         NEW F, Earned(bucket, F \cup w.folded, w.det), Named(w.incident, w.det),
         NEW n \in 1..Len(bucket), n \in Buckets
  PROVE  LET r == Apply(w, n) IN
         /\ r.det \in DetRecords /\ r.alert \in AlertRecords
         /\ Earned(bucket, F \cup r.folded, r.det) /\ Named(r.incident, r.det)
<1>1. CASE w.det.last >= n
  <2>1. Apply(w, n) = w
    BY <1>1, ApplyFacts
  <2> QED BY <2>1
<1>2. CASE ~(w.det.last >= n)
  <2> DEFINE b == bucket[n]
             S == F \cup w.folded
             a == Advance(w.det, Signal(b))
             d == [a EXCEPT !.last = n]
             e == [d EXCEPT !.state = NextState(d, b)]
             v == [w EXCEPT !.det = e, !.folded = @ \cup {n}]
             r == Transition(v, b, w.det.state)
             T == S \cup {n}
  <2>1. Apply(w, n) = r
    BY <1>2 DEF Apply
  <2>2. /\ w.det.last \in Nat /\ n \in Nat /\ n > w.det.last /\ w.det.ca \in Nat /\ w.det.ch \in Nat
        /\ w.det.state \in States
    BY <1>2 DEF DetRecords, Buckets
  <2>3. /\ S \subseteq 1..Len(bucket) /\ (\A i \in S : i <= w.det.last)
        /\ Counts(bucket, S, w.det.last, w.det) /\ Standing(bucket, S, w.det)
        /\ w.det.open <=> w.det.state \in Opened
    BY DEF Earned
  <2>4. \A i \in S : i < n
    BY <2>2, <2>3
  <2>5. a \in DetRecords /\ Counts(bucket, T, n, a)
    BY <2>2, <2>3, AdvanceCounts
  <2>6. /\ Signal(b) = "anomalous" => a.ca = w.det.ca + 1 /\ a.ch = 0
        /\ Signal(b) = "healthy" => a.ca = 0 /\ a.ch = w.det.ch + 1
        /\ Signal(b) = "unknown" => a.ca = w.det.ca /\ a.ch = w.det.ch
        /\ a.state = w.det.state /\ a.open = w.det.open /\ a.active = w.det.active
    <3> DEFINE x == Signal(b)
    <3> HIDE DEF x
    <3>1. /\ x = "anomalous" => a.ca = w.det.ca + 1 /\ a.ch = 0
          /\ x = "healthy" => a.ca = 0 /\ a.ch = w.det.ch + 1
          /\ x = "unknown" => a.ca = w.det.ca /\ a.ch = w.det.ch
      BY DEF Advance, DetRecords, x
    <3>2. a.state = w.det.state /\ a.open = w.det.open /\ a.active = w.det.active
      BY AdvanceKeeps DEF Shaped
    <3> QED BY <3>1, <3>2 DEF x
  <2> HIDE DEF S, T, a, b
  <2>7. /\ d \in DetRecords /\ d.last = n /\ d.ca = a.ca /\ d.ch = a.ch /\ d.state = a.state
        /\ d.open = a.open /\ d.active = a.active
    BY <2>2, <2>5 DEF DetRecords
  <2> HIDE DEF d
  <2>8. NextState(d, b) \in States
    <3>1. d.state \in States
      BY <2>7 DEF DetRecords
    <3>2. OnAnomalous(d) \in States /\ OnHealthy(d) \in States
      BY <3>1 DEF OnAnomalous, OnHealthy, States, ActiveStates
    <3>3. NextState(d, b) \in {"SUPPRESSED", "NORMAL", "INSUFFICIENT_DATA", d.state, OnAnomalous(d), OnHealthy(d)}
      BY DEF NextState
    <3> QED BY <3>1, <3>2, <3>3 DEF States
  <2>9. /\ e \in DetRecords /\ e.last = n /\ e.ca = a.ca /\ e.ch = a.ch
        /\ e.state = NextState(d, b) /\ e.open = w.det.open /\ e.active = w.det.active
    BY <2>6, <2>7, <2>8 DEF DetRecords
  <2>10. DOMAIN e = Columns
    BY <2>9 DEF DetRecords, Columns
  <2> HIDE DEF e
  <2>11. Standing(bucket, T, e)
    <3>1. Counts(bucket, T, n, d)
      BY <2>5, <2>7 DEF Counts
    <3>2. /\ Signal(bucket[n]) = "anomalous" => d.ca = w.det.ca + 1 /\ d.ch = 0
          /\ Signal(bucket[n]) = "healthy" => d.ca = 0 /\ d.ch = w.det.ch + 1
          /\ Signal(bucket[n]) = "unknown" => d.ca = w.det.ca /\ d.ch = w.det.ch
          /\ e.state = NextState(d, bucket[n]) /\ d.state = w.det.state
          /\ e.ca = d.ca /\ e.ch = d.ch
      BY <2>6, <2>7, <2>9 DEF b
    <3> QED BY <2>2, <2>3, <2>4, <3>1, <3>2, StandingStep DEF T
  <2>12. /\ Shaped(v) /\ v.alert = w.alert /\ v.det = e /\ v.incident = w.incident
         /\ v.folded = w.folded \cup {n}
    BY <2>10 DEF Shaped, NoPass
  <2> HIDE DEF v
  <2>13. Entering(v, w.det.state)
    <3>1. /\ w.incident \in IncidentRows
          /\ \A i \in Incidents : w.incident[i] # "unused" => i < n
          /\ w.det.active # None => w.det.active < n
          /\ \A i \in Incidents : w.incident[i] \in ActiveStates => w.det.active = i /\ w.det.state = w.incident[i]
      <4>1. Incidents \subseteq Nat /\ w.det.active \in Incidents \cup {None}
        BY EngineAssumption DEF Incidents, DetRecords
      <4>2. /\ w.incident \in IncidentRows
            /\ \A i \in Incidents : w.incident[i] # "unused" => i <= w.det.last
            /\ w.det.active # None => w.det.active <= w.det.last
            /\ \A i \in Incidents :
                 w.incident[i] \in ActiveStates => w.det.active = i /\ w.det.state = w.incident[i]
        BY DEF Named, IncidentRows
      <4>3. w.det.active # None => w.det.active < n
        <5> SUFFICES ASSUME w.det.active # None PROVE w.det.active < n
          OBVIOUS
        <5>1. w.det.active \in Nat /\ w.det.active <= w.det.last
          BY <4>1, <4>2
        <5> QED BY <2>2, <5>1
      <4>4. ASSUME NEW i \in Incidents, w.incident[i] # "unused" PROVE i < n
        <5>1. i \in Nat /\ i <= w.det.last
          BY <4>1, <4>2, <4>4
        <5> QED BY <2>2, <5>1
      <4> QED BY <4>2, <4>3, <4>4
    <3>2. /\ w.det.state \in Opened => e.state \in Opened \cup {"RESOLVED"}
          /\ w.det.state \notin Opened => e.state # "RECOVERING"
      BY <2>6, <2>7, <2>9, NextStateFacts
    <3> QED BY <2>3, <2>9, <2>12, <3>1, <3>2 DEF Entering
  <2>14. Entered(r, v)
    BY <2>13, TransitionRows
  <2>15. r.folded = v.folded
    BY <2>12, SameTransition DEF Same
  <2> HIDE DEF r
  <2>16. /\ r.det \in DetRecords /\ r.alert \in AlertRecords /\ Named(r.incident, r.det)
         /\ r.det.state = e.state /\ r.det.ca = e.ca /\ r.det.ch = e.ch /\ r.det.last = n
         /\ r.det.open <=> r.det.state \in Opened
    BY <2>9, <2>12, <2>14 DEF Entered
  <2>17. F \cup r.folded = T
    BY <2>12, <2>15 DEF T, S
  <2>18. T \subseteq 1..Len(bucket) /\ \A i \in T : i <= n
    BY <2>2, <2>3, <2>4 DEF T
  <2>19. Counts(bucket, T, n, r.det)
    BY <2>5, <2>9, <2>16 DEF Counts
  <2>20. Standing(bucket, T, r.det)
    BY <2>11, <2>16 DEF Standing
  <2>21. Earned(bucket, T, r.det)
    BY <2>16, <2>18, <2>19, <2>20 DEF Earned
  <2> QED BY <2>1, <2>16, <2>17, <2>21
<1> QED BY <1>1, <1>2

\* A bucket that arrives changes nothing for those that were judged.
LEMMA ArriveEarned ==
  ASSUME NEW R, NEW q \in Seq(R), NEW x \in R, NEW F, NEW d, Earned(q, F, d)
  PROVE  Earned(Append(q, x), F, d)
<1> DEFINE C == Append(q, x)
<1>1. F \subseteq 1..Len(q) /\ F \subseteq 1..Len(C) /\ \A i \in 1..Len(q) : C[i] = q[i]
  BY DEF Earned
<1>2. NoMaintenance(C) => NoMaintenance(q)
  <2>1. 1..Len(q) \subseteq 1..Len(C)
    OBVIOUS
  <2> HIDE DEF C
  <2> QED BY <1>1, <2>1 DEF NoMaintenance
<1> HIDE DEF C
<1>3. \A i \in F : C[i] = q[i]
  BY <1>1
<1>4. ASSUME NEW n, NEW s PROVE RunTo(C, F, n, s) = RunTo(q, F, n, s)
  BY <1>3 DEF RunTo
<1>5. Unresolved(C, F) <=> Unresolved(q, F)
  BY <1>4 DEF Unresolved
<1>6. Counts(C, F, d.last, d)
  BY <1>4 DEF Counts, Earned
<1>7. Standing(C, F, d)
  BY <1>2, <1>5 DEF Standing, Earned
<1>8. Earned(C, F, d)
  BY <1>1, <1>6, <1>7 DEF Earned
<1> QED BY <1>8 DEF C
\* The record w of a pass that holds the rows or not, beside the committed verdicts F,
\* incidents I and detector row d: what it would commit is earned.
PassEarned(w, own, q, F, I, d) ==
  LET J == IF own THEN w.incident ELSE I IN
  /\ w.alert \in AlertRecords
  /\ w.pc = "ready" =>
       /\ w.det \in DetRecords /\ Earned(q, F \cup w.folded, w.det) /\ Named(J, w.det)
       /\ \A c \in Columns \ w.dirty : w.det[c] = d[c]

\* The inductive invariant of the incident.
EInv ==
  /\ faults \in 0..MaxFaults /\ det \in DetRecords /\ alert \in AlertRecords
  /\ Earned(bucket, folded, det) /\ Named(incident, det)
  /\ \A p \in Passes : PassEarned(pass[p], lock = p, bucket, folded, incident, det)

LEMMA NoPassEarned ==
  ASSUME NEW own, NEW q, NEW F, NEW I, NEW d
  PROVE  PassEarned(NoPass, own, q, F, I, d)
<1>1. NoPass.pc = "idle" /\ NoPass.alert = NoAlert
  BY DEF NoPass
<1>2. NoAlert \in AlertRecords
  BY DEF NoAlert, AlertRecords
<1> QED BY <1>1, <1>2 DEF PassEarned

LEMMA InitEarned == Init => EInv
<1> SUFFICES ASSUME Init PROVE EInv
  OBVIOUS
<1>1. /\ OpenAfter \in Nat \ {0} /\ ResolveAfter \in Nat \ {0} /\ MaxFaults \in Nat
      /\ MaxIncidents \in Nat
  BY EngineAssumption
<1>2. NewDetector \in DetRecords
  BY DEF NewDetector, DetRecords, States
<1>3. NoAlert \in AlertRecords
  BY DEF NoAlert, AlertRecords
<1>4. Named([i \in Incidents |-> "unused"], NewDetector)
  BY DEF Named, NewDetector, ActiveStates
<1>5. Earned(<<>>, {}, NewDetector)
  <2>1. \A n, s : RunTo(<<>>, {}, n, s) = {}
    BY DEF RunTo
  <2>2. Cardinality({}) = 0
    BY FS_EmptySet
  <2>3. ~Unresolved(<<>>, {})
    BY DEF Unresolved
  <2>4. /\ NewDetector.ca = 0 /\ NewDetector.ch = 0 /\ NewDetector.state = "NORMAL"
        /\ NewDetector.open = FALSE
    BY DEF NewDetector
  <2>5. Counts(<<>>, {}, NewDetector.last, NewDetector)
    BY <2>1, <2>2, <2>4 DEF Counts
  <2>6. Standing(<<>>, {}, NewDetector)
    BY <1>1, <2>3, <2>4 DEF Standing, Opened
  <2> QED BY <2>4, <2>5, <2>6 DEF Earned, Opened
<1>6. \A p \in Passes : pass[p] = NoPass
  BY DEF Init
<1>7. /\ bucket = <<>> /\ folded = {} /\ det = NewDetector /\ alert = NoAlert /\ faults = 0
      /\ incident = [i \in Incidents |-> "unused"]
  BY DEF Init
<1>8. \A p \in Passes : PassEarned(pass[p], lock = p, bucket, folded, incident, det)
  BY <1>6, NoPassEarned
<1>9. faults \in 0..MaxFaults /\ det \in DetRecords /\ alert \in AlertRecords
  BY <1>1, <1>2, <1>3, <1>7
<1>10. Earned(bucket, folded, det) /\ Named(incident, det)
  BY <1>4, <1>5, <1>7
<1> QED BY <1>8, <1>9, <1>10 DEF EInv

\* A step of the only pass that commits nothing.
LEMMA QuietEarned ==
  ASSUME Alone, EInv, DOMAIN pass = Passes, NEW p \in Passes, NEW new,
         pass' = [pass EXCEPT ![p] = new], UNCHANGED <<bucket, tableVars>>,
         faults' \in 0..MaxFaults,
         PassEarned(new, lock' = p, bucket, folded, incident, det)
  PROVE  EInv'
<1>1. UNCHANGED <<bucket, det, incident, alert, folded>>
  BY DEF tableVars
<1>2. pass'[p] = new /\ \A q \in Passes : q = p
  BY DEF Alone
<1> QED BY <1>1, <1>2 DEF EInv

LEMMA ArriveIncident == ASSUME IInv, EInv, Arrive PROVE EInv'
<1>1. UNCHANGED <<det, incident, alert, folded, lock, pass, faults>>
  BY DEF Arrive, tableVars
<1> DEFINE R == [kind : Kinds, maintenance : BOOLEAN]
<1>2. PICK x \in R : bucket' = Append(bucket, x)
  BY EngineAssumption DEF Arrive
<1>3. bucket \in Seq(R)
  BY DEF IInv, Typed
<1> HIDE DEF R
<1>4. ASSUME NEW F, NEW d, Earned(bucket, F, d) PROVE Earned(bucket', F, d)
  BY <1>2, <1>3, <1>4, ArriveEarned
<1>5. ASSUME NEW p \in Passes PROVE PassEarned(pass[p], lock = p, bucket', folded, incident, det)
  <2>1. PassEarned(pass[p], lock = p, bucket, folded, incident, det)
    BY DEF EInv
  <2> QED BY <1>4, <2>1 DEF PassEarned
<1> QED BY <1>1, <1>4, <1>5 DEF EInv

LEMMA LoadIncident == ASSUME Alone, IInv, EInv, NEW p \in Passes, Load(p) PROVE EInv'
<1> DEFINE x == OpenFaults(fault) # {}
           new == [NoPass EXCEPT !.pc = "loaded", !.todo = Pending, !.watermark = watermark,
                                 !.muted = recordOnly, !.failing = x]
<1>1. /\ pass' = [pass EXCEPT ![p] = new] /\ UNCHANGED <<bucket, tableVars, lock>>
      /\ DOMAIN pass = Passes /\ faults' \in 0..MaxFaults
  BY DEF Load, IInv, Typed, EInv
<1> HIDE DEF x
<1>2. new.pc = "loaded" /\ new.alert = NoAlert
  BY DEF NoPass
<1>3. NoAlert \in AlertRecords
  BY DEF NoAlert, AlertRecords
<1> HIDE DEF new
<1>4. PassEarned(new, lock' = p, bucket, folded, incident, det)
  BY <1>2, <1>3 DEF PassEarned
<1> QED BY <1>1, <1>4, QuietEarned

LEMMA ReadStateIncident ==
  ASSUME Alone, IInv, EInv, NEW p \in Passes, ReadState(p) PROVE EInv'
<1> DEFINE w == pass[p]
           new == [w EXCEPT !.pc = "ready", !.det = det]
<1>1. /\ pass' = [pass EXCEPT ![p] = new] /\ UNCHANGED <<bucket, tableVars, lock>>
      /\ DOMAIN pass = Passes /\ Shaped(w) /\ faults' \in 0..MaxFaults
  BY DEF ReadState, IInv, Typed, PassesSound, PassSound, EInv
<1>2. lock # p
  <2>1. PassSound(w, lock = p, Done, fault)
    BY DEF IInv, PassesSound
  <2> QED BY <2>1 DEF ReadState, PassSound
<1>3. w.folded = {}
  <2>1. PassSound(w, lock = p, Done, fault)
    BY DEF IInv, PassesSound
  <2> QED BY <1>2, <2>1 DEF PassSound
<1>4. w.alert \in AlertRecords
  BY DEF EInv, PassEarned
<1> HIDE DEF w
<1>5. new.pc = "ready" /\ new.det = det /\ new.alert = w.alert /\ new.folded = w.folded
  BY <1>1 DEF Shaped, NoPass
<1> HIDE DEF new
<1>6. PassEarned(new, lock' = p, bucket, folded, incident, det)
  BY <1>1, <1>2, <1>3, <1>4, <1>5 DEF PassEarned, EInv
<1> QED BY <1>1, <1>6, QuietEarned

\* What a pass works on when it has read the rows.
LEMMA RowsEarned ==
  ASSUME IInv, EInv, NEW p \in Passes, CanWrite(p)
  PROVE  LET r == Rows(p) IN
         /\ PassEarned(r, TRUE, bucket, folded, incident, det)
         /\ Shaped(r) /\ r.pc = "ready" /\ r.det = pass[p].det /\ r.dirty = pass[p].dirty
<1> DEFINE w == pass[p]
           r == Rows(p)
<1>1. /\ Shaped(w) /\ w.pc = "ready" /\ PassEarned(w, lock = p, bucket, folded, incident, det)
  BY DEF IInv, PassesSound, PassSound, CanWrite, EInv
<1>2. alert \in AlertRecords
  BY DEF EInv
<1>3. /\ Shaped(r) /\ r.pc = w.pc /\ r.det = w.det /\ r.dirty = w.dirty /\ r.folded = w.folded
      /\ r.incident = IF lock = p THEN w.incident ELSE incident
      /\ r.alert = IF w.touched THEN w.alert ELSE alert
  BY <1>1 DEF Rows, Shaped, NoPass
<1> HIDE DEF r
<1>4. PassEarned(r, TRUE, bucket, folded, incident, det)
  BY <1>1, <1>2, <1>3 DEF PassEarned
<1> QED BY <1>1, <1>3, <1>4 DEF r

\* A step that leaves the only pass with the rows.
LEMMA OwnEarned ==
  ASSUME Alone, EInv, DOMAIN pass = Passes, NEW p \in Passes, NEW new,
         pass' = [pass EXCEPT ![p] = new], UNCHANGED <<bucket, tableVars>>,
         faults' \in 0..MaxFaults, lock' = p,
         PassEarned(new, TRUE, bucket, folded, incident, det)
  PROVE  EInv'
<1>1. (lock' = p) = TRUE
  OBVIOUS
<1>2. PassEarned(new, lock' = p, bucket, folded, incident, det)
  BY <1>1, Zenon
<1> QED BY <1>2, QuietEarned
LEMMA JudgeIncident == ASSUME Alone, IInv, FInv, EInv, NEW p \in Passes, Judge(p) PROVE EInv'
<1> DEFINE r == Rows(p)
           n == Head(pass[p].todo)
           a == Apply(r, n)
           w == ClearFaults(a)
           x == {c \in Columns : w.det[c] # pass[p].det[c]}
           y == w.dirty \cup x \cup {"watermark"}
           new == [w EXCEPT !.todo = Tail(@), !.watermark = n, !.dirty = y]
<1>1. /\ pass' = [pass EXCEPT ![p] = new] /\ UNCHANGED <<bucket, tableVars>>
      /\ CanWrite(p) /\ DOMAIN pass = Passes /\ lock' = p /\ faults' \in 0..MaxFaults
      /\ bucket \in Seq([kind : Kinds, maintenance : BOOLEAN])
  BY DEF Judge, CanWrite, IInv, Typed, EInv
<1>2. n \in Buckets /\ n \in 1..Len(bucket)
  <2>1. pass[p].todo \in Seq(Buckets) /\ pass[p].todo # <<>> /\ pass[p].pc # "idle"
    BY <1>1 DEF IInv, PassesSound, PassSound, CanWrite
  <2>2. n \in Buckets /\ 1 \in 1..Len(pass[p].todo) /\ n = pass[p].todo[1]
    BY <2>1, TodoFacts
  <2>3. PassTidy(pass[p], lock = p, folded, fault, watermark, Len(bucket))
    BY <2>1 DEF FInv
  <2>4. n <= Len(bucket)
    BY <2>2, <2>3 DEF PassTidy, Ahead
  <2>5. n \in Nat /\ n > 0 /\ Len(bucket) \in Nat
    BY <1>1, <2>2, Consts
  <2> HIDE DEF n
  <2> QED BY <2>2, <2>4, <2>5
<1>3. /\ PassEarned(r, TRUE, bucket, folded, incident, det)
      /\ Shaped(r) /\ r.pc = "ready" /\ r.det = pass[p].det /\ r.dirty = pass[p].dirty
  BY <1>1, RowsEarned
<1> HIDE DEF r, n
<1>4. /\ r.det \in DetRecords /\ r.alert \in AlertRecords
      /\ Earned(bucket, folded \cup r.folded, r.det) /\ Named(r.incident, r.det)
      /\ \A c \in Columns \ r.dirty : r.det[c] = det[c]
  BY <1>3 DEF PassEarned
<1>5. /\ a.det \in DetRecords /\ a.alert \in AlertRecords
      /\ Earned(bucket, folded \cup a.folded, a.det) /\ Named(a.incident, a.det)
  BY <1>1, <1>2, <1>3, <1>4, ApplyEarned
<1>6. Shaped(a) /\ a.pc = r.pc /\ a.dirty = r.dirty
  BY <1>3, ApplyFacts
<1> HIDE DEF a
<1>7. /\ Shaped(w) /\ w.alert = a.alert /\ w.det = a.det /\ w.dirty = a.dirty /\ w.pc = a.pc
      /\ w.incident = a.incident /\ w.folded = a.folded
  BY <1>6, ClearFaultsAlert
<1>8. \A c \in Columns \ y : w.det[c] = det[c]
  <2> HIDE DEF w
  <2> QED BY <1>3, <1>4, <1>6, <1>7
<1> HIDE DEF w, x, y
<1>9. /\ new.pc = w.pc /\ new.alert = w.alert /\ new.det = w.det /\ new.dirty = y
      /\ new.incident = w.incident /\ new.folded = w.folded
  BY <1>7 DEF Shaped, NoPass
<1> HIDE DEF new
<1>10. PassEarned(new, TRUE, bucket, folded, incident, det)
  BY <1>5, <1>7, <1>8, <1>9 DEF PassEarned
<1> QED BY <1>1, <1>10, OwnEarned

\* A row read back is the row, where no other pass writes.
LEMMA MergedRow ==
  ASSUME NEW w, w.det \in DetRecords, \A c \in Columns \ w.dirty : w.det[c] = det[c]
  PROVE  Merged(w) = w.det
<1>1. w.det = [c \in Columns |-> w.det[c]]
  BY DEF DetRecords, Columns
<1> QED BY <1>1 DEF Merged

LEMMA FaultCounts == ASSUME EInv, Fault \/ UNCHANGED faults PROVE faults' \in 0..MaxFaults
BY EngineAssumption DEF Fault, EInv

LEMMA JudgeFailsIncident ==
  ASSUME Alone, IInv, EInv, NEW p \in Passes, JudgeFails(p) PROVE EInv'
<1> DEFINE r == Rows(p)
           n == Head(pass[p].todo)
           k == IF r.fault[n].attempts < BucketAttempts THEN r.fault[n].attempts + 1
                ELSE BucketAttempts
<1>1. /\ UNCHANGED <<bucket, tableVars>> /\ CanWrite(p) /\ DOMAIN pass = Passes
      /\ faults' \in 0..MaxFaults
  BY FaultCounts DEF JudgeFails, IInv, Typed
<1>2. PassEarned(r, TRUE, bucket, folded, incident, det) /\ Shaped(r) /\ r.pc = "ready"
  BY <1>1, RowsEarned
<1>3. \/ pass' = [pass EXCEPT ![p] = GivenUp(r, n, k)] /\ lock' = p
      \/ pass' = [pass EXCEPT ![p] = NoPass]
      \/ pass' = [pass EXCEPT ![p] = Held(r, n, k)] /\ lock' = p
  BY DEF JudgeFails
<1> HIDE DEF r, n, k
<1>4. /\ r.det \in DetRecords /\ r.alert \in AlertRecords
      /\ Earned(bucket, folded \cup r.folded, r.det) /\ Named(r.incident, r.det)
      /\ \A c \in Columns \ r.dirty : r.det[c] = det[c]
  BY <1>2 DEF PassEarned
<1>5. CASE pass' = [pass EXCEPT ![p] = GivenUp(r, n, k)] /\ lock' = p
  <2> DEFINE f == [r.fault EXCEPT ![n] = [attempts |-> k, closed |-> "given_up"]]
             m == Merged(r)
             d == r.dirty \cup {"watermark"}
             new == [r EXCEPT !.fault = f, !.watermark = n, !.todo = Tail(r.todo),
                              !.dirty = d, !.det = m, !.failing = FALSE]
  <2>1. GivenUp(r, n, k) = new
    BY DEF GivenUp
  <2>2. m = r.det
    BY <1>4, MergedRow
  <2>3. \A c \in Columns \ d : r.det[c] = det[c]
    BY <1>4
  <2> HIDE DEF f, m, d
  <2>4. /\ new.pc = "ready" /\ new.alert = r.alert /\ new.det = m /\ new.dirty = d
        /\ new.incident = r.incident /\ new.folded = r.folded
    BY <1>2 DEF Shaped, NoPass
  <2> HIDE DEF new
  <2>5. PassEarned(new, TRUE, bucket, folded, incident, det)
    BY <1>4, <2>2, <2>3, <2>4 DEF PassEarned
  <2> QED BY <1>1, <1>5, <2>1, <2>5, OwnEarned
<1>6. CASE pass' = [pass EXCEPT ![p] = NoPass]
  <2>1. PassEarned(NoPass, lock' = p, bucket, folded, incident, det)
    BY NoPassEarned, Zenon
  <2> QED BY <1>1, <1>6, <2>1, QuietEarned
<1>7. CASE pass' = [pass EXCEPT ![p] = Held(r, n, k)] /\ lock' = p
  <2> DEFINE f == [r.fault EXCEPT ![n].attempts = k]
             new == [r EXCEPT !.fault = f, !.failing = TRUE, !.todo = <<>>]
  <2>1. Held(r, n, k) = new
    BY DEF Held
  <2> HIDE DEF f
  <2>2. /\ new.pc = "ready" /\ new.alert = r.alert /\ new.det = r.det /\ new.dirty = r.dirty
        /\ new.incident = r.incident /\ new.folded = r.folded
    BY <1>2 DEF Shaped, NoPass
  <2> HIDE DEF new
  <2>3. PassEarned(new, TRUE, bucket, folded, incident, det)
    BY <1>4, <2>2 DEF PassEarned
  <2> QED BY <1>1, <1>7, <2>1, <2>3, OwnEarned
<1> QED BY <1>3, <1>5, <1>6, <1>7

LEMMA RecordFailsIncident ==
  ASSUME Alone, IInv, EInv, NEW p \in Passes, RecordFails(p) PROVE EInv'
<1> DEFINE w == pass[p]
           new == [w EXCEPT !.todo = <<>>]
<1>1. /\ pass' = [pass EXCEPT ![p] = new] /\ UNCHANGED <<bucket, tableVars, lock>>
      /\ DOMAIN pass = Passes /\ Shaped(w) /\ faults' \in 0..MaxFaults
      /\ PassEarned(w, lock = p, bucket, folded, incident, det)
  BY FaultCounts DEF RecordFails, IInv, Typed, PassesSound, PassSound, EInv
<1> HIDE DEF w
<1>2. /\ new.pc = w.pc /\ new.alert = w.alert /\ new.det = w.det /\ new.dirty = w.dirty
      /\ new.incident = w.incident /\ new.folded = w.folded
  BY <1>1 DEF Shaped, NoPass
<1> HIDE DEF new
<1>3. PassEarned(new, lock' = p, bucket, folded, incident, det)
  BY <1>1, <1>2 DEF PassEarned
<1> QED BY <1>1, <1>3, QuietEarned

LEMMA CommitIncident == ASSUME Alone, IInv, EInv, NEW p \in Passes, Commit(p) PROVE EInv'
<1> DEFINE w == pass[p]
<1>1. /\ pass' = [pass EXCEPT ![p] = NoPass] /\ UNCHANGED bucket /\ DOMAIN pass = Passes
      /\ faults' \in 0..MaxFaults
  BY DEF Commit, IInv, Typed, EInv
<1>2. CASE lock # p
  <2>1. UNCHANGED tableVars
    BY <1>2 DEF Commit
  <2>2. PassEarned(NoPass, lock' = p, bucket, folded, incident, det)
    BY NoPassEarned, Zenon
  <2> QED BY <1>1, <2>1, <2>2, QuietEarned
<1>3. CASE lock = p
  <2>1. /\ det' = Merged(w) /\ incident' = w.incident /\ folded' = folded \cup w.folded
        /\ alert' = IF w.touched THEN w.alert ELSE alert
    BY <1>3 DEF Commit
  <2>2. PassEarned(w, lock = p, bucket, folded, incident, det) /\ w.pc = "ready"
        /\ alert \in AlertRecords
    BY DEF Commit, EInv
  <2> HIDE DEF w
  <2>3. /\ w.det \in DetRecords /\ w.alert \in AlertRecords
        /\ Earned(bucket, folded \cup w.folded, w.det) /\ Named(w.incident, w.det)
        /\ \A c \in Columns \ w.dirty : w.det[c] = det[c]
    BY <1>3, <2>2 DEF PassEarned
  <2>4. det' = w.det
    BY <2>1, <2>3, MergedRow
  <2>5. /\ det' \in DetRecords /\ alert' \in AlertRecords
        /\ Earned(bucket', folded', det') /\ Named(incident', det')
    BY <1>1, <2>1, <2>2, <2>3, <2>4
  <2>6. \A q \in Passes : pass'[q] = NoPass
    BY <1>1 DEF Alone
  <2>7. \A q \in Passes : PassEarned(pass'[q], lock' = q, bucket', folded', incident', det')
    BY <2>6, NoPassEarned
  <2> QED BY <1>1, <2>5, <2>7 DEF EInv
<1> QED BY <1>2, <1>3

LEMMA NextIncident == ASSUME Alone, IInv, FInv, EInv, [Next]_vars PROVE EInv'
<1>1. CASE Arrive
  BY <1>1, ArriveIncident
<1>2. CASE EditPolicy \/ UNCHANGED vars
  <2>1. UNCHANGED <<bucket, det, incident, alert, folded, lock, pass, faults>>
    BY <1>2 DEF EditPolicy, vars, tableVars
  <2> QED BY <2>1 DEF EInv
<1>3. CASE OperatorResolves
  <2>1. /\ UNCHANGED <<bucket, det, incident, folded, lock, pass, faults>>
        /\ alert' = [alert EXCEPT !.on = FALSE]
    BY <1>3 DEF OperatorResolves
  <2>2. alert' \in AlertRecords
    BY <2>1 DEF AlertRecords, EInv
  <2> QED BY <2>1, <2>2 DEF EInv
<1>4. ASSUME NEW p \in Passes, PassStep(p) \/ JudgeFails(p) \/ RecordFails(p) \/ Crash(p)
      PROVE  EInv'
  <2>1. CASE Load(p)
    BY <2>1, LoadIncident
  <2>2. CASE ReadState(p)
    BY <2>2, ReadStateIncident
  <2>3. CASE Judge(p)
    BY <2>3, JudgeIncident
  <2>4. CASE Commit(p)
    BY <2>4, CommitIncident
  <2>5. CASE JudgeFails(p)
    BY <2>5, JudgeFailsIncident
  <2>6. CASE RecordFails(p)
    BY <2>6, RecordFailsIncident
  <2>7. CASE Crash(p)
    <3>1. /\ pass' = [pass EXCEPT ![p] = NoPass] /\ UNCHANGED <<bucket, tableVars>>
          /\ DOMAIN pass = Passes /\ faults' \in 0..MaxFaults
      BY <2>7, FaultCounts DEF Crash, IInv, Typed
    <3>2. PassEarned(NoPass, lock' = p, bucket, folded, incident, det)
      BY NoPassEarned, Zenon
    <3> QED BY <3>1, <3>2, QuietEarned
  <2> QED BY <1>4, <2>1, <2>2, <2>3, <2>4, <2>5, <2>6, <2>7 DEF PassStep
<1> QED BY <1>1, <1>2, <1>3, <1>4 DEF Next

\* Where passes do not overlap, an incident is open only while a run of OpenAfter
\* anomalous verdicts was followed by no run of ResolveAfter healthy ones, exactly then
\* if no bucket fell in maintenance; it is resolved by such a run alone; and there is one
\* active incident at most, the one the detector row names.  So for every threshold,
\* every sequence of verdicts, every retry, dead pass and operator (advance_counters,
\* next_state, _apply_transition).
THEOREM IncidentEarnedHolds ==
  ASSUME \A p, q \in Passes : p = q
  PROVE  Spec => []IncidentEarned
<1>1. Alone
  BY DEF Alone
<1>2. Init => IInv /\ FInv /\ EInv
  BY InitInv, InitFaults, InitEarned
<1>3. IInv /\ FInv /\ EInv /\ [Next]_vars => (IInv /\ FInv /\ EInv)'
  BY <1>1, NextInv, NextFaults, NextIncident
<1>4. IInv /\ EInv => IncidentEarned
  <2> SUFFICES ASSUME IInv, EInv PROVE IncidentEarned
    OBVIOUS
  <2>1. TypeOK
    <3>1. watermark \in Nat \cup {None}
      BY DoneBuckets, Consts DEF IInv, TablesSound
    <3>2. det \in DetRecords /\ alert \in AlertRecords /\ faults \in 0..MaxFaults
      BY DEF EInv
    <3>3. incident \in [Incidents -> States \cup {"unused"}]
      BY DEF EInv, Named
    <3> QED BY <3>1, <3>2, <3>3 DEF TypeOK, IInv, Typed, FaultRecords, DetRecords, AlertRecords
  <2>2. Standing(bucket, folded, det) /\ (det.open <=> det.state \in Opened)
    BY DEF EInv, Earned
  <2>3. OpenIffUnresolved /\ OpenIsConfirmed
    BY <2>2 DEF OpenIffUnresolved, OpenIsConfirmed, Standing
  <2>4. ResolvedIsEarned
    <3>1. RunTo(bucket, folded, Len(bucket), "healthy") = RunTo(bucket, folded, det.last, "healthy")
      <4>1. \A i \in folded : i <= Len(bucket) /\ i <= det.last
        BY DEF EInv, Earned
      <4> QED BY <4>1 DEF RunTo
    <3>2. det.ch = Cardinality(RunTo(bucket, folded, det.last, "healthy"))
      BY DEF EInv, Earned, Counts
    <3> QED BY <2>2, <3>1, <3>2 DEF ResolvedIsEarned, Standing
  <2>5. OneIncident
    BY DEF OneIncident, EInv, Named
  <2> QED BY <2>1, <2>3, <2>4, <2>5 DEF IncidentEarned
<1> QED BY <1>2, <1>3, <1>4, PTL DEF Spec

=============================================================================
