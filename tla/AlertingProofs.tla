--------------------------- MODULE AlertingProofs ---------------------------
(***************************************************************************)
(* Queued notifications and the alerts they are about, for any number of   *)
(* rows, alerts and transactions.                                          *)
(*                                                                         *)
(* NotificationDispatch, the outcome of a row: a row is due only while it  *)
(* is unsettled and has an attempt left, and once, so a task tries each    *)
(* row of its batch once and from such a state (Held).  What it writes is  *)
(* then its own outcome, or, when its status is the one it loaded, FAILED  *)
(* with attempts left beside a status that another task earned; that one   *)
(* is never PENDING, because no task holds a FAILED copy of a row that was *)
(* never tried (Untried).                                                  *)
(*                                                                         *)
(* NotificationDispatch, the sends of a row: every task has a claim on     *)
(* further sends, from the attempts of the row and from those with which   *)
(* it loaded it, and a commit pays for its send and for every claim that   *)
(* it raises (Claim, Budget).  Of two tasks more is true: one of two that  *)
(* hold a row has loaded it as it is (Pair), and a potential that no step  *)
(* raises gives the tight bound (Owed, Late).                              *)
(*                                                                         *)
(* AlertLifecycle, the alert table: no two live alerts of one key, no      *)
(* closed alert opened again.                                              *)
(***************************************************************************)
EXTENDS AlertLifecycle, NotificationDispatch, FiniteSetTheorems, WellFoundedInduction, TLAPS

\* No row is due twice.
Distinct(q) == \A i, j \in 1..Len(q) : q[i] = q[j] => i = j

\* The copy c of a row that a task has tried, which was delivered v times: an
\* outcome that was earned.
Outcome(c, v) ==
  /\ c.status \in {"SENT", "DEAD_LETTER", "FAILED"}
  /\ c.attempts <= MaxAttempts
  /\ c.status = "FAILED" => c.attempts < MaxAttempts
  /\ c.status = "SENT" => v > 0

\* A due row is unsettled.
DueUnsettled == Distinct(due) /\ \A n \in ToSet(due) : row[n].status \in Unsettled

\* A row that was never tried has its count at 0, and nobody holds it as FAILED.
Untried ==
  \A n \in Notices :
    row[n].status \in {"none", "PENDING"} =>
      row[n].attempts = 0 /\ \A d \in Dispatchers : copy[d][n].loaded # "FAILED"

\* What the task t holds, with the copies c, beside the rows r and the
\* deliveries v: the rows it has not tried as it loaded them, with an attempt
\* left, the others with their outcome.
HeldBy(t, c, r, v) ==
  /\ Distinct(t.left) /\ ToSet(t.left) \subseteq t.batch
  /\ ~t.running => t.left = <<>>
  /\ \A n \in t.batch :
       /\ c[n].loaded \in Unsettled
       /\ r[n].status # "none"
       /\ n \in ToSet(t.left) => c[n].status = c[n].loaded /\ c[n].attempts < MaxAttempts
       /\ n \notin ToSet(t.left) => Outcome(c[n], v[n])

Held == \A d \in Dispatchers : HeldBy(task[d], copy[d], row, received)

\* The inductive invariant.
IInv == OutcomeEarned /\ DueUnsettled /\ Untried /\ Held

-----------------------------------------------------------------------------
(* The due rows as a sequence.                                             *)

LEMMA AppendDistinct ==
  ASSUME NEW q \in Seq(Notices), NEW n \in Notices, Distinct(q), n \notin ToSet(q)
  PROVE  /\ Append(q, n) \in Seq(Notices) /\ Distinct(Append(q, n))
         /\ ToSet(Append(q, n)) = ToSet(q) \cup {n}
<1> DEFINE r == Append(q, n)
<1>1. /\ r \in Seq(Notices) /\ Len(r) = Len(q) + 1 /\ Len(q) \in Nat
      /\ \A i \in 1..Len(q) : r[i] = q[i]
      /\ r[Len(q) + 1] = n
  OBVIOUS
<1>2. \A i \in 1..Len(q) : q[i] # n
  BY DEF ToSet
<1> HIDE DEF r
<1>3. Distinct(r)
  BY <1>1, <1>2 DEF Distinct
<1>4. DOMAIN r = 1..Len(r) /\ DOMAIN q = 1..Len(q)
  BY <1>1
<1>5. ToSet(r) = ToSet(q) \cup {n}
  BY <1>1, <1>4 DEF ToSet
<1> QED BY <1>1, <1>3, <1>5 DEF r

LEMMA TailDistinct ==
  ASSUME NEW q \in Seq(Notices), q # <<>>, Distinct(q)
  PROVE  /\ Tail(q) \in Seq(Notices) /\ Distinct(Tail(q))
         /\ Head(q) \in ToSet(q)
         /\ ToSet(Tail(q)) = ToSet(q) \ {Head(q)}
<1> DEFINE r == Tail(q)
<1>1. /\ r \in Seq(Notices) /\ Len(r) = Len(q) - 1 /\ Len(q) \in Nat /\ Len(q) > 0
      /\ \A i \in 1..Len(r) : r[i] = q[i + 1]
      /\ Head(q) = q[1]
  OBVIOUS
<1> HIDE DEF r
<1>2. Distinct(r)
  BY <1>1 DEF Distinct
<1>3. DOMAIN r = 1..Len(r) /\ DOMAIN q = 1..Len(q)
  BY <1>1
<1>4. ToSet(r) \subseteq ToSet(q) \ {q[1]}
  BY <1>1, <1>3 DEF ToSet, Distinct
<1>5. ASSUME NEW i \in 1..Len(q), q[i] # q[1]
      PROVE  q[i] \in ToSet(r)
  <2>1. i - 1 \in 1..Len(r) /\ r[i - 1] = q[i]
    BY <1>1, <1>5
  <2> QED BY <1>3, <2>1 DEF ToSet
<1>6. ToSet(q) \ {q[1]} \subseteq ToSet(r)
  BY <1>3, <1>5 DEF ToSet
<1>7. q[1] \in ToSet(q)
  BY <1>1, <1>3 DEF ToSet
<1> QED BY <1>1, <1>2, <1>4, <1>6, <1>7 DEF r

LEMMA BatchDistinct ==
  ASSUME due \in Seq(Notices), Distinct(due)
  PROVE  Batch \in Seq(Notices) /\ Distinct(Batch) /\ ToSet(Batch) \subseteq ToSet(due)
<1> DEFINE k == IF Len(due) < Limit THEN Len(due) ELSE Limit
<1>1. k \in 0..Len(due) /\ Batch = SubSeq(due, 1, k)
  BY DispatchAssumption DEF Batch
<1> HIDE DEF k
<1>2. /\ Len(SubSeq(due, 1, k)) = k /\ SubSeq(due, 1, k) \in Seq(Notices)
      /\ \A i \in 1..k : SubSeq(due, 1, k)[i] = due[i]
  BY <1>1
<1> QED BY <1>1, <1>2 DEF Distinct, ToSet

\* A set of numbers has a least element: the ground of the inductions below.
LEMMA LeastElement ==
  ASSUME NEW T, T \subseteq Nat, T # {}
  PROVE  \E m \in T : \A k \in T : m <= k
<1>1. PICK m \in T : \A k \in T : <<k, m>> \notin OpToRel(<, Nat)
  BY NatLessThanWellFounded, WFMin
<1>2. \A k \in T : ~(k < m)
  BY <1>1 DEF OpToRel
<1> QED BY <1>2

\* One step of the scan in Without.
ScanStep(q, S, f, i) ==
  IF i = 0 THEN <<>> ELSE IF q[i] \in S THEN f[i - 1] ELSE Append(f[i - 1], q[i])

\* The scan of Without is well defined.
LEMMA ScanExists ==
  ASSUME NEW q \in Seq(Notices), NEW S
  PROVE  \E f : f = [i \in 0..Len(q) |-> ScanStep(q, S, f, i)]
<1> DEFINE Scans(f, m) == f = [i \in 0..m |-> ScanStep(q, S, f, i)]
           T == {m \in Nat : m <= Len(q) /\ ~\E f : Scans(f, m)}
<1>1. T = {}
  <2> SUFFICES ASSUME T # {} PROVE FALSE
    OBVIOUS
  <2>1. PICK m \in T : \A k \in T : m <= k
    <3>1. T \subseteq Nat
      OBVIOUS
    <3> HIDE DEF T
    <3> QED BY <3>1, LeastElement
  <2>2. m # 0
    <3>1. Scans([i \in 0..0 |-> <<>>], 0)
      BY DEF ScanStep
    <3> HIDE DEF Scans
    <3> QED BY <2>1, <3>1
  <2>3. PICK f : Scans(f, m - 1)
    <3> HIDE DEF Scans
    <3>1. m - 1 \in Nat /\ m - 1 <= Len(q) /\ m - 1 \notin T
      BY <2>1, <2>2
    <3> QED BY <3>1
  <2> DEFINE g == [i \in 0..m |-> IF i < m THEN f[i] ELSE ScanStep(q, S, f, m)]
  <2>4. \A i \in 0..m : g[i] = ScanStep(q, S, g, i)
    <3> SUFFICES ASSUME NEW i \in 0..m PROVE g[i] = ScanStep(q, S, g, i)
      OBVIOUS
    <3>1. i # 0 => g[i - 1] = f[i - 1]
      BY <2>1
    <3>2. ScanStep(q, S, g, i) = ScanStep(q, S, f, i)
      BY <3>1 DEF ScanStep
    <3>3. CASE i = m
      BY <2>1, <3>2, <3>3
    <3>4. CASE i # m
      BY <2>1, <2>3, <3>2, <3>4
    <3> QED BY <3>3, <3>4
  <2>5. Scans(g, m)
    BY <2>4
  <2> HIDE DEF Scans, g
  <2> QED BY <2>1, <2>5
<1>2. Len(q) \in Nat
  OBVIOUS
<1> QED BY <1>1, <1>2

\* What the rows of S leave of the due ones keeps its order and repeats none.
LEMMA WithoutKeeps ==
  ASSUME NEW q \in Seq(Notices), NEW S, Distinct(q)
  PROVE  /\ Without(q, S) \in Seq(Notices) /\ Distinct(Without(q, S))
         /\ ToSet(Without(q, S)) \subseteq ToSet(q) \ S
<1> DEFINE W == CHOOSE f : f = [i \in 0..Len(q) |-> ScanStep(q, S, f, i)]
           Good(i) == /\ W[i] \in Seq(Notices) /\ Distinct(W[i])
                      /\ \A k \in 1..Len(W[i]) :
                           W[i][k] \notin S /\ \E j \in 1..i : W[i][k] = q[j]
           T == {i \in Nat : i <= Len(q) /\ ~Good(i)}
<1>1. Without(q, S) = W[Len(q)]
  BY DEF Without, ScanStep
<1>2. \A i \in 0..Len(q) : W[i] = ScanStep(q, S, W, i)
  <2>1. W = [i \in 0..Len(q) |-> ScanStep(q, S, W, i)]
    BY ScanExists
  <2> HIDE DEF W
  <2> QED BY <2>1, Zenon
<1> HIDE DEF W
<1>3. T = {}
  <2> SUFFICES ASSUME T # {} PROVE FALSE
    OBVIOUS
  <2>1. PICK m \in T : \A k \in T : m <= k
    <3>1. T \subseteq Nat
      OBVIOUS
    <3> HIDE DEF T
    <3> QED BY <3>1, LeastElement
  <2>2. m \in 0..Len(q) /\ W[m] = ScanStep(q, S, W, m)
    BY <1>2, <2>1
  <2>3. CASE m = 0
    <3>1. W[0] = <<>>
      BY <2>2, <2>3 DEF ScanStep
    <3>2. Good(0)
      BY <3>1 DEF Distinct
    <3> QED BY <2>1, <2>3, <3>2
  <2>4. CASE m # 0
    <3>1. Good(m - 1)
      BY <2>1, <2>4
    <3>2. q[m] \in Notices
      BY <2>1, <2>4
    <3>3. CASE q[m] \in S
      <4>1. W[m] = W[m - 1]
        BY <2>2, <2>4, <3>3 DEF ScanStep
      <4>2. Good(m)
        BY <2>1, <2>4, <3>1, <4>1
      <4> QED BY <2>1, <4>2
    <3>4. CASE q[m] \notin S
      <4>1. W[m] = Append(W[m - 1], q[m])
        BY <2>2, <2>4, <3>4 DEF ScanStep
      <4>2. q[m] \notin ToSet(W[m - 1])
        <5> SUFFICES ASSUME NEW k \in 1..Len(W[m - 1]), W[m - 1][k] = q[m]
                     PROVE  FALSE
          BY <3>1 DEF ToSet
        <5>1. PICK j \in 1..(m - 1) : q[m] = q[j]
          BY <3>1
        <5> QED BY <2>1, <2>4, <5>1 DEF Distinct
      <4>3. W[m] \in Seq(Notices) /\ Distinct(W[m])
        BY <3>1, <3>2, <4>1, <4>2, AppendDistinct
      <4>4. \A k \in 1..Len(W[m]) : W[m][k] \notin S /\ \E j \in 1..m : W[m][k] = q[j]
        <5> SUFFICES ASSUME NEW k \in 1..Len(W[m])
                     PROVE  W[m][k] \notin S /\ \E j \in 1..m : W[m][k] = q[j]
          OBVIOUS
        <5>1. CASE k = Len(W[m - 1]) + 1
          BY <2>1, <2>4, <3>1, <3>2, <3>4, <4>1, <5>1
        <5>2. CASE k # Len(W[m - 1]) + 1
          <6>1. k \in 1..Len(W[m - 1]) /\ W[m][k] = W[m - 1][k]
            BY <3>1, <3>2, <4>1, <5>2
          <6> QED BY <2>1, <2>4, <3>1, <6>1
        <5> QED BY <5>1, <5>2
      <4> QED BY <2>1, <4>3, <4>4
    <3> QED BY <3>3, <3>4
  <2> QED BY <2>3, <2>4
<1>4. Good(Len(q))
  BY <1>3
<1> QED BY <1>1, <1>4 DEF ToSet


-----------------------------------------------------------------------------
(* The invariant.                                                          *)

RowStatuses == {"none"} \cup Unsettled \cup Settled
Tasks == [running : BOOLEAN, left : Seq(Notices), batch : SUBSET Notices]
Copies == [loaded : {"none"} \cup Unsettled, status : RowStatuses, attempts : Nat]

\* What a task holds stays so when other tasks write rows and deliver messages.
LEMMA HeldMonotone ==
  ASSUME NEW t \in Tasks, NEW c, NEW r, NEW v \in [Notices -> Nat],
         NEW s, NEW w \in [Notices -> Nat],
         \A n \in Notices : r[n].status # "none" => s[n].status # "none",
         \A n \in Notices : v[n] <= w[n],
         HeldBy(t, c, r, v)
  PROVE  HeldBy(t, c, s, w)
<1>1. t.batch \subseteq Notices
  BY DEF Tasks
<1>2. \A n \in t.batch : Outcome(c[n], v[n]) => Outcome(c[n], w[n])
  BY <1>1 DEF Outcome
<1> QED BY <1>1, <1>2 DEF HeldBy

LEMMA InitInv == Init => IInv
<1> SUFFICES ASSUME Init PROVE IInv
  OBVIOUS
<1>1. TypeOK
  BY DispatchAssumption DEF Init, TypeOK, Blank, Idle, NoCopy
<1>2. AttemptsBounded /\ SentWasDelivered
  BY DispatchAssumption DEF Init, AttemptsBounded, SentWasDelivered, Blank
<1>3. DueUnsettled
  BY DEF Init, DueUnsettled, Distinct, ToSet
<1>4. Untried
  BY DEF Init, Untried, Blank, NoCopy
<1>5. Held
  BY DEF Init, Held, HeldBy, Idle, Distinct, ToSet
<1> QED BY <1>1, <1>2, <1>3, <1>4, <1>5 DEF IInv, OutcomeEarned

\* A row that becomes due, new or after its backoff.
LEMMA DueInv ==
  ASSUME IInv, NEW n \in Notices, Enqueue(n) \/ BackoffEnds(n)
  PROVE  IInv'
<1>0. /\ TypeOK /\ row \in [Notices -> [status : RowStatuses, attempts : Nat]]
      /\ due \in Seq(Notices) /\ Distinct(due)
      /\ \A m \in ToSet(due) : row[m].status \in Unsettled
      /\ AttemptsBounded /\ SentWasDelivered /\ Untried /\ Held
  BY DEF IInv, OutcomeEarned, TypeOK, DueUnsettled, RowStatuses
<1>1. n \notin ToSet(due)
  BY <1>0 DEF Enqueue, BackoffEnds, Unsettled
<1>2. /\ due' = Append(due, n) /\ UNCHANGED <<task, copy, sends, received, crashes>>
      /\ row' = row \/ (row[n].status = "none" /\ row' = [row EXCEPT ![n].status = "PENDING"])
      /\ row'[n].status \in Unsettled
  BY <1>0 DEF Enqueue, BackoffEnds, Unsettled
<1>3. due' \in Seq(Notices) /\ Distinct(due') /\ ToSet(due') = ToSet(due) \cup {n}
  BY <1>0, <1>1, <1>2, AppendDistinct
<1>4. /\ row' \in [Notices -> [status : RowStatuses, attempts : Nat]]
      /\ \A m \in Notices : m # n => row'[m] = row[m]
      /\ row'[n].attempts = row[n].attempts
      /\ row'[n].status = row[n].status
          \/ (row[n].status = "none" /\ row'[n].status = "PENDING")
  BY <1>0, <1>2 DEF RowStatuses, Unsettled
<1>5. TypeOK'
  BY <1>0, <1>2, <1>3, <1>4 DEF TypeOK, RowStatuses
<1>6. AttemptsBounded' /\ SentWasDelivered'
  BY <1>0, <1>2, <1>4 DEF AttemptsBounded, SentWasDelivered
<1>7. DueUnsettled'
  <2>1. ToSet(due) \subseteq Notices
    BY <1>0 DEF ToSet
  <2> QED BY <1>0, <1>2, <1>3, <1>4, <2>1 DEF DueUnsettled
<1>8. Untried'
  BY <1>0, <1>2, <1>4 DEF Untried
<1>9. Held'
  <2> SUFFICES ASSUME NEW d \in Dispatchers
               PROVE  HeldBy(task[d], copy[d], row', received)
    BY <1>2 DEF Held
  <2>1. task[d] \in Tasks /\ received \in [Notices -> Nat]
    BY <1>0 DEF TypeOK, Tasks
  <2>2. \A m \in Notices : row[m].status # "none" => row'[m].status # "none"
    BY <1>4
  <2>3. HeldBy(task[d], copy[d], row, received) /\ \A m \in Notices : received[m] <= received[m]
    BY <1>0, <2>1 DEF Held
  <2> QED BY <2>1, <2>2, <2>3, HeldMonotone
<1> QED BY <1>5, <1>6, <1>7, <1>8, <1>9 DEF IInv, OutcomeEarned

\* A task reads its batch.
LEMMA SelectInv ==
  ASSUME IInv, NEW d \in Dispatchers, Select(d)
  PROVE  IInv'
<1> DEFINE B == ToSet(Batch)
<1>0. /\ TypeOK /\ due \in Seq(Notices) /\ Distinct(due) /\ DueUnsettled
      /\ AttemptsBounded /\ SentWasDelivered /\ Untried /\ Held
      /\ row \in [Notices -> [status : RowStatuses, attempts : Nat]]
      /\ task \in [Dispatchers -> Tasks] /\ copy \in [Dispatchers -> [Notices -> Copies]]
  BY DEF IInv, OutcomeEarned, TypeOK, DueUnsettled, RowStatuses, Tasks, Copies
<1>1. Batch \in Seq(Notices) /\ Distinct(Batch) /\ B \subseteq ToSet(due) /\ B \subseteq Notices
  <2>1. ToSet(due) \subseteq Notices
    BY <1>0 DEF ToSet
  <2> QED BY <1>0, <2>1, BatchDistinct
<1>2. \A n \in B : row[n].status \in Unsettled /\ row[n].attempts < MaxAttempts
  <2> SUFFICES ASSUME NEW n \in B
               PROVE  row[n].status \in Unsettled /\ row[n].attempts < MaxAttempts
    OBVIOUS
  <2>1. n \in Notices /\ row[n].status \in Unsettled
    BY <1>0, <1>1 DEF DueUnsettled
  <2> QED BY <1>0, <2>1, DispatchAssumption DEF AttemptsBounded, Untried, Unsettled
<1>3. UNCHANGED <<row, due, sends, received, crashes>>
  BY DEF Select
<1> HIDE DEF B
<1>4. /\ task' = [task EXCEPT ![d] = [running |-> TRUE, left |-> Batch, batch |-> B]]
      /\ copy' = [copy EXCEPT ![d] =
           [n \in Notices |-> IF n \in B
                              THEN [loaded |-> row[n].status, status |-> row[n].status,
                                    attempts |-> row[n].attempts]
                              ELSE NoCopy]]
  BY DEF Select, B
<1>5. /\ task' \in [Dispatchers -> Tasks]
      /\ task'[d] = [running |-> TRUE, left |-> Batch, batch |-> B]
      /\ \A e \in Dispatchers : e # d => task'[e] = task[e] /\ copy'[e] = copy[e]
      /\ \A n \in B : copy'[d][n] = [loaded |-> row[n].status, status |-> row[n].status,
                                     attempts |-> row[n].attempts]
      /\ \A n \in Notices \ B : copy'[d][n] = NoCopy
  BY <1>0, <1>1, <1>4 DEF Tasks
<1>5a. \A n \in B : /\ copy'[d][n].loaded = row[n].status
                    /\ copy'[d][n].status = row[n].status
                    /\ copy'[d][n].attempts = row[n].attempts
  <2> TAKE n \in B
  <2>1. copy'[d][n] = [loaded |-> row[n].status, status |-> row[n].status,
                       attempts |-> row[n].attempts]
    BY <1>5
  <2> QED BY <2>1
<1>6. copy' \in [Dispatchers -> [Notices -> Copies]]
  BY <1>0, <1>2, <1>4 DEF Copies, NoCopy, RowStatuses
<1>7. TypeOK'
  BY <1>0, <1>3, <1>5, <1>6 DEF TypeOK, Tasks, Copies, RowStatuses
<1>8. AttemptsBounded' /\ SentWasDelivered' /\ DueUnsettled'
  BY <1>0, <1>3 DEF AttemptsBounded, SentWasDelivered, DueUnsettled
<1>9. Untried'
  <2> SUFFICES ASSUME NEW n \in Notices, row[n].status \in {"none", "PENDING"},
                      NEW e \in Dispatchers
               PROVE  row[n].attempts = 0 /\ copy'[e][n].loaded # "FAILED"
    BY <1>3 DEF Untried
  <2>1. row[n].attempts = 0 /\ copy[e][n].loaded # "FAILED"
    BY <1>0 DEF Untried
  <2>2. CASE e # d
    BY <1>5, <2>1, <2>2
  <2>3. CASE e = d /\ n \in B
    <3>1. copy'[d][n].loaded = row[n].status
      BY <1>5a, <2>3
    <3> QED BY <2>1, <2>3, <3>1
  <2>4. CASE e = d /\ n \notin B
    BY <1>5, <2>1, <2>4 DEF NoCopy
  <2> QED BY <2>2, <2>3, <2>4
<1>10. Held'
  <2> SUFFICES ASSUME NEW e \in Dispatchers
               PROVE  HeldBy(task'[e], copy'[e], row, received)
    BY <1>3 DEF Held
  <2>1. CASE e # d
    BY <1>0, <1>5, <2>1 DEF Held
  <2>2. CASE e = d
    <3>1. /\ task'[d].left = Batch /\ task'[d].batch = B /\ task'[d].running
          /\ ToSet(Batch) = B
      BY <1>5 DEF B
    <3>2. \A n \in B : /\ copy'[d][n].loaded \in Unsettled /\ row[n].status # "none"
                       /\ copy'[d][n].status = copy'[d][n].loaded
                       /\ copy'[d][n].attempts < MaxAttempts
      BY <1>2, <1>5a DEF Unsettled
    <3> QED BY <1>1, <2>2, <3>1, <3>2 DEF HeldBy
  <2> QED BY <2>1, <2>2
<1> QED BY <1>7, <1>8, <1>9, <1>10 DEF IInv, OutcomeEarned

\* One attempt: the first row left gets its outcome.
LEMMA AttemptInv ==
  ASSUME IInv, NEW d \in Dispatchers, Attempt(d)
  PROVE  IInv'
<1> DEFINE n == Head(task[d].left)
           k == copy[d][n].attempts + 1
<1>0. /\ TypeOK /\ DueUnsettled /\ AttemptsBounded /\ SentWasDelivered /\ Untried /\ Held
      /\ row \in [Notices -> [status : RowStatuses, attempts : Nat]]
      /\ task \in [Dispatchers -> Tasks] /\ copy \in [Dispatchers -> [Notices -> Copies]]
      /\ sends \in [Notices -> Nat] /\ received \in [Notices -> Nat]
      /\ HeldBy(task[d], copy[d], row, received)
  BY DEF IInv, OutcomeEarned, TypeOK, Held, RowStatuses, Tasks, Copies
<1>1. /\ task[d].left \in Seq(Notices) /\ task[d].left # <<>>
      /\ task[d].batch \subseteq Notices /\ task[d].running
  BY <1>0 DEF Attempt, Tasks, HeldBy
<1>2. /\ Tail(task[d].left) \in Seq(Notices) /\ Distinct(Tail(task[d].left))
      /\ n \in ToSet(task[d].left)
      /\ ToSet(Tail(task[d].left)) = ToSet(task[d].left) \ {n}
  BY <1>0, <1>1, TailDistinct DEF HeldBy
<1>3. /\ n \in task[d].batch /\ n \in Notices /\ copy[d][n].loaded \in Unsettled
      /\ copy[d][n] \in Copies /\ copy[d][n].attempts < MaxAttempts
  BY <1>0, <1>1, <1>2 DEF HeldBy
<1>4. k \in 1..MaxAttempts /\ k \in Nat
  BY <1>3, DispatchAssumption DEF Copies
<1> DEFINE Becomes(s) == copy' = [copy EXCEPT ![d][n].attempts = k, ![d][n].status = s]
           Sent == sends' = [sends EXCEPT ![n] = @ + 1]
           Delivered == received' = [received EXCEPT ![n] = @ + 1]
           Popped == task' = [task EXCEPT ![d].left = Tail(@)]
<1>a. /\ Popped /\ UNCHANGED <<row, due, crashes>>
      /\ \/ Becomes("DEAD_LETTER") /\ sends' = sends /\ received' = received
         \/ /\ Sent
            /\ \/ Becomes("SENT") /\ Delivered
               \/ \E permanent \in BOOLEAN :
                    Becomes(Failure(k, permanent)) /\ received' = received
               \/ Becomes(Failure(k, FALSE)) /\ Delivered
  BY Zenon DEF Attempt
<1>b. \A permanent \in BOOLEAN :
        /\ Failure(k, permanent) \in {"DEAD_LETTER", "FAILED"}
        /\ Failure(k, permanent) = "FAILED" => k < MaxAttempts
  BY <1>4, DispatchAssumption DEF Failure
<1> HIDE DEF n, k, Becomes, Sent, Delivered, Popped
<1>5. PICK s \in {"SENT", "DEAD_LETTER", "FAILED"} :
        /\ Becomes(s)
        /\ sends' = sends \/ Sent
        /\ received' = received \/ Delivered
        /\ s = "SENT" => Delivered
        /\ s = "FAILED" => k < MaxAttempts
  <2>1. CASE Becomes("DEAD_LETTER") /\ sends' = sends /\ received' = received
    BY <2>1
  <2>2. CASE Sent /\ Becomes("SENT") /\ Delivered
    BY <2>2
  <2>3. ASSUME NEW permanent \in BOOLEAN, Sent, Becomes(Failure(k, permanent)),
               received' = received \/ Delivered
        PROVE  \E s \in {"SENT", "DEAD_LETTER", "FAILED"} :
                 /\ Becomes(s)
                 /\ sends' = sends \/ Sent
                 /\ received' = received \/ Delivered
                 /\ s = "SENT" => Delivered
                 /\ s = "FAILED" => k < MaxAttempts
    <3>1. CASE Failure(k, permanent) = "DEAD_LETTER"
      BY <2>3, <3>1
    <3>2. CASE Failure(k, permanent) = "FAILED"
      BY <1>b, <2>3, <3>2
    <3> QED BY <1>b, <3>1, <3>2
  <2>4. FALSE \in BOOLEAN
    OBVIOUS
  <2> QED BY <1>a, <2>1, <2>2, <2>3, <2>4
<1>6. /\ sends' \in [Notices -> Nat] /\ received' \in [Notices -> Nat]
      /\ \A m \in Notices : received[m] <= received'[m]
      /\ s = "SENT" => received'[n] > 0
  <2>1. sends' \in [Notices -> Nat]
    BY <1>0, <1>3, <1>5 DEF Sent
  <2>2. CASE received' = received /\ ~Delivered
    <3>1. s # "SENT"
      BY <1>5, <2>2
    <3>2. received' \in [Notices -> Nat]
      BY <1>0, <2>2
    <3> QED BY <1>0, <2>1, <2>2, <3>1, <3>2
  <2>3. CASE Delivered
    <3>1. received[n] \in Nat
      BY <1>0, <1>3
    <3> QED BY <1>0, <1>3, <2>1, <2>3, <3>1 DEF Delivered
  <2> QED BY <1>5, <2>1, <2>2, <2>3
<1>7. /\ task' \in [Dispatchers -> Tasks]
      /\ task'[d] = [running |-> TRUE, left |-> Tail(task[d].left), batch |-> task[d].batch]
      /\ \A e \in Dispatchers : e # d => task'[e] = task[e]
  <2>1. task' = [task EXCEPT ![d].left = Tail(task[d].left)]
    BY <1>a DEF Popped
  <2>2. task[d] \in Tasks
    BY <1>0
  <2>3. task'[d] = [task[d] EXCEPT !.left = Tail(task[d].left)]
    BY <1>0, <2>1
  <2>4. task'[d] = [running |-> TRUE, left |-> Tail(task[d].left), batch |-> task[d].batch]
    BY <1>1, <2>2, <2>3 DEF Tasks
  <2>5. task'[d] \in Tasks
    BY <1>1, <1>2, <2>4 DEF Tasks
  <2>6. /\ \A e \in Dispatchers : e # d => task'[e] = task[e]
        /\ DOMAIN task' = Dispatchers
        /\ task' = [e \in Dispatchers |-> task'[e]]
    BY <1>0, <2>1
  <2> QED BY <1>0, <2>4, <2>5, <2>6
<1>8. /\ copy' \in [Dispatchers -> [Notices -> Copies]]
      /\ copy'[d][n] = [loaded |-> copy[d][n].loaded, status |-> s, attempts |-> k]
      /\ \A m \in Notices : m # n => copy'[d][m] = copy[d][m]
      /\ \A e \in Dispatchers : e # d => copy'[e] = copy[e]
  BY <1>0, <1>3, <1>4, <1>5 DEF Becomes, Copies, RowStatuses, Settled, Unsettled
<1>9. TypeOK'
  BY <1>0, <1>a, <1>6, <1>7, <1>8 DEF TypeOK, Tasks, Copies, RowStatuses
<1>10. AttemptsBounded' /\ DueUnsettled'
  BY <1>0, <1>a DEF AttemptsBounded, DueUnsettled
<1>11. SentWasDelivered'
  BY <1>0, <1>a, <1>6 DEF SentWasDelivered
<1>12. Untried'
  <2> SUFFICES ASSUME NEW m \in Notices, row[m].status \in {"none", "PENDING"},
                      NEW e \in Dispatchers
               PROVE  row[m].attempts = 0 /\ copy'[e][m].loaded # "FAILED"
    BY <1>a DEF Untried
  <2>1. row[m].attempts = 0 /\ copy[e][m].loaded # "FAILED"
    BY <1>0 DEF Untried
  <2>2. copy'[e][m].loaded = copy[e][m].loaded
    BY <1>8
  <2> QED BY <2>1, <2>2
<1>13. Held'
  <2> SUFFICES ASSUME NEW e \in Dispatchers
               PROVE  HeldBy(task'[e], copy'[e], row, received')
    BY <1>a DEF Held
  <2>1. HeldBy(task[e], copy[e], row, received')
    <3>1. HeldBy(task[e], copy[e], row, received) /\ task[e] \in Tasks
      BY <1>0 DEF Held
    <3> QED BY <1>0, <1>6, <3>1, HeldMonotone
  <2>2. CASE e # d
    BY <1>7, <1>8, <2>1, <2>2
  <2>3. CASE e = d
    <3>1. Outcome(copy'[d][n], received'[n])
      BY <1>4, <1>5, <1>6, <1>8 DEF Outcome
    <3>2. /\ Distinct(task'[d].left) /\ ToSet(task'[d].left) \subseteq task'[d].batch
          /\ task'[d].running
      BY <1>2, <1>7, <2>1, <2>3 DEF HeldBy
    <3>3. ASSUME NEW m \in task[d].batch
          PROVE  /\ copy'[d][m].loaded \in Unsettled
                 /\ row[m].status # "none"
                 /\ m \in ToSet(task'[d].left) =>
                      /\ copy'[d][m].status = copy'[d][m].loaded
                      /\ copy'[d][m].attempts < MaxAttempts
                 /\ m \notin ToSet(task'[d].left) => Outcome(copy'[d][m], received'[m])
      <4>1. m \in Notices /\ row[m].status # "none"
        BY <1>1, <2>1, <2>3 DEF HeldBy
      <4>2. CASE m = n
        BY <1>2, <1>3, <1>7, <1>8, <3>1, <4>1, <4>2
      <4>3. CASE m # n
        BY <1>2, <1>7, <1>8, <2>1, <2>3, <4>1, <4>3 DEF HeldBy
      <4> QED BY <4>2, <4>3
    <3>4. task'[d].batch = task[d].batch
      BY <1>7
    <3> QED BY <2>3, <3>2, <3>3, <3>4 DEF HeldBy
  <2> QED BY <2>2, <2>3
<1> QED BY <1>9, <1>10, <1>11, <1>12, <1>13 DEF IInv, OutcomeEarned

\* What a commit writes of one row is earned, whoever wrote the row meanwhile.
LEMMA WrittenEarned ==
  ASSUME IInv, NEW d \in Dispatchers, task[d].left = <<>>, NEW n \in task[d].batch
  PROVE  /\ n \in Notices /\ Written(d, n) \in [status : RowStatuses, attempts : Nat]
         /\ Written(d, n).status \in {"SENT", "DEAD_LETTER", "FAILED"}
         /\ Outcome(Written(d, n), received[n])
<1>0. /\ TypeOK /\ AttemptsBounded /\ SentWasDelivered /\ Untried
      /\ row \in [Notices -> [status : RowStatuses, attempts : Nat]]
      /\ task \in [Dispatchers -> Tasks] /\ copy \in [Dispatchers -> [Notices -> Copies]]
      /\ HeldBy(task[d], copy[d], row, received)
  BY DEF IInv, OutcomeEarned, TypeOK, Held, RowStatuses, Tasks, Copies
<1>1. n \in Notices /\ copy[d][n] \in Copies /\ row[n] \in [status : RowStatuses, attempts : Nat]
  BY <1>0 DEF Tasks
<1>2. n \notin ToSet(task[d].left)
  BY DEF ToSet
<1>3. /\ Outcome(copy[d][n], received[n]) /\ row[n].status # "none"
      /\ copy[d][n].loaded \in Unsettled
  BY <1>0, <1>2 DEF HeldBy
<1>4. CASE copy[d][n].status # copy[d][n].loaded
  BY <1>1, <1>3, <1>4 DEF Written, Outcome, Copies
<1>5. CASE copy[d][n].status = copy[d][n].loaded
  <2>1. copy[d][n].loaded = "FAILED" /\ copy[d][n].attempts < MaxAttempts
    BY <1>3, <1>5 DEF Outcome, Unsettled
  <2>2. row[n].status \in {"SENT", "DEAD_LETTER", "FAILED"}
    BY <1>0, <1>1, <1>3, <2>1 DEF Untried, RowStatuses, Settled, Unsettled
  <2>3. row[n].status = "SENT" => received[n] > 0
    BY <1>0, <1>1 DEF SentWasDelivered
  <2>4. Written(d, n) = [status |-> row[n].status, attempts |-> copy[d][n].attempts]
    BY <1>5 DEF Written
  <2> QED BY <1>1, <1>3, <2>1, <2>2, <2>3, <2>4 DEF Outcome, Copies
<1> QED BY <1>4, <1>5

\* The task's state is gone, after its commit or with its death.
LEMMA TaskGone ==
  ASSUME IInv, NEW d \in Dispatchers,
         task' = [task EXCEPT ![d] = Idle],
         copy' = [copy EXCEPT ![d] = [n \in Notices |-> NoCopy]],
         row' \in [Notices -> [status : RowStatuses, attempts : Nat]],
         \A n \in Notices : row[n].status # "none" => row'[n].status # "none",
         \A n \in Notices : row'[n].status \in {"none", "PENDING"} => row'[n] = row[n],
         UNCHANGED received
  PROVE  /\ task' \in [Dispatchers -> Tasks] /\ copy' \in [Dispatchers -> [Notices -> Copies]]
         /\ Untried' /\ Held'
<1>0. /\ Untried /\ Held /\ received \in [Notices -> Nat]
      /\ task \in [Dispatchers -> Tasks] /\ copy \in [Dispatchers -> [Notices -> Copies]]
  BY DEF IInv, OutcomeEarned, TypeOK, Held, RowStatuses, Tasks, Copies
<1>1. task' \in [Dispatchers -> Tasks] /\ copy' \in [Dispatchers -> [Notices -> Copies]]
  BY <1>0 DEF Tasks, Idle, Copies, NoCopy, RowStatuses
<1>2. /\ task'[d] = Idle /\ \A n \in Notices : copy'[d][n] = NoCopy
      /\ \A e \in Dispatchers : e # d => task'[e] = task[e] /\ copy'[e] = copy[e]
  BY <1>0
<1>3. Untried'
  <2> SUFFICES ASSUME NEW n \in Notices, row'[n].status \in {"none", "PENDING"},
                      NEW e \in Dispatchers
               PROVE  row'[n].attempts = 0 /\ copy'[e][n].loaded # "FAILED"
    BY DEF Untried
  <2>1. row'[n].attempts = 0 /\ copy[e][n].loaded # "FAILED"
    BY <1>0 DEF Untried
  <2> QED BY <1>2, <2>1 DEF NoCopy
<1>4. Held'
  <2> SUFFICES ASSUME NEW e \in Dispatchers
               PROVE  HeldBy(task'[e], copy'[e], row', received)
    BY DEF Held
  <2>1. CASE e = d
    BY <1>2, <2>1 DEF HeldBy, Idle, Distinct, ToSet
  <2>2. CASE e # d
    <3>1. HeldBy(task[e], copy[e], row, received) /\ task[e] \in Tasks
      BY <1>0 DEF Held
    <3>2. \A n \in Notices : received[n] <= received[n]
      BY <1>0
    <3>3. HeldBy(task[e], copy[e], row', received)
      BY <1>0, <3>1, <3>2, HeldMonotone
    <3> QED BY <1>2, <2>2, <3>3
  <2> QED BY <2>1, <2>2
<1> QED BY <1>1, <1>3, <1>4

\* The commit of the whole batch.
LEMMA CommitInv ==
  ASSUME IInv, NEW d \in Dispatchers, Commit(d)
  PROVE  IInv'
<1> DEFINE B == task[d].batch
<1>0. /\ TypeOK /\ due \in Seq(Notices) /\ Distinct(due) /\ DueUnsettled
      /\ AttemptsBounded /\ SentWasDelivered
      /\ row \in [Notices -> [status : RowStatuses, attempts : Nat]]
  BY DEF IInv, OutcomeEarned, TypeOK, DueUnsettled, RowStatuses
<1>1. /\ row' = [n \in Notices |-> IF n \in B THEN Written(d, n) ELSE row[n]]
      /\ due' = Without(due, B) /\ UNCHANGED <<sends, received, crashes>>
      /\ task[d].left = <<>>
  BY DEF Commit
<1>2. \A n \in B : /\ n \in Notices /\ Written(d, n) \in [status : RowStatuses, attempts : Nat]
                   /\ Written(d, n).status \in {"SENT", "DEAD_LETTER", "FAILED"}
                   /\ Outcome(Written(d, n), received[n])
  BY <1>1, WrittenEarned
<1> HIDE DEF B
<1>3. /\ row' \in [Notices -> [status : RowStatuses, attempts : Nat]]
      /\ \A n \in B : row'[n] = Written(d, n)
      /\ \A n \in Notices : n \notin B => row'[n] = row[n]
  BY <1>0, <1>1, <1>2
<1>4. /\ task' \in [Dispatchers -> Tasks] /\ copy' \in [Dispatchers -> [Notices -> Copies]]
      /\ Untried' /\ Held'
  <2>1. \A n \in Notices : row[n].status # "none" => row'[n].status # "none"
    BY <1>2, <1>3
  <2>2. \A n \in Notices : row'[n].status \in {"none", "PENDING"} => row'[n] = row[n]
    BY <1>2, <1>3
  <2> QED BY <1>1, <1>3, <2>1, <2>2, TaskGone DEF Commit
<1>5. due' \in Seq(Notices) /\ Distinct(due') /\ ToSet(due') \subseteq ToSet(due) \ B
  BY <1>0, <1>1, WithoutKeeps
<1>6. TypeOK'
  BY <1>0, <1>1, <1>3, <1>4, <1>5 DEF TypeOK, Tasks, Copies, RowStatuses
<1>7. AttemptsBounded' /\ SentWasDelivered'
  BY <1>0, <1>1, <1>2, <1>3 DEF AttemptsBounded, SentWasDelivered, Outcome
<1>8. DueUnsettled'
  <2>1. ToSet(due) \subseteq Notices
    BY <1>0 DEF ToSet
  <2> QED BY <1>0, <1>3, <1>5, <2>1 DEF DueUnsettled
<1> QED BY <1>4, <1>6, <1>7, <1>8 DEF IInv, OutcomeEarned

\* A task that dies leaves the rows as they are.
LEMMA CrashInv ==
  ASSUME IInv, NEW d \in Dispatchers, Crash(d)
  PROVE  IInv'
<1>0. /\ TypeOK /\ DueUnsettled /\ AttemptsBounded /\ SentWasDelivered
      /\ row \in [Notices -> [status : RowStatuses, attempts : Nat]]
  BY DEF IInv, OutcomeEarned, TypeOK, RowStatuses
<1>1. UNCHANGED <<row, due, sends, received>> /\ crashes' \in 0..MaxCrashes
  BY <1>0, DispatchAssumption DEF Crash, TypeOK
<1>2. /\ task' \in [Dispatchers -> Tasks] /\ copy' \in [Dispatchers -> [Notices -> Copies]]
      /\ Untried' /\ Held'
  BY <1>0, <1>1, TaskGone DEF Crash
<1>3. TypeOK'
  BY <1>0, <1>1, <1>2 DEF TypeOK, Tasks, Copies, RowStatuses
<1>4. AttemptsBounded' /\ SentWasDelivered' /\ DueUnsettled'
  BY <1>0, <1>1 DEF AttemptsBounded, SentWasDelivered, DueUnsettled
<1> QED BY <1>2, <1>3, <1>4 DEF IInv, OutcomeEarned

LEMMA NextInv == IInv /\ [Next]_vars => IInv'
<1> SUFFICES ASSUME IInv, [Next]_vars PROVE IInv'
  OBVIOUS
<1>1. CASE UNCHANGED vars
  BY <1>1 DEF vars, IInv, OutcomeEarned, TypeOK, AttemptsBounded, SentWasDelivered,
       DueUnsettled, Untried, Held
<1>2. CASE Next
  BY <1>2, DueInv, SelectInv, AttemptInv, CommitInv, CrashInv DEF Next
<1> QED BY <1>1, <1>2

LEMMA Invariance == Spec => []IInv
<1> QED BY InitInv, NextInv, PTL DEF Spec

\* A row's count of attempts stays within its retries, a FAILED row has one
\* left, and a SENT row was delivered, whatever number of dispatch_due calls
\* hold the same rows, in whatever order they commit and whichever die.
THEOREM OutcomeEarnedHolds == Spec => []OutcomeEarned
<1>1. IInv => OutcomeEarned
  BY DEF IInv
<1> QED BY <1>1, Invariance, PTL

-----------------------------------------------------------------------------
(* How often a row is sent.                                                *)

\* The sends that a row with x attempts is good for, when two tasks are through with it.
Runs(x) == ((MaxAttempts - x) * (MaxAttempts - x + 1)) \div 2 + 1

Least(a, b) == IF a <= b THEN a ELSE b

\* What is owed to a row with a attempts that is not settled, when the copies of the two
\* tasks were loaded with b and c attempts, before what they have sent; b = MaxAttempts
\* says that a task does not hold it.
Owed(a, b, c) ==
  LET low == Least(a, Least(b, c))
  IN  MaxAttempts - a + Runs(low + 1) + (IF low = 0 THEN 1 ELSE 0)

\* The same of a row that is settled: a copy that was loaded PENDING may revive it.
Late(b) ==
  IF b = MaxAttempts THEN 0 ELSE IF b = 0 THEN 1 + Runs(1) ELSE 1

MostSends == 2 + (MaxAttempts * (MaxAttempts + 1)) \div 2

\* Whether the task d has tried the row n that it holds, as a number, and the attempts
\* with which it loaded the row.
Spent(d, n) == IF n \in task[d].batch /\ n \notin ToSet(task[d].left) THEN 1 ELSE 0

Base(d, n) ==
  IF n \in task[d].batch THEN copy[d][n].attempts - Spent(d, n) ELSE MaxAttempts

\* A row and a copy are new exactly when they have no attempts.
Bases ==
  \A n \in Notices :
    /\ row[n].status = "FAILED" => row[n].attempts > 0
    /\ \A d \in Dispatchers :
         /\ ~task[d].running => task[d].batch = {}
         /\ n \in task[d].batch =>
              /\ Base(d, n) \in 0..(MaxAttempts - 1)
              /\ copy[d][n].loaded = "PENDING" <=> Base(d, n) = 0

\* The sends that the bound leaves to n, with those of the copies that d and e hold.
Left(n, d, e) == crashes + MostSends + Spent(d, n) + Spent(e, n) - sends[n]

\* Two tasks: one of two that hold a row has loaded it as it is, and what is owed to the
\* row is left.
Pair(n, d, e) ==
  /\ Base(d, n) < MaxAttempts /\ Base(e, n) < MaxAttempts =>
       row[n].status \in Unsettled /\ row[n].attempts \in {Base(d, n), Base(e, n)}
  /\ row[n].status \notin Settled =>
       Owed(row[n].attempts, Base(d, n), Base(e, n)) <= Left(n, d, e)
  /\ row[n].status \in Settled => Late(Base(d, n)) + Late(Base(e, n)) <= Left(n, d, e)

\* A row with x attempts, or a copy that was loaded with x, leads to this many sends.
Weight(x) == Chain[MaxAttempts - x]

\* What one task may still do to a row of status s and a attempts, of which its copy was
\* loaded with b attempts and was tried t times.
Claim(s, a, b, t) == Weight(IF s \in Settled THEN b ELSE Least(a, b)) - t

\* A product, kept closed so that the provers see no arithmetic in it.
Times(a, b) == a * b

\* The tasks in some order.
Tally == Cardinality(Dispatchers)

Enumerates(h) ==
  /\ h \in [1..Tally -> Dispatchers]
  /\ \A d \in Dispatchers : \E i \in 1..Tally : h[i] = d
  /\ \A i, j \in 1..Tally : h[i] = h[j] => i = j

Order == CHOOSE h : Enumerates(h)

\* S[i] is set aside for the first i tasks: every claim is covered, and all of it is what
\* the bound leaves to n.
Budget(n, S) ==
  /\ S \in [0..Tally -> Int] /\ S[0] = 0
  /\ \A i \in 1..Tally :
       Claim(row[n].status, row[n].attempts, Base(Order[i], n), Spent(Order[i], n))
         <= S[i] - S[i - 1]
  /\ sends[n] + S[Tally] <= crashes + Times(Tally, Weight(0))

SendsInv ==
  /\ Bases
  /\ \A n \in Notices : \E S : Budget(n, S)
  /\ \A n \in Notices, d, e \in Dispatchers :
       d # e /\ Dispatchers = {d, e} => Pair(n, d, e)

LEMMA HalfPlus ==
  ASSUME NEW z \in Nat, NEW k \in Nat
  PROVE  (z + 2 * k) \div 2 = z \div 2 + k /\ z \div 2 \in Nat
OBVIOUS

LEMMA RunsTyped ==
  ASSUME NEW x \in 0..MaxAttempts
  PROVE  Runs(x) \in Nat /\ Runs(x) >= 1
<1> DEFINE z == (MaxAttempts - x) * (MaxAttempts - x + 1)
<1>1. MaxAttempts - x \in Nat /\ MaxAttempts - x + 1 \in Nat
  BY DispatchAssumption
<1>2. z \in Nat
  BY <1>1
<1> HIDE DEF z
<1>3. z \div 2 \in Nat
  BY <1>2
<1> QED BY <1>3 DEF Runs, z

LEMMA RunsStep ==
  ASSUME NEW x \in 0..(MaxAttempts - 1)
  PROVE  Runs(x) = MaxAttempts - x + Runs(x + 1)
<1> DEFINE k == MaxAttempts - x
           z == (k - 1) * k
<1>1. MaxAttempts \in Nat /\ k \in Nat /\ k - 1 \in Nat
  BY DispatchAssumption
<1>2. z \in Nat /\ k * (k + 1) = z + 2 * k
  <2> HIDE DEF k
  <2> QED BY <1>1
<1>3. MaxAttempts - (x + 1) = k - 1 /\ k - 1 + 1 = k
  BY <1>1
<1>4. Runs(x) = (z + 2 * k) \div 2 + 1 /\ Runs(x + 1) = z \div 2 + 1
  BY <1>2, <1>3 DEF Runs
<1> HIDE DEF z, k
<1>5. (z + 2 * k) \div 2 = z \div 2 + k /\ z \div 2 \in Nat
  BY <1>1, <1>2, HalfPlus
<1> QED BY <1>1, <1>4, <1>5 DEF k

LEMMA RunsDown ==
  ASSUME NEW x \in 0..MaxAttempts, NEW y \in x..MaxAttempts
  PROVE  Runs(y) <= Runs(x)
<1> DEFINE k == MaxAttempts - y
           l == MaxAttempts - x
           w == k * (k + 1)
           z == l * (l + 1)
<1>1. k \in Nat /\ l \in Nat /\ k <= l
  BY DispatchAssumption
<1> HIDE DEF k, l
<1>2. w \in Nat /\ z \in Nat /\ w <= z
  <2>1. (l - k) * (l + k + 1) \in Nat
    BY <1>1
  <2>2. z - w = (l - k) * (l + k + 1)
    BY <1>1
  <2>3. w \in Nat /\ z \in Nat
    BY <1>1
  <2> HIDE DEF z, w
  <2> QED BY <2>1, <2>2, <2>3
<1> HIDE DEF z, w
<1>3. w \div 2 <= z \div 2 /\ w \div 2 \in Nat /\ z \div 2 \in Nat
  BY <1>2
<1> QED BY <1>3 DEF Runs, k, l, w, z

LEMMA OwedSame ==
  ASSUME NEW a \in Nat, NEW b \in Nat, NEW c \in Nat
  PROVE  Owed(a, b, c) = Owed(a, c, b)
<1>1. Least(a, Least(b, c)) = Least(a, Least(c, b))
  BY DEF Least
<1> QED BY <1>1 DEF Owed

\* A task that lets go of the row owes it no more than before.
LEMMA OwedDown ==
  ASSUME NEW a \in 0..(MaxAttempts - 1), NEW b \in 0..MaxAttempts, NEW c \in 0..MaxAttempts
  PROVE  /\ Owed(a, MaxAttempts, c) <= Owed(a, b, c)
         /\ Owed(a, a, c) = Owed(a, MaxAttempts, c)
         /\ Owed(a, b, c) \in Nat /\ Owed(a, b, c) >= 2
<1> DEFINE l == Least(a, Least(b, c))
           h == Least(a, Least(MaxAttempts, c))
<1>0. MaxAttempts \in Nat
  BY DispatchAssumption
<1>1. l \in 0..(MaxAttempts - 1) /\ h \in l..(MaxAttempts - 1) /\ h \in 0..(MaxAttempts - 1)
  BY <1>0 DEF Least
<1>2. Least(a, Least(a, c)) = h
  BY <1>0 DEF Least
<1> HIDE DEF l, h
<1>3. l + 1 \in 0..MaxAttempts /\ h + 1 \in 0..MaxAttempts /\ h + 1 \in (l + 1)..MaxAttempts
  BY <1>0, <1>1
<1> DEFINE L == Runs(l + 1)
           H == Runs(h + 1)
<1>4. L \in Nat /\ L >= 1 /\ H \in Nat /\ H <= L
  <2> DEFINE x == l + 1
             y == h + 1
  <2>1. x \in 0..MaxAttempts /\ y \in 0..MaxAttempts /\ y \in x..MaxAttempts
    BY <1>3
  <2> HIDE DEF x, y
  <2>2. Runs(x) \in Nat /\ Runs(x) >= 1 /\ Runs(y) \in Nat /\ Runs(y) <= Runs(x)
    BY <2>1, RunsTyped, RunsDown
  <2> QED BY <2>2 DEF x, y
<1> HIDE DEF L, H
<1>5. Owed(a, b, c) = MaxAttempts - a + L + (IF l = 0 THEN 1 ELSE 0)
  BY DEF Owed, L, l
<1>6. /\ Owed(a, MaxAttempts, c) = MaxAttempts - a + H + (IF h = 0 THEN 1 ELSE 0)
      /\ Owed(a, a, c) = MaxAttempts - a + H + (IF h = 0 THEN 1 ELSE 0)
  BY <1>2 DEF Owed, H, h
<1>7. h = 0 => l = 0
  BY <1>1
<1> QED BY <1>0, <1>1, <1>4, <1>5, <1>6, <1>7

\* A commit that leaves the row unsettled.
LEMMA OwedCommit ==
  ASSUME NEW a \in 0..(MaxAttempts - 1), NEW b \in 0..(MaxAttempts - 2),
         NEW c \in 0..MaxAttempts,
         c = MaxAttempts \/ b = a \/ c = a
  PROVE  Owed(b + 1, MaxAttempts, c) + 1 <= Owed(a, b, c)
<1>0. MaxAttempts \in Nat /\ MaxAttempts >= 2
  BY DispatchAssumption
<1>1. CASE b < c
  <2> DEFINE l == Least(a, Least(b, c))
             x == l + 1
             y == b + 1
  <2>1. l \in 0..b /\ x \in 0..MaxAttempts /\ y \in x..MaxAttempts /\ y \in 0..(MaxAttempts - 1)
    BY <1>0, <1>1 DEF Least
  <2>2. Least(b + 1, Least(MaxAttempts, c)) = b + 1
    BY <1>0, <1>1 DEF Least
  <2>3. Owed(b + 1, MaxAttempts, c) = MaxAttempts - y + Runs(y + 1)
    <3>1. y + 1 \in 0..MaxAttempts /\ y # 0
      BY <1>0, <2>1
    <3>2. Owed(b + 1, MaxAttempts, c) = MaxAttempts - y + Runs(y + 1) + 0
      BY <2>2, <3>1 DEF Owed
    <3> DEFINE z == y + 1
    <3>3. z \in 0..MaxAttempts
      BY <3>1
    <3> HIDE DEF z
    <3>4. Runs(z) \in Nat
      BY <3>3, RunsTyped
    <3> QED BY <1>0, <2>1, <3>2, <3>4 DEF z
  <2>4. Owed(a, b, c) = MaxAttempts - a + Runs(x) + (IF l = 0 THEN 1 ELSE 0)
    BY DEF Owed
  <2> HIDE DEF l, x, y
  <2>5. Runs(y) = MaxAttempts - y + Runs(y + 1) /\ Runs(y) <= Runs(x)
    BY <2>1, RunsStep, RunsDown
  <2>6. Runs(x) \in Nat /\ Runs(y) \in Nat
    BY <1>0, <2>1, RunsTyped
  <2> QED BY <1>0, <2>3, <2>4, <2>5, <2>6
<1>2. CASE c <= b
  <2>1. /\ Least(b + 1, Least(MaxAttempts, c)) = c /\ Least(a, Least(b, c)) = c
        /\ a <= b
    BY <1>0, <1>2 DEF Least
  <2>2. c + 1 \in 0..MaxAttempts
    BY <1>0, <1>2
  <2>3. Runs(c + 1) \in Nat
    <3> DEFINE x == c + 1
    <3>1. x \in 0..MaxAttempts
      BY <2>2
    <3> HIDE DEF x
    <3>2. Runs(x) \in Nat
      BY <3>1, RunsTyped
    <3> QED BY <3>2 DEF x
  <2> DEFINE S == Runs(c + 1)
  <2>4. /\ Owed(b + 1, MaxAttempts, c) = MaxAttempts - (b + 1) + S + (IF c = 0 THEN 1 ELSE 0)
        /\ Owed(a, b, c) = MaxAttempts - a + S + (IF c = 0 THEN 1 ELSE 0)
    BY <2>1 DEF Owed
  <2>5. S \in Nat
    BY <2>3
  <2> HIDE DEF S
  <2> QED BY <1>0, <2>1, <2>4, <2>5
<1> QED BY <1>1, <1>2

\* A commit that settles the row.
LEMMA OwedSettles ==
  ASSUME NEW a \in 0..(MaxAttempts - 1), NEW b \in 0..(MaxAttempts - 1),
         NEW c \in 0..MaxAttempts
  PROVE  Late(c) + 1 <= Owed(a, b, c)
<1>0. MaxAttempts \in Nat \ {0}
  BY DispatchAssumption
<1>1. CASE c = 0
  <2>1. Least(a, Least(b, c)) = 0
    BY <1>1 DEF Least
  <2>2. 1 \in 0..MaxAttempts
    BY <1>0
  <2>3. Runs(1) \in Nat
    BY <2>2, RunsTyped
  <2>4. Owed(a, b, c) = MaxAttempts - a + Runs(1) + 1 /\ Late(c) = 1 + Runs(1)
    BY <1>0, <1>1, <2>1 DEF Owed, Late
  <2> QED BY <1>0, <2>3, <2>4
<1>2. CASE c # 0
  <2>1. b \in 0..MaxAttempts
    BY <1>0
  <2>2. Owed(a, b, c) \in Nat /\ Owed(a, b, c) >= 2
    BY <2>1, OwedDown
  <2>3. Late(c) \in {0, 1}
    BY <1>2 DEF Late
  <2> QED BY <2>2, <2>3
<1> QED BY <1>1, <1>2

\* A commit of a copy that was loaded PENDING revives the row with one attempt.
LEMMA OwedRevives ==
  ASSUME MaxAttempts > 1
  PROVE  Owed(1, MaxAttempts, MaxAttempts) + 1 <= Late(0)
<1>0. MaxAttempts \in Nat /\ MaxAttempts >= 2
  BY DispatchAssumption
<1>1. 1 \in 0..(MaxAttempts - 1) /\ 1 \in 0..MaxAttempts
  BY <1>0
<1>2. Runs(1) = MaxAttempts - 1 + Runs(1 + 1) /\ Runs(1) \in Nat
  BY <1>1, RunsStep, RunsTyped
<1>3. Least(1, Least(MaxAttempts, MaxAttempts)) = 1
  BY <1>0 DEF Least
<1>4. Owed(1, MaxAttempts, MaxAttempts) = MaxAttempts - 1 + Runs(1 + 1)
  <2>1. Owed(1, MaxAttempts, MaxAttempts) = MaxAttempts - 1 + Runs(1 + 1) + 0
    BY <1>3 DEF Owed
  <2>2. MaxAttempts - 1 + Runs(1 + 1) \in Nat
    BY <1>2
  <2> QED BY <2>1, <2>2
<1>5. Late(0) = 1 + Runs(1)
  BY <1>0 DEF Late
<1> QED BY <1>2, <1>4, <1>5

LEMMA LateTyped ==
  ASSUME NEW b \in 0..MaxAttempts
  PROVE  Late(b) \in Nat /\ (b = MaxAttempts <=> Late(b) = 0)
<1>1. 1 \in 0..MaxAttempts /\ MaxAttempts # 0
  BY DispatchAssumption
<1>2. Runs(1) \in Nat
  BY <1>1, RunsTyped
<1> QED BY <1>1, <1>2 DEF Late

LEMMA Views ==
  ASSUME IInv, Bases, NEW n \in Notices, NEW d \in Dispatchers
  PROVE  /\ Spent(d, n) \in {0, 1} /\ Base(d, n) \in 0..MaxAttempts
         /\ Base(d, n) = MaxAttempts <=> n \notin task[d].batch
         /\ n \notin task[d].batch => Spent(d, n) = 0
         /\ row[n].attempts \in 0..MaxAttempts
         /\ row[n].status \notin Settled => row[n].attempts \in 0..(MaxAttempts - 1)
         /\ sends[n] \in Nat /\ crashes \in Nat /\ MaxAttempts \in Nat \ {0}
<1>1. /\ row \in [Notices -> [status : RowStatuses, attempts : Nat]] /\ sends \in [Notices -> Nat]
      /\ crashes \in Nat /\ MaxAttempts \in Nat \ {0} /\ AttemptsBounded /\ Untried
  BY DispatchAssumption DEF IInv, OutcomeEarned, TypeOK, RowStatuses
<1>2. row[n].status \notin Settled => row[n].attempts < MaxAttempts
  BY <1>1 DEF AttemptsBounded, Untried, RowStatuses, Unsettled
<1>3. /\ n \in task[d].batch => Base(d, n) \in 0..(MaxAttempts - 1)
      /\ n \notin task[d].batch => Base(d, n) = MaxAttempts
  BY DEF Bases, Base
<1>4. Spent(d, n) \in {0, 1} /\ (n \notin task[d].batch => Spent(d, n) = 0)
  BY DEF Spent
<1>5. row[n].attempts \in Nat /\ row[n].attempts <= MaxAttempts
  BY <1>1 DEF AttemptsBounded
<1> QED BY <1>1, <1>2, <1>3, <1>4, <1>5

\* A task that does nothing keeps its view of a row.
LEMMA OtherViews ==
  ASSUME NEW n, NEW e, task'[e] = task[e], copy'[e] = copy[e]
  PROVE  Spent(e, n)' = Spent(e, n) /\ Base(e, n)' = Base(e, n)
BY DEF Spent, Base

LEMMA SelectViews ==
  ASSUME IInv, Bases, NEW d \in Dispatchers, Select(d)
  PROVE  /\ UNCHANGED <<row, sends, crashes>> /\ task'[d].running
         /\ \A e \in Dispatchers : e # d => task'[e] = task[e] /\ copy'[e] = copy[e]
         /\ \A n \in Notices :
              /\ Base(d, n) = MaxAttempts /\ Spent(d, n) = 0 /\ Spent(d, n)' = 0
              /\ n \notin task'[d].batch => Base(d, n)' = MaxAttempts
              /\ n \in task'[d].batch => /\ row[n].status \in Unsettled
                                         /\ Base(d, n)' = row[n].attempts
                                         /\ copy'[d][n].loaded = row[n].status
<1>0. /\ task \in [Dispatchers -> Tasks] /\ copy \in [Dispatchers -> [Notices -> Copies]]
      /\ row \in [Notices -> [status : RowStatuses, attempts : Nat]]
      /\ due \in Seq(Notices) /\ DueUnsettled
  BY DEF IInv, OutcomeEarned, TypeOK, RowStatuses, Tasks, Copies
<1> DEFINE B == ToSet(Batch)
<1>1. B \subseteq ToSet(due) /\ B \subseteq Notices
  <2>1. ToSet(due) \subseteq Notices
    BY <1>0 DEF ToSet
  <2> QED BY <1>0, <2>1, BatchDistinct DEF DueUnsettled
<1>2. /\ task' = [task EXCEPT ![d] = [running |-> TRUE, left |-> Batch, batch |-> B]]
      /\ copy' = [copy EXCEPT ![d] =
           [n \in Notices |-> IF n \in B
                              THEN [loaded |-> row[n].status, status |-> row[n].status,
                                    attempts |-> row[n].attempts]
                              ELSE NoCopy]]
      /\ ~task[d].running /\ UNCHANGED <<row, sends, crashes>>
  BY DEF Select
<1>3. task'[d].running /\ task'[d].batch = B /\ ToSet(task'[d].left) = B
  BY <1>0, <1>2
<1> HIDE DEF B
<1>4. /\ \A e \in Dispatchers : e # d => task'[e] = task[e] /\ copy'[e] = copy[e]
      /\ \A n \in B : copy'[d][n].loaded = row[n].status /\ copy'[d][n].attempts = row[n].attempts
  BY <1>0, <1>1, <1>2
<1>5. ASSUME NEW n \in Notices
      PROVE  /\ Base(d, n) = MaxAttempts /\ Spent(d, n) = 0 /\ Spent(d, n)' = 0
             /\ n \notin B => Base(d, n)' = MaxAttempts
             /\ n \in B => row[n].status \in Unsettled /\ Base(d, n)' = row[n].attempts
  <2>1. task[d].batch = {}
    BY <1>2 DEF Bases
  <2>2. Base(d, n) = MaxAttempts /\ Spent(d, n) = 0
    BY <2>1 DEF Base, Spent
  <2>3. Spent(d, n)' = 0
    BY <1>3 DEF Spent
  <2>4. n \notin B => Base(d, n)' = MaxAttempts
    BY <1>3 DEF Base
  <2>5. ASSUME n \in B PROVE row[n].status \in Unsettled /\ Base(d, n)' = row[n].attempts
    <3>1. Base(d, n)' = row[n].attempts - 0
      BY <1>3, <1>4, <2>3, <2>5 DEF Base
    <3> QED BY <1>0, <1>1, <2>5, <3>1 DEF DueUnsettled
  <2> QED BY <2>2, <2>3, <2>4, <2>5
<1> QED BY <1>2, <1>3, <1>4, <1>5

LEMMA AttemptViews ==
  ASSUME IInv, Bases, NEW d \in Dispatchers, Attempt(d)
  PROVE  /\ UNCHANGED <<row, crashes>> /\ task'[d].running = task[d].running
         /\ task'[d].batch = task[d].batch
         /\ \A e \in Dispatchers : e # d => task'[e] = task[e] /\ copy'[e] = copy[e]
         /\ \A n \in Notices :
              /\ Base(d, n)' = Base(d, n) /\ copy'[d][n].loaded = copy[d][n].loaded
              /\ sends'[n] + Spent(d, n) <= sends[n] + Spent(d, n)'
<1> DEFINE h == Head(task[d].left)
           k == copy[d][h].attempts + 1
<1>0. /\ task \in [Dispatchers -> Tasks] /\ copy \in [Dispatchers -> [Notices -> Copies]]
      /\ sends \in [Notices -> Nat] /\ HeldBy(task[d], copy[d], row, received)
  BY DEF IInv, OutcomeEarned, TypeOK, Held, RowStatuses, Tasks, Copies
<1>1. /\ task[d].left \in Seq(Notices) /\ task[d].left # <<>> /\ task[d].batch \subseteq Notices
  BY <1>0 DEF Attempt, Tasks
<1>2. /\ h \in ToSet(task[d].left) /\ h \in task[d].batch /\ h \in Notices
      /\ ToSet(Tail(task[d].left)) = ToSet(task[d].left) \ {h}
  BY <1>0, <1>1, TailDistinct DEF HeldBy
<1>3. /\ task' = [task EXCEPT ![d].left = Tail(@)]
      /\ \E s : copy' = [copy EXCEPT ![d][h].attempts = k, ![d][h].status = s]
      /\ sends' = sends \/ sends' = [sends EXCEPT ![h] = @ + 1]
      /\ UNCHANGED <<row, crashes>>
  BY Zenon DEF Attempt
<1>4. PICK s : copy' = [copy EXCEPT ![d][h].attempts = k, ![d][h].status = s]
  BY <1>3
<1> HIDE DEF h
<1>5. copy[d][h] \in Copies /\ copy[d][h].attempts \in Nat /\ k \in Nat
  BY <1>0, <1>2 DEF Copies
<1>6. /\ copy'[d][h].attempts = copy[d][h].attempts + 1 /\ copy'[d][h].loaded = copy[d][h].loaded
      /\ \A m \in Notices : m # h => copy'[d][m] = copy[d][m]
      /\ \A e \in Dispatchers : e # d => copy'[e] = copy[e]
  <2> HIDE DEF k
  <2>1. /\ copy'[d][h].attempts = k /\ copy'[d][h].loaded = copy[d][h].loaded
        /\ \A m \in Notices : m # h => copy'[d][m] = copy[d][m]
        /\ \A e \in Dispatchers : e # d => copy'[e] = copy[e]
    BY <1>0, <1>2, <1>4, <1>5 DEF Copies
  <2> QED BY <2>1 DEF k
<1>7. /\ task'[d].batch = task[d].batch /\ task'[d].running = task[d].running
      /\ ToSet(task'[d].left) = ToSet(task[d].left) \ {h}
      /\ \A e \in Dispatchers : e # d => task'[e] = task[e]
  <2>1. task[d] \in Tasks /\ task'[d] = [task[d] EXCEPT !.left = Tail(task[d].left)]
    BY <1>0, <1>3
  <2>2. /\ task'[d].batch = task[d].batch /\ task'[d].running = task[d].running
        /\ task'[d].left = Tail(task[d].left)
    BY <2>1 DEF Tasks
  <2> QED BY <1>0, <1>2, <1>3, <2>2
<1>8. ASSUME NEW n \in Notices
      PROVE  /\ Base(d, n)' = Base(d, n) /\ copy'[d][n].loaded = copy[d][n].loaded
             /\ sends'[n] + Spent(d, n) <= sends[n] + Spent(d, n)'
  <2>1. CASE n = h
    <3>1. Spent(d, n) = 0 /\ Spent(d, n)' = 1
      BY <1>2, <1>7, <2>1 DEF Spent
    <3>2. Base(d, n) = copy[d][h].attempts - 0 /\ Base(d, n)' = copy[d][h].attempts + 1 - 1
      <4>1. Base(d, n) = copy[d][n].attempts - Spent(d, n)
        BY <1>2, <2>1 DEF Base
      <4>2. Base(d, n)' = copy'[d][n].attempts - Spent(d, n)'
        BY <1>2, <1>7, <2>1 DEF Base
      <4>3. Base(d, n) = copy[d][h].attempts - 0
        BY <2>1, <3>1, <4>1
      <4>4. copy'[d][n].attempts = copy[d][h].attempts + 1
        BY <1>6, <2>1
      <4>5. Base(d, n)' = copy[d][h].attempts + 1 - 1
        <5> DEFINE z == copy'[d][n].attempts
                   w == Spent(d, n)'
        <5>1. Base(d, n)' = z - w /\ w = 1 /\ z = copy[d][h].attempts + 1
          BY <3>1, <4>2, <4>4
        <5> HIDE DEF z, w
        <5> QED BY <1>5, <5>1
      <4> QED BY <4>3, <4>5
    <3>3. sends'[n] <= sends[n] + 1 /\ sends[n] \in Nat /\ sends'[n] \in Nat
      BY <1>0, <1>2, <1>3, <2>1
    <3> QED BY <1>5, <1>6, <2>1, <3>1, <3>2, <3>3
  <2>2. CASE n # h
    <3>1. Spent(d, n)' = Spent(d, n)
      BY <1>7, <2>2 DEF Spent
    <3>2. Base(d, n)' = Base(d, n)
      BY <1>6, <1>7, <2>2, <3>1 DEF Base
    <3>3. sends'[n] = sends[n] /\ sends[n] \in Nat
      BY <1>0, <1>3, <2>2
    <3>4. Spent(d, n) \in {0, 1}
      BY DEF Spent
    <3> QED BY <1>6, <2>2, <3>1, <3>2, <3>3, <3>4
  <2> QED BY <2>1, <2>2
<1> QED BY <1>3, <1>6, <1>7, <1>8

LEMMA GoneViews ==
  ASSUME IInv, NEW d \in Dispatchers, task' = [task EXCEPT ![d] = Idle],
         copy' = [copy EXCEPT ![d] = [n \in Notices |-> NoCopy]]
  PROVE  /\ task'[d].batch = {}
         /\ \A e \in Dispatchers : e # d => task'[e] = task[e] /\ copy'[e] = copy[e]
         /\ \A n \in Notices : Base(d, n)' = MaxAttempts /\ Spent(d, n)' = 0
<1>0. /\ task \in [Dispatchers -> Tasks] /\ copy \in [Dispatchers -> [Notices -> Copies]]
  BY DEF IInv, OutcomeEarned, TypeOK, RowStatuses, Tasks, Copies
<1>1. task'[d].batch = {}
  BY <1>0 DEF Idle
<1>2. \A n \in Notices : Base(d, n)' = MaxAttempts /\ Spent(d, n)' = 0
  BY <1>1 DEF Base, Spent
<1> QED BY <1>0, <1>1, <1>2

LEMMA CommitViews ==
  ASSUME IInv, Bases, NEW d \in Dispatchers, Commit(d)
  PROVE  /\ UNCHANGED <<sends, crashes>>
         /\ \A n \in Notices : n \notin task[d].batch => row'[n] = row[n]
         /\ \A n \in task[d].batch :
              /\ Spent(d, n) = 1 /\ row'[n].attempts = Base(d, n) + 1
              /\ row'[n].status \in {"SENT", "DEAD_LETTER", "FAILED"}
              /\ row'[n].status = "FAILED" =>
                   /\ Base(d, n) + 1 < MaxAttempts
                   /\ row[n].status \in Settled => Base(d, n) = 0
<1>1. /\ UNCHANGED <<sends, crashes>> /\ task[d].left = <<>>
      /\ row' = [n \in Notices |-> IF n \in task[d].batch THEN Written(d, n) ELSE row[n]]
  BY DEF Commit
<1>2. \A n \in Notices : n \notin task[d].batch => row'[n] = row[n]
  BY <1>1
<1>3. ASSUME NEW n \in task[d].batch
      PROVE  /\ Spent(d, n) = 1 /\ row'[n].attempts = Base(d, n) + 1
             /\ row'[n].status \in {"SENT", "DEAD_LETTER", "FAILED"}
             /\ row'[n].status = "FAILED" =>
                  /\ Base(d, n) + 1 < MaxAttempts
                  /\ row[n].status \in Settled => Base(d, n) = 0
  <2>1. /\ n \in Notices /\ Written(d, n).status \in {"SENT", "DEAD_LETTER", "FAILED"}
        /\ Outcome(Written(d, n), received[n])
    BY <1>1, WrittenEarned
  <2>2. row'[n] = Written(d, n)
    BY <1>1, <2>1
  <2>3. Spent(d, n) = 1
    BY <1>1 DEF Spent, ToSet
  <2>4. copy[d][n].attempts \in Nat /\ copy[d][n].loaded \in {"none"} \cup Unsettled
    BY <2>1 DEF IInv, OutcomeEarned, TypeOK
  <2>5. row'[n].attempts = Base(d, n) + 1
    <3>1. Base(d, n) = copy[d][n].attempts - 1
      BY <2>3 DEF Base
    <3> QED BY <2>2, <2>4, <3>1 DEF Written
  <2>6. row'[n].status = "FAILED" => Base(d, n) + 1 < MaxAttempts
    BY <2>1, <2>2, <2>5 DEF Outcome
  <2>7. ASSUME row'[n].status = "FAILED", row[n].status \in Settled PROVE Base(d, n) = 0
    <3>1. copy[d][n].status = "FAILED" /\ copy[d][n].loaded # "FAILED"
      BY <2>2, <2>7 DEF Written, Settled
    <3>2. copy[d][n].loaded \in Unsettled
      BY DEF IInv, Held, HeldBy
    <3> QED BY <2>1, <3>1, <3>2 DEF Bases, Unsettled
  <2> QED BY <2>1, <2>2, <2>3, <2>5, <2>6, <2>7
<1> QED BY <1>1, <1>2, <1>3

LEMMA PairSame ==
  ASSUME IInv, Bases, NEW n \in Notices, NEW d \in Dispatchers, NEW e \in Dispatchers,
         Pair(n, d, e)
  PROVE  Pair(n, e, d)
<1>1. /\ Base(d, n) \in 0..MaxAttempts /\ Base(e, n) \in 0..MaxAttempts
      /\ row[n].attempts \in 0..MaxAttempts /\ MaxAttempts \in Nat
      /\ Spent(d, n) \in {0, 1} /\ Spent(e, n) \in {0, 1} /\ crashes \in Nat /\ sends[n] \in Nat
  BY Views
<1>2. Owed(row[n].attempts, Base(d, n), Base(e, n)) = Owed(row[n].attempts, Base(e, n),
    Base(d, n))
  <2> DEFINE a == row[n].attempts
             b == Base(d, n)
             c == Base(e, n)
  <2>1. a \in Nat /\ b \in Nat /\ c \in Nat
    BY <1>1
  <2> HIDE DEF a, b, c
  <2>2. Owed(a, b, c) = Owed(a, c, b)
    BY <2>1, OwedSame
  <2> QED BY <2>2 DEF a, b, c
<1>3. Left(n, d, e) = Left(n, e, d)
  <2>1. MostSends \in Int
    BY <1>1 DEF MostSends
  <2> QED BY <1>1, <2>1 DEF Left
<1>4. Late(Base(d, n)) \in Nat /\ Late(Base(e, n)) \in Nat
  BY <1>1, LateTyped
<1> QED BY <1>2, <1>3, <1>4 DEF Pair

LEMMA PairSameNext ==
  ASSUME NEW n \in Notices, NEW d \in Dispatchers, NEW e \in Dispatchers
  PROVE  (IInv /\ Bases /\ Pair(n, d, e) => Pair(n, e, d))'
<1>1. IInv /\ Bases /\ Pair(n, d, e) => Pair(n, e, d)
  BY PairSame
<1> QED BY <1>1, PTL

LEMMA BasesStep ==
  ASSUME IInv, Bases, NEW d \in Dispatchers, Select(d) \/ Attempt(d) \/ Commit(d) \/ Crash(d)
  PROVE  Bases'
<1> SUFFICES ASSUME NEW n \in Notices
             PROVE  /\ row'[n].status = "FAILED" => row'[n].attempts > 0
                    /\ \A e \in Dispatchers :
                         /\ ~task'[e].running => task'[e].batch = {}
                         /\ n \in task'[e].batch =>
                              /\ Base(e, n)' \in 0..(MaxAttempts - 1)
                              /\ copy'[e][n].loaded = "PENDING" <=> Base(e, n)' = 0
  BY DEF Bases
<1>0. \A e \in Dispatchers :
        /\ ~task[e].running => task[e].batch = {}
        /\ n \in task[e].batch => /\ Base(e, n) \in 0..(MaxAttempts - 1)
                                  /\ copy[e][n].loaded = "PENDING" <=> Base(e, n) = 0
  BY DEF Bases
<1>1. row[n].status = "FAILED" => row[n].attempts > 0
  BY DEF Bases
<1>2. ASSUME NEW e \in Dispatchers, task'[e] = task[e], copy'[e] = copy[e]
      PROVE  /\ ~task'[e].running => task'[e].batch = {}
             /\ n \in task'[e].batch =>
                  /\ Base(e, n)' \in 0..(MaxAttempts - 1)
                  /\ copy'[e][n].loaded = "PENDING" <=> Base(e, n)' = 0
  <2>1. Base(e, n)' = Base(e, n)
    BY <1>2, OtherViews
  <2> QED BY <1>0, <1>2, <2>1
<1>3. CASE Select(d)
  <2>1. /\ row' = row /\ task'[d].running
        /\ \A e \in Dispatchers : e # d => task'[e] = task[e] /\ copy'[e] = copy[e]
        /\ n \in task'[d].batch => /\ row[n].status \in Unsettled
                                   /\ Base(d, n)' = row[n].attempts
                                   /\ copy'[d][n].loaded = row[n].status
    BY <1>3, SelectViews
  <2>2. ASSUME n \in task'[d].batch
        PROVE  /\ Base(d, n)' \in 0..(MaxAttempts - 1)
               /\ copy'[d][n].loaded = "PENDING" <=> Base(d, n)' = 0
    <3>1. row[n].status \notin Settled
      BY <2>1, <2>2 DEF Settled, Unsettled
    <3>2. row[n].attempts \in 0..(MaxAttempts - 1)
      BY <3>1, Views
    <3>3. row[n].status = "PENDING" => row[n].attempts = 0
      BY DEF IInv, Untried
    <3> QED BY <1>1, <2>1, <2>2, <3>2, <3>3 DEF Unsettled
  <2> QED BY <1>1, <1>2, <2>1, <2>2
<1>4. CASE Attempt(d)
  <2>1. /\ row' = row /\ task'[d].running = task[d].running /\ task'[d].batch = task[d].batch
        /\ \A e \in Dispatchers : e # d => task'[e] = task[e] /\ copy'[e] = copy[e]
        /\ Base(d, n)' = Base(d, n) /\ copy'[d][n].loaded = copy[d][n].loaded
    BY <1>4, AttemptViews
  <2> QED BY <1>0, <1>1, <1>2, <2>1
<1>5. CASE Commit(d) \/ Crash(d)
  <2>1. /\ task'[d].batch = {}
        /\ \A e \in Dispatchers : e # d => task'[e] = task[e] /\ copy'[e] = copy[e]
    BY <1>5, GoneViews DEF Commit, Crash
  <2>2. row'[n].status = "FAILED" => row'[n].attempts > 0
    <3>1. CASE row'[n] = row[n]
      BY <1>1, <3>1
    <3>2. CASE Commit(d) /\ n \in task[d].batch
      <4>1. row'[n].attempts = Base(d, n) + 1
        BY <3>2, CommitViews
      <4> QED BY <1>0, <3>2, <4>1
    <3> QED BY <1>5, <3>1, <3>2, CommitViews DEF Crash
  <2> QED BY <1>2, <2>1, <2>2
<1> QED BY <1>3, <1>4, <1>5

\* Chain is what its equation says.
ChainStep(f, k) == IF k = 0 THEN 0 ELSE 1 + Tally * f[k - 1]

LEMMA ChainExists == \E f : f = [k \in 0..MaxAttempts |-> ChainStep(f, k)]
<1> DEFINE Chains(f, m) == f = [k \in 0..m |-> ChainStep(f, k)]
           T == {m \in Nat : m <= MaxAttempts /\ ~\E f : Chains(f, m)}
<1>1. T = {}
  <2> SUFFICES ASSUME T # {} PROVE FALSE
    OBVIOUS
  <2>1. PICK m \in T : \A k \in T : m <= k
    <3>1. T \subseteq Nat
      OBVIOUS
    <3> HIDE DEF T
    <3> QED BY <3>1, LeastElement
  <2>2. m # 0
    <3>1. Chains([k \in 0..0 |-> 0], 0)
      BY DEF ChainStep
    <3> HIDE DEF Chains
    <3> QED BY <2>1, <3>1
  <2>3. PICK f : Chains(f, m - 1)
    <3> HIDE DEF Chains
    <3>1. m - 1 \in Nat /\ m - 1 <= MaxAttempts /\ m - 1 \notin T
      BY <2>1, <2>2, DispatchAssumption
    <3> QED BY <3>1
  <2> DEFINE g == [k \in 0..m |-> IF k < m THEN f[k] ELSE ChainStep(f, m)]
  <2>4. \A k \in 0..m : g[k] = ChainStep(g, k)
    <3> SUFFICES ASSUME NEW k \in 0..m PROVE g[k] = ChainStep(g, k)
      OBVIOUS
    <3>1. k # 0 => g[k - 1] = f[k - 1]
      BY <2>1
    <3>2. ChainStep(g, k) = ChainStep(f, k)
      BY <3>1 DEF ChainStep
    <3>3. CASE k = m
      BY <2>1, <3>2, <3>3
    <3>4. CASE k # m
      BY <2>1, <2>3, <3>2, <3>4
    <3> QED BY <3>3, <3>4
  <2>5. Chains(g, m)
    BY <2>4
  <2> HIDE DEF Chains, g
  <2> QED BY <2>1, <2>5
<1> QED BY <1>1, DispatchAssumption

LEMMA ChainUnfolds == \A k \in 0..MaxAttempts : Chain[k] = ChainStep(Chain, k)
<1>1. Chain = CHOOSE f : f = [k \in 0..MaxAttempts |-> ChainStep(f, k)]
  BY DEF Chain, ChainStep, Tally
<1>2. Chain = [k \in 0..MaxAttempts |-> ChainStep(Chain, k)]
  BY <1>1, ChainExists
<1> QED BY <1>2

LEMMA TimesFacts ==
  ASSUME NEW a \in Int, NEW b \in Int, NEW g \in Int
  PROVE  Times(a, g) \in Int /\ Times(a, g) + Times(b, g) = Times(a + b, g)
BY DEF Times

LEMMA TimesSmall ==
  ASSUME NEW a \in Nat, NEW g \in Nat
  PROVE  /\ Times(a, g) \in Nat /\ Times(0, g) = 0 /\ Times(1, g) = g
         /\ a >= 1 => g <= Times(a, g)
BY DEF Times

LEMMA TallyTyped == Tally \in Nat /\ (Dispatchers # {} => Tally >= 1)
BY DispatchAssumption, FS_CardinalityType, FS_EmptySet DEF Tally

LEMMA ChainGrows ==
  ASSUME Dispatchers # {}, NEW k \in 0..MaxAttempts
  PROVE  Chain[k] \in Nat /\ \A j \in 0..k : Chain[j] <= Chain[k]
<1> DEFINE Grows(m) == Chain[m] \in Nat /\ \A j \in 0..m : Chain[j] <= Chain[m]
           T == {m \in 0..MaxAttempts : ~Grows(m)}
<1>0. MaxAttempts \in Nat /\ Tally \in Nat /\ Tally >= 1
  BY DispatchAssumption, TallyTyped
<1>1. T = {}
  <2> SUFFICES ASSUME T # {} PROVE FALSE
    OBVIOUS
  <2>1. PICK m \in T : \A i \in T : m <= i
    <3>1. T \subseteq Nat
      BY <1>0
    <3> HIDE DEF T
    <3> QED BY <3>1, LeastElement
  <2>2. m # 0
    BY <1>0, <2>1, ChainUnfolds DEF ChainStep
  <2>3. m \in 1..MaxAttempts /\ Grows(m - 1)
    BY <1>0, <2>1, <2>2
  <2> DEFINE c == Chain[m - 1]
             b == Times(Tally, c)
  <2>4. Chain[m] = 1 + b
    BY <1>0, <2>3, ChainUnfolds DEF ChainStep, Times
  <2>5. c \in Nat
    BY <2>3
  <2>6. b \in Nat /\ c <= b
    <3> HIDE DEF c
    <3> QED BY <1>0, <2>5, TimesSmall
  <2>7. \A j \in 0..m : Chain[j] \in Nat /\ Chain[j] <= Chain[m]
    <3> SUFFICES ASSUME NEW j \in 0..m PROVE Chain[j] \in Nat /\ Chain[j] <= Chain[m]
      OBVIOUS
    <3>1. CASE j = m
      BY <2>4, <2>6, <3>1
    <3>2. CASE j # m
      <4>1. j \in 0..(m - 1) /\ j \in 0..MaxAttempts /\ j \notin T
        BY <1>0, <2>1, <2>3, <3>2
      <4>2. Chain[j] \in Nat /\ Chain[j] <= c
        BY <2>3, <4>1
      <4> HIDE DEF b, c
      <4> QED BY <2>4, <2>5, <2>6, <4>2
    <3> QED BY <3>1, <3>2
  <2>8. m \in 0..m
    BY <2>3
  <2> QED BY <2>1, <2>7, <2>8
<1> QED BY <1>1

\* A weight falls with the attempts, and that of a copy pays for one send and for every
\* task that then loads the row.
LEMMA WeightTyped ==
  ASSUME Dispatchers # {}, NEW x \in 0..MaxAttempts
  PROVE  /\ Weight(x) \in Nat /\ Weight(MaxAttempts) = 0
         /\ \A y \in x..MaxAttempts : Weight(y) \in Nat /\ Weight(y) <= Weight(x)
         /\ x < MaxAttempts => Weight(x) = 1 + Times(Tally, Weight(x + 1))
<1>0. MaxAttempts \in Nat
  BY DispatchAssumption
<1>1. Weight(MaxAttempts) = 0
  <2>1. MaxAttempts - MaxAttempts = 0 /\ 0 \in 0..MaxAttempts
    BY <1>0
  <2>2. Chain[0] = 0
    BY <2>1, ChainUnfolds DEF ChainStep
  <2> QED BY <2>1, <2>2 DEF Weight
<1>2. ASSUME NEW y \in x..MaxAttempts PROVE Weight(y) \in Nat /\ Weight(y) <= Weight(x)
  <2> DEFINE i == MaxAttempts - x
             j == MaxAttempts - y
  <2>1. i \in 0..MaxAttempts /\ j \in 0..i /\ j \in 0..MaxAttempts
    BY <1>0
  <2> HIDE DEF i, j
  <2>2. Chain[j] \in Nat /\ Chain[j] <= Chain[i]
    BY <2>1, ChainGrows
  <2> QED BY <2>2 DEF Weight, i, j
<1>3. ASSUME x < MaxAttempts PROVE Weight(x) = 1 + Times(Tally, Weight(x + 1))
  <2> DEFINE i == MaxAttempts - x
  <2>1. i \in 0..MaxAttempts /\ i # 0 /\ MaxAttempts - (x + 1) = i - 1
    BY <1>0, <1>3
  <2>2. Weight(x) = Chain[i] /\ Weight(x + 1) = Chain[i - 1]
    BY <2>1 DEF Weight
  <2> HIDE DEF i
  <2>3. Chain[i] = 1 + Times(Tally, Chain[i - 1])
    BY <2>1, ChainUnfolds DEF ChainStep, Times
  <2> QED BY <2>2, <2>3
<1>4. x \in x..MaxAttempts
  BY <1>0
<1> QED BY <1>1, <1>2, <1>3, <1>4

LEMMA EmptyTally == Tally = 0 => Times(Tally, Weight(0)) = 0
<1> SUFFICES ASSUME Tally = 0 PROVE Times(0, Weight(0)) = 0
  OBVIOUS
<1> DEFINE k == MaxAttempts - 0
<1>1. k \in 0..MaxAttempts /\ k # 0 /\ MaxAttempts \in Nat
  BY DispatchAssumption
<1> HIDE DEF k
<1>2. ASSUME NEW m \in 0..MaxAttempts, m # 0, Chain[m - 1] \in Nat PROVE Chain[m] \in Nat
  <2>1. Chain[m] = 1 + 0 * Chain[m - 1]
    BY <1>2, ChainUnfolds DEF ChainStep
  <2> QED BY <1>2, <2>1
<1> DEFINE T == {m \in 0..MaxAttempts : Chain[m] \notin Nat}
<1>3. T = {}
  <2> SUFFICES ASSUME T # {} PROVE FALSE
    OBVIOUS
  <2>1. PICK m \in T : \A i \in T : m <= i
    <3>1. T \subseteq Nat
      BY <1>1
    <3> HIDE DEF T
    <3> QED BY <3>1, LeastElement
  <2>2. m # 0
    BY <1>1, <2>1, ChainUnfolds DEF ChainStep
  <2>3. m - 1 \in 0..MaxAttempts /\ m - 1 \notin T
    BY <1>1, <2>1, <2>2
  <2> QED BY <1>2, <2>1, <2>2, <2>3
<1>4. Chain[k] \in Nat
  BY <1>1, <1>3
<1> QED BY <1>4, TimesSmall DEF Weight, k

LEMMA OrderEnumerates == Enumerates(Order)
<1>1. \E h : Enumerates(h)
  <2>1. ExistsBijection(1..Tally, Dispatchers)
    BY DispatchAssumption, FS_CardinalityType DEF Tally
  <2>2. PICK h : h \in Bijection(1..Tally, Dispatchers)
    BY <2>1 DEF ExistsBijection
  <2> QED BY <2>2 DEF Bijection, Injection, Surjection, IsInjective, Enumerates
<1> QED BY <1>1 DEF Order

\* A sum spread anew: every part but the j-th grows by g, the whole by q.
Spread(N, S, j, g, q, T) ==
  /\ T \in [0..N -> Int] /\ T[0] = S[0] /\ T[N] = S[N] + q
  /\ \A i \in 1..N :
       /\ i # j => T[i] - T[i - 1] = S[i] - S[i - 1] + g
       /\ i = j => T[i] - T[i - 1] + Times(N - 1, g) = S[i] - S[i - 1] + q

LEMMA Respread ==
  ASSUME NEW N \in Nat, NEW S \in [0..N -> Int], NEW j \in 1..N, NEW g \in Nat, NEW q \in Int
  PROVE  \E T : Spread(N, S, j, g, q, T)
<1> DEFINE T == [i \in 0..N |-> IF i < j THEN S[i] + Times(i, g) ELSE S[i] + q - Times(N - i, g)]
<1>0. /\ \A i \in 0..N : S[i] \in Int /\ N - i \in Int /\ i \in Int
      /\ \A a, b \in Int : Times(a, g) \in Int /\ Times(a, g) + Times(b, g) = Times(a + b, g)
      /\ Times(0, g) = 0 /\ Times(1, g) = g
  <2>1. g \in Int /\ 1 \in Nat
    OBVIOUS
  <2>2. \A a, b \in Int : Times(a, g) \in Int /\ Times(a, g) + Times(b, g) = Times(a + b, g)
    BY <2>1, TimesFacts
  <2>3. Times(0, g) = 0 /\ Times(1, g) = g
    BY <2>1, TimesSmall
  <2>4. \A i \in 0..N : S[i] \in Int /\ N - i \in Int /\ i \in Int
    OBVIOUS
  <2> QED BY <2>2, <2>3, <2>4
<1>1. T \in [0..N -> Int]
  <2>1. ASSUME NEW i \in 0..N
        PROVE  (IF i < j THEN S[i] + Times(i, g) ELSE S[i] + q - Times(N - i, g)) \in Int
    <3> DEFINE a == Times(i, g)
               b == Times(N - i, g)
               c == S[i]
    <3>1. a \in Int /\ b \in Int /\ c \in Int
      BY <1>0
    <3> HIDE DEF a, b, c
    <3>2. (IF i < j THEN c + a ELSE c + q - b) \in Int
      BY <3>1
    <3> QED BY <3>2 DEF a, b, c
  <2> QED BY <2>1
<1>2. T[0] = S[0] /\ T[N] = S[N] + q
  <2>1. 0 \in 0..N /\ N \in 0..N /\ 0 < j /\ ~(N < j) /\ N - N = 0
    OBVIOUS
  <2>2. T[0] = S[0] + Times(0, g) /\ T[N] = S[N] + q - Times(N - N, g)
    BY <2>1
  <2> HIDE DEF T
  <2> QED BY <1>0, <2>1, <2>2
<1>3. ASSUME NEW i \in 1..N
      PROVE  /\ i # j => T[i] - T[i - 1] = S[i] - S[i - 1] + g
             /\ i = j => T[i] - T[i - 1] + Times(N - 1, g) = S[i] - S[i - 1] + q
  <2> DEFINE k == i - 1
             m == N - i
  <2>1. /\ i \in 0..N /\ k \in 0..N /\ k \in Int /\ m \in Int /\ i \in Int
        /\ k + 1 = i /\ m + 1 = N - k /\ k + m = N - 1
    OBVIOUS
  <2>2. /\ i < j => T[i] = S[i] + Times(i, g) /\ T[k] = S[k] + Times(k, g)
        /\ i > j => T[i] = S[i] + q - Times(m, g) /\ T[k] = S[k] + q - Times(N - k, g)
        /\ i = j => T[i] = S[i] + q - Times(m, g) /\ T[k] = S[k] + Times(k, g)
    BY <2>1
  <2> HIDE DEF T, k, m
  <2>3. /\ Times(i, g) = Times(k, g) + g /\ Times(N - k, g) = Times(m, g) + g
        /\ Times(N - 1, g) = Times(k, g) + Times(m, g)
        /\ Times(k, g) \in Int /\ Times(m, g) \in Int
    <3>1. 1 \in Int
      OBVIOUS
    <3>2. Times(k, g) + Times(1, g) = Times(i, g)
      BY <1>0, <2>1, <3>1
    <3>3. Times(m, g) + Times(1, g) = Times(m + 1, g) /\ m + 1 = N - k
      BY <1>0, <2>1, <3>1
    <3>4. Times(k, g) + Times(m, g) = Times(k + m, g) /\ k + m = N - 1
      BY <1>0, <2>1
    <3>5. Times(k, g) \in Int /\ Times(m, g) \in Int /\ Times(1, g) = g
      BY <1>0, <2>1
    <3> QED BY <3>2, <3>3, <3>4, <3>5
  <2>4. S[i] \in Int /\ S[k] \in Int
    BY <1>0, <2>1
  <2>5. /\ i # j => T[i] - T[k] = S[i] - S[k] + g
        /\ i = j => T[i] - T[k] + Times(N - 1, g) = S[i] - S[k] + q
    <3> DEFINE u == T[i]
               v == T[k]
               x == S[i]
               y == S[k]
               a == Times(k, g)
               b == Times(m, g)
               c == Times(i, g)
               e == Times(N - k, g)
               f == Times(N - 1, g)
    <3>1. /\ i < j => u = x + c /\ v = y + a
          /\ i > j => u = x + q - b /\ v = y + q - e
          /\ i = j => u = x + q - b /\ v = y + a
          /\ c = a + g /\ e = b + g /\ f = a + b
          /\ a \in Int /\ b \in Int /\ x \in Int /\ y \in Int
      BY <2>2, <2>3, <2>4
    <3> HIDE DEF u, v, x, y, a, b, c, e, f
    <3>2. /\ i # j => u - v = x - y + g
          /\ i = j => u - v + f = x - y + q
      BY <3>1
    <3> QED BY <3>2 DEF u, v, x, y, f
  <2> QED BY <2>5 DEF k
<1> HIDE DEF T
<1>4. Spread(N, S, j, g, q, T)
  BY <1>1, <1>2, <1>3 DEF Spread
<1> QED BY <1>4

\* What the budget sets aside for the task e.
Share(e, n) == Claim(row[n].status, row[n].attempts, Base(e, n), Spent(e, n))

LEMMA ClaimTyped ==
  ASSUME Dispatchers # {}, NEW s, NEW a \in 0..MaxAttempts, NEW b \in 0..MaxAttempts,
         NEW t \in {0, 1}, b = MaxAttempts => t = 0, s \notin Settled => a < MaxAttempts
  PROVE  Claim(s, a, b, t) \in Nat
<1> DEFINE x == IF s \in Settled THEN b ELSE Least(a, b)
<1>1. MaxAttempts \in Nat /\ x \in 0..MaxAttempts /\ (x = MaxAttempts => t = 0)
  BY DispatchAssumption DEF Least
<1>2. Claim(s, a, b, t) = Weight(x) - t
  BY DEF Claim
<1> HIDE DEF x
<1>3. Weight(x) \in Nat /\ Tally \in Nat
  BY <1>1, WeightTyped, TallyTyped
<1>4. x < MaxAttempts => Weight(x) >= 1
  <2> SUFFICES ASSUME x < MaxAttempts PROVE Weight(x) >= 1
    OBVIOUS
  <2> DEFINE y == x + 1
             c == Weight(y)
  <2>1. y \in x..MaxAttempts /\ Weight(x) = 1 + Times(Tally, c)
    BY <1>1, WeightTyped
  <2>2. c \in Nat
    BY <1>1, <2>1, WeightTyped
  <2> HIDE DEF c
  <2>3. Times(Tally, c) \in Nat
    BY <1>3, <2>2, TimesSmall
  <2> QED BY <2>1, <2>3
<1> QED BY <1>1, <1>2, <1>3, <1>4

LEMMA ShareTyped ==
  ASSUME IInv, Bases, NEW n \in Notices, NEW e \in Dispatchers
  PROVE  Share(e, n) \in Nat
<1>1. /\ Spent(e, n) \in {0, 1} /\ Base(e, n) \in 0..MaxAttempts
      /\ Base(e, n) = MaxAttempts => Spent(e, n) = 0
      /\ row[n].attempts \in 0..MaxAttempts
      /\ row[n].status \notin Settled => row[n].attempts < MaxAttempts
  BY Views
<1> QED BY <1>1, ClaimTyped DEF Share

LEMMA ShareTypedNext ==
  ASSUME NEW n \in Notices, NEW e \in Dispatchers
  PROVE  (IInv /\ Bases => Share(e, n) \in Nat)'
<1>1. IInv /\ Bases => Share(e, n) \in Nat
  BY ShareTyped
<1> QED BY <1>1, PTL

\* The budget follows a step of the task d by which no other claim grows by more than g.
LEMMA BudgetAfter ==
  ASSUME IInv, Bases, IInv', Bases', NEW n \in Notices, NEW S, Budget(n, S),
         NEW d \in Dispatchers, NEW g \in Nat, NEW q \in Int,
         \A e \in Dispatchers : e # d => Share(e, n)' <= Share(e, n) + g,
         Share(d, n)' + Times(Tally - 1, g) <= Share(d, n) + q,
         sends'[n] + q + crashes <= sends[n] + crashes'
  PROVE  \E T : Budget(n, T)'
<1>0. /\ Tally \in Nat /\ Weight(0) \in Nat /\ sends[n] \in Nat /\ sends'[n] \in Nat
      /\ crashes \in Nat /\ crashes' \in Nat
  <2>1. 0 \in 0..MaxAttempts /\ MaxCrashes \in Nat
    BY DispatchAssumption
  <2>2. TypeOK /\ TypeOK'
    BY DEF IInv, OutcomeEarned
  <2>3. sends \in [Notices -> Nat] /\ crashes \in 0..MaxCrashes
    BY <2>2 DEF TypeOK
  <2>4. sends' \in [Notices -> Nat] /\ crashes' \in 0..MaxCrashes
    BY <2>2 DEF TypeOK
  <2>5. Tally \in Nat /\ Weight(0) \in Nat
    BY <2>1, TallyTyped, WeightTyped
  <2> QED BY <2>1, <2>3, <2>4, <2>5
<1>1. /\ S \in [0..Tally -> Int] /\ S[0] = 0
      /\ \A i \in 1..Tally : Share(Order[i], n) <= S[i] - S[i - 1]
      /\ sends[n] + S[Tally] <= crashes + Times(Tally, Weight(0))
  BY DEF Budget, Share
<1>2. /\ \A i \in 1..Tally : Order[i] \in Dispatchers
      /\ \A i, j \in 1..Tally : Order[i] = Order[j] => i = j
  BY OrderEnumerates DEF Enumerates
<1>3. PICK j \in 1..Tally : Order[j] = d
  BY OrderEnumerates DEF Enumerates
<1>4. PICK T : Spread(Tally, S, j, g, q, T)
  <2>1. Tally \in Nat /\ S \in [0..Tally -> Int]
    BY <1>0, <1>1
  <2> QED BY <2>1, Respread
<1>5. ASSUME NEW i \in 1..Tally PROVE Share(Order[i], n)' <= T[i] - T[i - 1]
  <2> DEFINE e == Order[i]
             u == Share(e, n)
             v == Share(e, n)'
             k == Times(Tally - 1, g)
  <2>1. e \in Dispatchers /\ u \in Nat
    BY <1>2, ShareTyped
  <2>2. v \in Nat
    BY <2>1, ShareTypedNext
  <2>3. /\ T[i] \in Int /\ T[i - 1] \in Int /\ S[i] \in Int /\ S[i - 1] \in Int /\ k \in Int
        /\ u <= S[i] - S[i - 1]
    <3>1. i \in 0..Tally /\ i - 1 \in 0..Tally /\ Tally - 1 \in Int /\ g \in Int
      BY <1>0
    <3> QED BY <1>1, <1>4, <3>1, TimesFacts DEF Spread
  <2>4. i # j => e # d /\ v <= u + g
    BY <1>2, <1>3, <2>1
  <2>5. i = j => e = d /\ v + k <= u + q
    BY <1>3
  <2>6. /\ i # j => T[i] - T[i - 1] = S[i] - S[i - 1] + g
        /\ i = j => T[i] - T[i - 1] + k = S[i] - S[i - 1] + q
    BY <1>4 DEF Spread
  <2> HIDE DEF u, v, k
  <2>7. v <= T[i] - T[i - 1]
    BY <2>1, <2>2, <2>3, <2>4, <2>5, <2>6
  <2> QED BY <2>7 DEF v, e
<1>6. sends'[n] + T[Tally] <= crashes' + Times(Tally, Weight(0))
  <2> DEFINE m == Times(Tally, Weight(0))
             w == T[Tally]
             u == S[Tally]
             x == sends[n]
             y == sends'[n]
             c == crashes
             e == crashes'
  <2>1. /\ m \in Int /\ u \in Int /\ w = u + q /\ x + u <= c + m /\ y + q + c <= x + e
        /\ x \in Nat /\ y \in Nat /\ c \in Nat /\ e \in Nat
    BY <1>0, <1>1, <1>4, TimesFacts DEF Spread
  <2> HIDE DEF m, w, u, x, y, c, e
  <2>2. y + w <= e + m
    BY <2>1
  <2> QED BY <2>2 DEF m, w, y, e
<1>7. Budget(n, T)'
  <2>1. T[0] = 0
    BY <1>1, <1>4 DEF Spread
  <2>2. T \in [0..Tally -> Int]
    BY <1>4 DEF Spread
  <2> QED BY <1>5, <1>6, <2>1, <2>2 DEF Budget, Share
<1> QED BY <1>7

\* A claim when the row or the copy changes: it falls when the row settles, and when the
\* row has more attempts than before; it grows by at most the weight of the new count.
LEMMA ClaimMoves ==
  ASSUME Dispatchers # {}, NEW s, NEW r, NEW a \in 0..MaxAttempts, NEW z \in 0..MaxAttempts,
         NEW b \in 0..MaxAttempts, NEW t \in {0, 1}
  PROVE  /\ r \in Settled => Claim(r, z, b, t) <= Claim(s, a, b, t)
         /\ r \notin Settled => Claim(r, z, b, t) <= Claim(s, a, b, t) + Weight(z)
<1> DEFINE x == IF s \in Settled THEN b ELSE Least(a, b)
           y == IF r \in Settled THEN b ELSE Least(z, b)
<1>0. MaxAttempts \in Nat
  BY DispatchAssumption
<1>1. /\ MaxAttempts \in Nat /\ x \in 0..MaxAttempts /\ y \in 0..MaxAttempts
      /\ b \in x..MaxAttempts /\ y \in {z, b} /\ (r \in Settled => y = b)
  <2>1. x \in 0..MaxAttempts /\ b \in x..MaxAttempts
    BY <1>0 DEF Least
  <2>2. y \in {z, b} /\ (r \in Settled => y = b)
    BY DEF Least
  <2> QED BY <1>0, <2>1, <2>2
<1>2. Claim(s, a, b, t) = Weight(x) - t /\ Claim(r, z, b, t) = Weight(y) - t
  BY DEF Claim
<1> HIDE DEF x, y
<1>3. /\ Weight(x) \in Nat /\ Weight(y) \in Nat /\ Weight(z) \in Nat /\ Weight(b) \in Nat
      /\ Weight(b) <= Weight(x)
  BY <1>1, WeightTyped
<1> QED BY <1>1, <1>2, <1>3

LEMMA ShareAfter ==
  ASSUME NEW n, NEW e, NEW s, NEW a, NEW b, NEW t, row'[n].status = s, row'[n].attempts = a,
         Base(e, n)' = b, Spent(e, n)' = t
  PROVE  Share(e, n)' = Claim(s, a, b, t)
BY DEF Share, Claim, Weight, Least

LEMMA BudgetStep ==
  ASSUME IInv, Bases, IInv', Bases', NEW d \in Dispatchers,
         Select(d) \/ Attempt(d) \/ Commit(d) \/ Crash(d), NEW n \in Notices, NEW S, Budget(n, S)
  PROVE  \E T : Budget(n, T)'
<1> DEFINE s == row[n].status
           a == row[n].attempts
           b == Base(d, n)
           t == Spent(d, n)
           r == row'[n].status
           z == row'[n].attempts
           x == sends[n]
<1>0. /\ t \in {0, 1} /\ a \in 0..MaxAttempts /\ b \in 0..MaxAttempts
      /\ b = MaxAttempts <=> n \notin task[d].batch
      /\ n \notin task[d].batch => t = 0
      /\ s \notin Settled => a \in 0..(MaxAttempts - 1)
      /\ x \in Nat /\ crashes \in Nat /\ MaxAttempts \in Nat \ {0}
  BY Views
<1>1. /\ Share(d, n) = Claim(s, a, b, t) /\ Share(d, n) \in Nat /\ Share(d, n)' \in Nat
      /\ Tally \in Nat /\ Tally >= 1
  BY ShareTyped, ShareTypedNext, TallyTyped DEF Share
<1>2. z \in 0..MaxAttempts
  <2>1. TypeOK' /\ AttemptsBounded'
    BY DEF IInv, OutcomeEarned
  <2>2. z \in Nat /\ z <= MaxAttempts
    BY <2>1 DEF TypeOK, AttemptsBounded
  <2> QED BY <1>0, <2>2
<1>3. \A f \in Dispatchers : f # d => task'[f] = task[f] /\ copy'[f] = copy[f]
  BY SelectViews, AttemptViews, GoneViews DEF Commit, Crash
\* The claim of another task, by what becomes of the row.
<1>4. ASSUME NEW e \in Dispatchers, e # d
      PROVE  /\ row' = row \/ row'[n] = row[n] => Share(e, n)' = Share(e, n)
             /\ r \in Settled => Share(e, n)' <= Share(e, n)
             /\ r \notin Settled => Share(e, n)' <= Share(e, n) + Weight(z)
             /\ Share(e, n) \in Nat /\ Share(e, n)' \in Nat
  <2> DEFINE c == Base(e, n)
             w == Spent(e, n)
  <2>1. Base(e, n)' = c /\ Spent(e, n)' = w
    BY <1>3, <1>4, OtherViews
  <2>2. c \in 0..MaxAttempts /\ w \in {0, 1}
    BY Views
  <2> HIDE DEF c, w
  <2>3. Share(e, n)' = Claim(r, z, c, w)
    BY <2>1, ShareAfter
  <2>4. Share(e, n) = Claim(s, a, c, w)
    BY DEF Share, c, w
  <2>5. /\ r \in Settled => Claim(r, z, c, w) <= Claim(s, a, c, w)
        /\ r \notin Settled => Claim(r, z, c, w) <= Claim(s, a, c, w) + Weight(z)
    <3> HIDE DEF r, z, s, a
    <3> QED BY <1>0, <1>2, <2>2, ClaimMoves
  <2>6. Share(e, n) \in Nat /\ Share(e, n)' \in Nat
    BY ShareTyped, ShareTypedNext
  <2> QED BY <2>3, <2>4, <2>5, <2>6
<1>5. Times(Tally - 1, 0) = 0
  BY <1>1 DEF Times
<1>6. /\ Weight(b) \in Nat /\ Weight(MaxAttempts) = 0
      /\ \A y \in b..MaxAttempts : Weight(y) \in Nat /\ Weight(y) <= Weight(b)
      /\ b < MaxAttempts => Weight(b) = 1 + Times(Tally, Weight(b + 1))
  <2> HIDE DEF b
  <2> QED BY <1>0, WeightTyped
<1> HIDE DEF b, t, x
<1>7. CASE Select(d) \/ Attempt(d) \/ (Commit(d) /\ n \notin task[d].batch)
  <2> DEFINE y == sends'[n]
             w == Spent(d, n)'
             q == x - y
             u == Share(d, n)
             v == Share(d, n)'
  <2>1. row'[n] = row[n] /\ crashes' = crashes
    BY <1>7, SelectViews, AttemptViews, CommitViews
  <2>2. y \in Nat /\ w \in {0, 1}
    BY DEF IInv, OutcomeEarned, TypeOK, Spent
  <2>3. v <= u + q
    <3>1. CASE Select(d)
      <4>1. /\ y = x /\ b = MaxAttempts /\ t = 0 /\ w = 0
            /\ \/ Base(d, n)' = MaxAttempts
               \/ s \in Unsettled /\ Base(d, n)' = a
        BY <3>1, SelectViews DEF b, t, x
      <4>2. Claim(s, a, MaxAttempts, 0) = Claim(s, a, a, 0) \/ s \notin Unsettled
        BY <1>0 DEF Claim, Least, Settled, Unsettled
      <4>3. v = u
        <5>1. v = Claim(s, a, MaxAttempts, 0) \/ (s \in Unsettled /\ v = Claim(s, a, a, 0))
          BY <2>1, <4>1, ShareAfter
        <5> QED BY <1>1, <4>1, <4>2, <5>1
      <4> HIDE DEF u, v, y
      <4> QED BY <1>0, <1>1, <2>2, <4>1, <4>3 DEF u, v
    <3>2. CASE Attempt(d) \/ (Commit(d) /\ n \notin task[d].batch)
      <4>1. Base(d, n)' = b /\ y + t <= x + w
        <5>1. CASE Attempt(d)
          BY <5>1, AttemptViews DEF b, t, x
        <5>2. CASE Commit(d) /\ n \notin task[d].batch
          <6>1. Base(d, n)' = MaxAttempts /\ w = 0
            BY <5>2, GoneViews DEF Commit
          <6> QED BY <1>0, <5>2, <6>1, CommitViews DEF x
        <5> QED BY <3>2, <5>1, <5>2
      <4>2. v = Claim(s, a, b, w)
        BY <2>1, <4>1, ShareAfter
      <4> DEFINE k == Weight(IF s \in Settled THEN b ELSE Least(a, b))
      <4>3. v = k - w /\ u = k - t
        BY <1>1, <4>2 DEF Claim
      <4>4. k \in Nat
        <5> DEFINE m == IF s \in Settled THEN b ELSE Least(a, b)
        <5>1. m \in 0..MaxAttempts
          BY <1>0 DEF Least
        <5> HIDE DEF m
        <5>2. Weight(m) \in Nat
          BY <5>1, WeightTyped
        <5> QED BY <5>2 DEF m
      <4> HIDE DEF k, u, v, w, y
      <4> QED BY <1>0, <2>2, <4>1, <4>3, <4>4
    <3> QED BY <1>7, <3>1, <3>2
  <2>4. \A e \in Dispatchers : e # d => Share(e, n)' <= Share(e, n) + 0
    BY <1>4, <2>1
  <2>5. v + Times(Tally - 1, 0) <= u + q
    BY <1>1, <1>5, <2>3
  <2>6. q \in Int /\ y + q + crashes <= x + crashes'
    <3> HIDE DEF y
    <3> QED BY <1>0, <2>1, <2>2
  <2>7. 0 \in Nat
    OBVIOUS
  <2> HIDE DEF q
  <2> QED BY <2>4, <2>5, <2>6, <2>7, BudgetAfter DEF x
<1>8. CASE Crash(d)
  <2>1. row' = row /\ sends' = sends /\ crashes' = crashes + 1
    BY <1>8 DEF Crash
  <2>2. Base(d, n)' = MaxAttempts /\ Spent(d, n)' = 0
    BY <1>8, GoneViews DEF Crash
  <2>3. Share(d, n)' <= Share(d, n) + 1
    <3>1. Share(d, n)' = Claim(s, a, MaxAttempts, 0)
      BY <2>1, <2>2, ShareAfter
    <3> DEFINE m == IF s \in Settled THEN b ELSE Least(a, b)
               k == IF s \in Settled THEN MaxAttempts ELSE Least(a, MaxAttempts)
    <3>2. m \in 0..MaxAttempts /\ k \in m..MaxAttempts
      BY <1>0 DEF Least
    <3>3. Share(d, n)' = Weight(k) - 0 /\ Share(d, n) = Weight(m) - t
      BY <1>1, <3>1 DEF Claim
    <3> HIDE DEF m, k
    <3>4. Weight(m) \in Nat /\ Weight(k) \in Nat /\ Weight(k) <= Weight(m)
      BY <3>2, WeightTyped
    <3> QED BY <1>0, <3>3, <3>4
  <2>4. \A e \in Dispatchers : e # d => Share(e, n)' <= Share(e, n) + 0
    BY <1>4, <2>1
  <2>5. Share(d, n)' + Times(Tally - 1, 0) <= Share(d, n) + 1
    BY <1>1, <1>5, <2>3
  <2>6. sends'[n] + 1 + crashes <= sends[n] + crashes'
    BY <1>0, <2>1 DEF x
  <2>7. 0 \in Nat /\ 1 \in Int
    OBVIOUS
  <2> QED BY <2>4, <2>5, <2>6, <2>7, BudgetAfter
<1>9. CASE Commit(d) /\ n \in task[d].batch
  <2>1. /\ UNCHANGED <<sends, crashes>> /\ t = 1 /\ z = b + 1
        /\ r \in {"SENT", "DEAD_LETTER", "FAILED"} /\ (r = "FAILED" => b + 1 < MaxAttempts)
    BY <1>9, CommitViews DEF b, t
  <2>2. Base(d, n)' = MaxAttempts /\ Spent(d, n)' = 0
    BY <1>9, GoneViews DEF Commit
  <2>3. Share(d, n)' = Claim(r, z, MaxAttempts, 0)
    BY <2>2, ShareAfter
  <2>4. sends'[n] + 0 + crashes <= sends[n] + crashes' /\ 0 \in Int /\ 0 \in Nat
    BY <1>0, <2>1 DEF x
  <2> DEFINE u == Share(d, n)
             v == Share(d, n)'
             g == Weight(b + 1)
  <2>5. CASE r \in Settled
    <3>1. v = Weight(MaxAttempts) - 0
      BY <2>3, <2>5 DEF Claim
    <3>2. v = 0
      BY <1>6, <3>1
    <3>3. v + Times(Tally - 1, 0) <= u + 0
      BY <1>1, <1>5, <3>2
    <3>4. \A e \in Dispatchers : e # d => Share(e, n)' <= Share(e, n) + 0
      BY <1>4, <2>5
    <3> QED BY <2>4, <3>3, <3>4, BudgetAfter
  <2>6. CASE r \notin Settled
    <3>1. b + 1 < MaxAttempts /\ z = b + 1
      BY <2>1, <2>6 DEF Settled
    <3>2. v = Weight(Least(z, MaxAttempts)) - 0 /\ Least(z, MaxAttempts) = z
      BY <1>0, <2>3, <2>6, <3>1 DEF Claim, Least
    <3>3. g \in Nat /\ v = g /\ Weight(z) = g
      <4>1. b + 1 \in b..MaxAttempts
        BY <1>0, <3>1
      <4>2. g \in Nat
        BY <1>6, <4>1
      <4> HIDE DEF g, v
      <4>3. v = g - 0
        BY <3>1, <3>2 DEF g
      <4> QED BY <3>1, <4>2, <4>3 DEF g
    <3>4. Weight(b) = 1 + Times(Tally, g)
      BY <1>0, <1>6, <3>1
    <3>5. u + 1 >= Weight(b)
      <4> DEFINE m == IF s \in Settled THEN b ELSE Least(a, b)
      <4>1. m \in 0..MaxAttempts /\ b \in m..MaxAttempts
        BY <1>0 DEF Least
      <4>2. u = Weight(m) - 1
        BY <1>1, <2>1 DEF Claim
      <4> HIDE DEF m, u
      <4>3. Weight(m) \in Nat /\ Weight(b) \in Nat /\ Weight(b) <= Weight(m)
        BY <4>1, WeightTyped
      <4> QED BY <4>2, <4>3
    <3>6. /\ Times(Tally - 1, g) + Times(1, g) = Times(Tally, g) /\ Times(1, g) = g
          /\ Times(Tally - 1, g) \in Int /\ Times(Tally, g) \in Int
      <4> HIDE DEF g
      <4>1. Tally - 1 \in Int /\ 1 \in Int /\ g \in Int /\ Tally - 1 + 1 = Tally /\ Tally \in Int
        BY <1>1, <3>3
      <4>2. /\ Times(Tally - 1, g) + Times(1, g) = Times(Tally - 1 + 1, g)
            /\ Times(Tally - 1, g) \in Int /\ Times(Tally, g) \in Int
        BY <4>1, TimesFacts
      <4>3. Times(1, g) = g
        BY <3>3, <4>1, TimesSmall
      <4> QED BY <4>1, <4>2, <4>3
    <3>7. v + Times(Tally - 1, g) <= u + 0
      <4> DEFINE k == Times(Tally - 1, g)
                 m == Times(Tally, g)
                 w == Weight(b)
      <4>1. k + g = m /\ k \in Int /\ m \in Int /\ w = 1 + m /\ u + 1 >= w /\ v = g /\ u \in Nat
        BY <1>1, <3>3, <3>4, <3>5, <3>6
      <4> HIDE DEF k, m, w, u, v, g
      <4>2. v + k <= u + 0
        BY <3>3, <4>1
      <4> QED BY <4>2 DEF k
    <3>8. \A e \in Dispatchers : e # d => Share(e, n)' <= Share(e, n) + g
      BY <1>4, <2>6, <3>3
    <3> HIDE DEF g
    <3> QED BY <2>4, <3>3, <3>7, <3>8, BudgetAfter
  <2> QED BY <2>5, <2>6
<1> QED BY <1>7, <1>8, <1>9

\* Pair of the next state, with the values that the row and the two copies then have.
LEMMA PairAfter ==
  ASSUME NEW n, NEW d, NEW e, NEW a, NEW b, NEW c, NEW l,
         row'[n].attempts = a, Base(d, n)' = b, Base(e, n)' = c,
         crashes' + MostSends + Spent(d, n)' + Spent(e, n)' - sends'[n] = l,
         b < MaxAttempts /\ c < MaxAttempts => row'[n].status \in Unsettled /\ a \in {b, c},
         row'[n].status \notin Settled => Owed(a, b, c) <= l,
         row'[n].status \in Settled => Late(b) + Late(c) <= l
  PROVE  Pair(n, d, e)'
<1>1. Left(n, d, e)' = l
  BY DEF Left, MostSends
<1>2. Owed(row[n].attempts, Base(d, n), Base(e, n))' = Owed(a, b, c)
  BY DEF Owed, Least, Runs
<1>3. Late(Base(d, n))' = Late(b) /\ Late(Base(e, n))' = Late(c)
  BY DEF Late, Runs
<1> QED BY <1>1, <1>2, <1>3 DEF Pair, Unsettled, Settled

LEMMA PairStep ==
  ASSUME IInv, Bases, NEW d \in Dispatchers, NEW e \in Dispatchers, d # e,
         Select(d) \/ Attempt(d) \/ Commit(d) \/ Crash(d), NEW n \in Notices, Pair(n, d, e)
  PROVE  Pair(n, d, e)'
<1> DEFINE a == row[n].attempts
           b == Base(d, n)
           c == Base(e, n)
           s == Spent(d, n)
           t == Spent(e, n)
           m == MostSends
           x == sends[n]
           l == crashes + m + s + t - x
           open == row[n].status \notin Settled
<1>0. /\ s \in {0, 1} /\ t \in {0, 1} /\ a \in 0..MaxAttempts /\ b \in 0..MaxAttempts
      /\ c \in 0..MaxAttempts /\ MaxAttempts \in Nat \ {0} /\ x \in Nat /\ crashes \in Nat
      /\ b = MaxAttempts <=> n \notin task[d].batch
      /\ n \notin task[d].batch => s = 0
      /\ open => a \in 0..(MaxAttempts - 1)
  BY Views
<1>1. m \in Int
  BY <1>0 DEF MostSends
<1>2. /\ b < MaxAttempts /\ c < MaxAttempts => row[n].status \in Unsettled /\ a \in {b, c}
      /\ open => Owed(a, b, c) <= l
      /\ ~open => Late(b) + Late(c) <= l
  BY DEF Pair, Left
<1>3. /\ \A f \in Dispatchers : f # d => task'[f] = task[f] /\ copy'[f] = copy[f]
  BY SelectViews, AttemptViews, GoneViews DEF Commit, Crash
<1>4. Base(e, n)' = c /\ Spent(e, n)' = t
  BY <1>3, OtherViews
<1>5. Late(b) \in Nat /\ Late(c) \in Nat
  BY <1>0, LateTyped
<1>6. Unsettled \cap Settled = {} /\ Late(MaxAttempts) = 0
  BY DEF Unsettled, Settled, Late
<1> HIDE DEF a, b, c, s, t, m, x
<1>7. CASE Select(d)
  <2>1. /\ UNCHANGED <<row, sends, crashes>> /\ b = MaxAttempts /\ s = 0 /\ Spent(d, n)' = 0
        /\ \/ Base(d, n)' = MaxAttempts
           \/ row[n].status \in Unsettled /\ Base(d, n)' = a
    BY <1>7, SelectViews DEF a, b, s
  <2>2. /\ row'[n].attempts = a /\ row'[n].status = row[n].status
        /\ crashes' + MostSends + Spent(d, n)' + Spent(e, n)' - sends'[n] = l
    BY <1>4, <2>1 DEF a, m, x
  <2> HIDE DEF l
  <2>3. CASE Base(d, n)' = MaxAttempts
    BY <1>0, <1>2, <1>4, <2>1, <2>2, <2>3, PairAfter
  <2>4. CASE row[n].status \in Unsettled /\ Base(d, n)' = a
    <3>1. open /\ row[n].status \notin Settled
      BY <1>6, <2>4
    <3>2. Owed(a, a, c) = Owed(a, MaxAttempts, c)
      BY <1>0, <3>1, OwedDown
    <3> QED BY <1>2, <1>4, <2>1, <2>2, <2>4, <3>1, <3>2, PairAfter
  <2> QED BY <2>1, <2>3, <2>4
<1>8. CASE Attempt(d)
  <2> DEFINE y == sends'[n]
             r == Spent(d, n)'
             k == crashes + m + r + t - y
  <2>1. /\ UNCHANGED <<row, crashes>> /\ Base(d, n)' = b /\ y + s <= x + r
    BY <1>8, AttemptViews DEF b, s, x
  <2>2. y \in Nat /\ r \in {0, 1}
    <3>1. IInv'
      BY <1>8, AttemptInv
    <3> QED BY <3>1 DEF IInv, OutcomeEarned, TypeOK, Spent
  <2>3. /\ row'[n].attempts = a /\ row'[n].status = row[n].status
        /\ crashes' + MostSends + Spent(d, n)' + Spent(e, n)' - sends'[n] = k
    BY <1>4, <2>1 DEF a, m
  <2> HIDE DEF y, r
  <2>4. k \in Int /\ l \in Int /\ l <= k
    BY <1>0, <1>1, <2>1, <2>2
  <2> HIDE DEF k, l
  <2>5. open => Owed(a, b, c) <= k
    <3>1. open => Owed(a, b, c) \in Nat
      BY <1>0, OwedDown
    <3> QED BY <1>2, <2>4, <3>1
  <2>6. ~open => Late(b) + Late(c) <= k
    BY <1>2, <1>5, <2>4
  <2> QED BY <1>2, <1>4, <2>1, <2>3, <2>5, <2>6, PairAfter
<1>9. CASE Crash(d)
  <2> DEFINE k == crashes + 1 + m + 0 + t - x
  <2>1. UNCHANGED <<row, sends>> /\ crashes' = crashes + 1
    BY <1>9 DEF Crash
  <2>2. Base(d, n)' = MaxAttempts /\ Spent(d, n)' = 0
    BY <1>9, GoneViews DEF Crash
  <2>3. /\ row'[n].attempts = a /\ row'[n].status = row[n].status
        /\ crashes' + MostSends + Spent(d, n)' + Spent(e, n)' - sends'[n] = k
    BY <1>4, <2>1, <2>2 DEF a, m, x
  <2>4. k \in Int /\ l \in Int /\ l <= k
    BY <1>0, <1>1
  <2> HIDE DEF k, l
  <2>5. open => Owed(a, MaxAttempts, c) <= k
    <3>1. open => /\ Owed(a, b, c) \in Nat /\ Owed(a, MaxAttempts, c) <= Owed(a, b, c)
      BY <1>0, OwedDown
    <3>2. MaxAttempts \in 0..MaxAttempts
      BY <1>0
    <3>3. open => Owed(a, MaxAttempts, c) \in Nat
      BY <1>0, <3>2, OwedDown
    <3> QED BY <1>2, <2>4, <3>1, <3>3
  <2>6. ~open => Late(MaxAttempts) + Late(c) <= k
    BY <1>2, <1>5, <1>6, <2>4
  <2>7. ~(MaxAttempts < MaxAttempts)
    BY <1>0
  <2> QED BY <1>4, <2>2, <2>3, <2>5, <2>6, <2>7, PairAfter
<1>10. CASE Commit(d)
  <2> DEFINE k == crashes + m + 0 + t - x
             z == row'[n].attempts
  <2>1. UNCHANGED <<sends, crashes>>
    BY <1>10 DEF Commit
  <2>2. Base(d, n)' = MaxAttempts /\ Spent(d, n)' = 0
    BY <1>10, GoneViews DEF Commit
  <2>3. crashes' + MostSends + Spent(d, n)' + Spent(e, n)' - sends'[n] = k
    BY <1>4, <2>1, <2>2 DEF m, x
  <2>4. k \in Int /\ l \in Int /\ l <= k + 1 /\ (s = 0 => k = l)
    BY <1>0, <1>1
  <2>5. ~(MaxAttempts < MaxAttempts)
    BY <1>0
  <2> HIDE DEF k, l
  <2>6. CASE n \notin task[d].batch
    <3>1. row'[n] = row[n]
      BY <1>10, <2>6, CommitViews
    <3>2. row'[n].attempts = a /\ row'[n].status = row[n].status
      BY <3>1 DEF a
    <3>3. b = MaxAttempts /\ k = l
      BY <1>0, <2>4, <2>6
    <3> QED BY <1>2, <1>4, <2>2, <2>3, <2>5, <3>2, <3>3, PairAfter
  <2>7. CASE n \in task[d].batch
    <3>1. /\ z = b + 1 /\ row'[n].status \in {"SENT", "DEAD_LETTER", "FAILED"}
          /\ row'[n].status = "FAILED" =>
               b + 1 < MaxAttempts /\ (row[n].status \in Settled => b = 0)
      BY <1>10, <2>7, CommitViews DEF b
    <3>2. b \in 0..(MaxAttempts - 1)
      BY <1>0, <2>7
    <3> HIDE DEF z
    <3>3. ASSUME row'[n].status \in Settled PROVE Late(MaxAttempts) + Late(c) <= k
      <4>1. CASE open
        <5>1. Late(c) + 1 <= Owed(a, b, c) /\ Owed(a, b, c) \in Nat
          BY <1>0, <3>2, <4>1, OwedSettles, OwedDown
        <5> QED BY <1>2, <1>5, <1>6, <2>4, <4>1, <5>1
      <4>2. CASE ~open
        <5>1. Late(b) >= 1
          BY <1>0, <1>5, <3>2, LateTyped
        <5> QED BY <1>2, <1>5, <1>6, <2>4, <4>2, <5>1
      <4> QED BY <4>1, <4>2
    <3>4. ASSUME row'[n].status \notin Settled PROVE Owed(z, MaxAttempts, c) <= k
      <4>0. /\ b + 1 < MaxAttempts /\ (row[n].status \in Settled => b = 0)
        BY <3>1, <3>4 DEF Settled
      <4>1. CASE open
        <5>1. b \in 0..(MaxAttempts - 2) /\ a \in 0..(MaxAttempts - 1)
          BY <1>0, <4>0, <4>1
        <5>2. c = MaxAttempts \/ b = a \/ c = a
          BY <1>0, <1>2, <5>1
        <5>3. Owed(b + 1, MaxAttempts, c) + 1 <= Owed(a, b, c)
          BY <1>0, <5>1, <5>2, OwedCommit
        <5>4. Owed(a, b, c) \in Nat
          BY <1>0, <5>1, OwedDown
        <5>5. Owed(z, MaxAttempts, c) \in Nat
          <6>1. z \in 0..(MaxAttempts - 1) /\ MaxAttempts \in 0..MaxAttempts
            BY <1>0, <3>1, <5>1
          <6> QED BY <1>0, <6>1, OwedDown
        <5> QED BY <1>2, <2>4, <3>1, <4>1, <5>3, <5>4, <5>5
      <4>2. CASE ~open
        <5>1. b = 0 /\ z = 1 /\ MaxAttempts > 1
          BY <3>1, <4>0, <4>2
        <5>2. c = MaxAttempts
          BY <1>0, <1>2, <1>6, <3>2, <4>2
        <5>3. Owed(1, MaxAttempts, MaxAttempts) + 1 <= Late(0)
          BY <5>1, OwedRevives
        <5>4. Owed(1, MaxAttempts, MaxAttempts) \in Nat
          <6>1. 1 \in 0..(MaxAttempts - 1) /\ MaxAttempts \in 0..MaxAttempts
            BY <1>0, <5>1
          <6> QED BY <1>0, <6>1, OwedDown
        <5>5. Late(0) \in Nat /\ Late(0) <= l
          BY <1>2, <1>5, <1>6, <4>2, <5>1, <5>2
        <5> QED BY <2>4, <5>1, <5>2, <5>3, <5>4, <5>5
      <4> QED BY <4>1, <4>2
    <3> QED BY <1>4, <2>2, <2>3, <2>5, <3>3, <3>4, PairAfter DEF z
  <2> QED BY <2>6, <2>7
<1> QED BY <1>7, <1>8, <1>9, <1>10

LEMMA InitSends == Init => SendsInv
<1> SUFFICES ASSUME Init PROVE SendsInv
  OBVIOUS
<1>0. IInv /\ MaxAttempts \in Nat \ {0}
  BY InitInv, DispatchAssumption
<1>1. /\ \A d \in Dispatchers : task[d].batch = {}
      /\ \A n \in Notices : row[n].status = "none" /\ row[n].attempts = 0 /\ sends[n] = 0
      /\ crashes = 0
  BY DEF Init, Idle, Blank
<1>2. \A d \in Dispatchers, n \in Notices : Base(d, n) = MaxAttempts /\ Spent(d, n) = 0
  BY <1>1 DEF Base, Spent
<1>3. Bases
  BY <1>1 DEF Bases
<1>4. ASSUME NEW n \in Notices PROVE \E S : Budget(n, S)
  <2> DEFINE w == Weight(0)
             S == [i \in 0..Tally |-> Times(i, w)]
  <2>1. Tally \in Nat /\ (Dispatchers # {} => w \in Nat)
    <3>1. 0 \in 0..MaxAttempts
      BY <1>0
    <3> QED BY <3>1, TallyTyped, WeightTyped
  <2>2. CASE Dispatchers # {}
    <3>1. /\ w \in Nat /\ w \in Int /\ 1 \in Int
      BY <2>1, <2>2
    <3> HIDE DEF w
    <3>2. /\ Times(0, w) = 0 /\ Times(1, w) = w
          /\ \A x, y \in Int : Times(x, w) \in Int /\ Times(x, w) + Times(y, w) = Times(x + y, w)
      BY <2>1, <3>1, TimesFacts, TimesSmall
    <3>3. S \in [0..Tally -> Int] /\ S[0] = 0 /\ S[Tally] = Times(Tally, w)
      BY <2>1, <3>2
    <3>4. ASSUME NEW i \in 1..Tally
          PROVE  Claim(row[n].status, row[n].attempts, Base(Order[i], n), Spent(Order[i], n))
                   <= S[i] - S[i - 1]
      <4>1. Order[i] \in Dispatchers
        BY OrderEnumerates DEF Enumerates
      <4>2. Base(Order[i], n) = MaxAttempts /\ Spent(Order[i], n) = 0
        BY <1>2, <4>1
      <4>3. Claim("none", 0, MaxAttempts, 0) = Weight(0) - 0
        BY <1>0 DEF Claim, Least, Settled
      <4>4. i - 1 \in Int /\ i - 1 + 1 = i /\ i \in 0..Tally /\ i - 1 \in 0..Tally
        BY <2>1
      <4>5. Times(i - 1, w) + Times(1, w) = Times(i - 1 + 1, w)
        BY <3>1, <3>2, <4>4
      <4>6. S[i] = Times(i, w) /\ S[i - 1] = Times(i - 1, w) /\ Times(i - 1, w) \in Int
        BY <3>2, <4>4
      <4> HIDE DEF S
      <4> DEFINE u == S[i]
                 v == S[i - 1]
      <4>7. v + w = u /\ v \in Int
        BY <3>2, <4>4, <4>5, <4>6
      <4> HIDE DEF u, v
      <4>8. w - 0 <= u - v
        BY <3>1, <4>7
      <4> QED BY <1>1, <4>2, <4>3, <4>8 DEF u, v, w
    <3>5. sends[n] + S[Tally] <= crashes + Times(Tally, Weight(0))
      <4> DEFINE u == S[Tally]
      <4>1. u = Times(Tally, w) /\ u \in Int
        BY <2>1, <3>3
      <4> HIDE DEF u, S
      <4>2. 0 + u <= 0 + u
        BY <4>1
      <4> QED BY <1>1, <4>1, <4>2 DEF u, w
    <3> HIDE DEF S
    <3> QED BY <3>3, <3>4, <3>5 DEF Budget
  <2>3. CASE Dispatchers = {}
    <3>1. Tally = 0
      BY <2>3, FS_EmptySet DEF Tally
    <3> DEFINE Z == [i \in 0..0 |-> 0]
    <3>2. Times(0, Weight(0)) = 0
      BY <3>1, EmptyTally
    <3>3. Budget(n, Z)
      BY <1>1, <3>1, <3>2 DEF Budget
    <3> QED BY <3>3
  <2> QED BY <2>2, <2>3
<1>5. ASSUME NEW n \in Notices, NEW d \in Dispatchers, NEW e \in Dispatchers
      PROVE  Pair(n, d, e)
  <2>1. Owed(0, MaxAttempts, MaxAttempts) = MostSends /\ MostSends \in Nat
    <3>1. 0 \in 0..(MaxAttempts - 1) /\ 1 \in 0..MaxAttempts /\ 0 \in 0..MaxAttempts
      BY <1>0
    <3>2. Runs(0) = MaxAttempts - 0 + Runs(0 + 1) /\ Runs(0) \in Nat /\ Runs(1) \in Nat
      BY <3>1, RunsStep, RunsTyped
    <3>3. Least(0, Least(MaxAttempts, MaxAttempts)) = 0
      BY <1>0 DEF Least
    <3>4. Owed(0, MaxAttempts, MaxAttempts) = MaxAttempts - 0 + Runs(0 + 1) + 1
      BY <3>3 DEF Owed
    <3>5. MostSends = Runs(0) + 1
      <4> DEFINE z == (MaxAttempts * (MaxAttempts + 1)) \div 2
      <4>1. MaxAttempts - 0 = MaxAttempts
        BY <1>0
      <4>2. Runs(0) = z + 1 /\ MostSends = 2 + z
        BY <4>1 DEF Runs, MostSends
      <4>3. z \in Int
        BY <1>0
      <4> HIDE DEF z
      <4> QED BY <4>2, <4>3
    <3> QED BY <3>2, <3>4, <3>5
  <2>2. Left(n, d, e) = MostSends
    BY <1>1, <1>2, <2>1 DEF Left
  <2>3. row[n].status \notin Settled /\ ~(MaxAttempts < MaxAttempts)
    BY <1>0, <1>1 DEF Settled
  <2> QED BY <1>1, <1>2, <2>1, <2>2, <2>3 DEF Pair
<1> QED BY <1>3, <1>4, <1>5 DEF SendsInv

\* A step that leaves the tasks, the counts and what is settled as they are.
LEMMA KeptSends ==
  ASSUME IInv, SendsInv, UNCHANGED <<task, copy, sends, crashes>>,
         \A n \in Notices :
           /\ row'[n].attempts = row[n].attempts
           /\ \/ row'[n].status = row[n].status
              \/ row[n].status = "none" /\ row'[n].status = "PENDING"
  PROVE  SendsInv'
<1>0. Bases
  BY DEF SendsInv
<1>1. \A d \in Dispatchers, n \in Notices : Spent(d, n)' = Spent(d, n) /\ Base(d,
    n)' = Base(d, n)
  BY OtherViews
<1>2. Bases'
  <2>1. ASSUME NEW n \in Notices
        PROVE  /\ row'[n].status = "FAILED" => row'[n].attempts > 0
               /\ \A d \in Dispatchers :
                    /\ ~task'[d].running => task'[d].batch = {}
                    /\ n \in task'[d].batch =>
                         /\ Base(d, n)' \in 0..(MaxAttempts - 1)
                         /\ copy'[d][n].loaded = "PENDING" <=> Base(d, n)' = 0
    BY <1>0, <1>1 DEF Bases
  <2> QED BY <2>1 DEF Bases
<1>3. ASSUME NEW n \in Notices, NEW S, Budget(n, S) PROVE Budget(n, S)'
  <2>1. ASSUME NEW i \in 1..Tally
        PROVE  Share(Order[i], n)' <= S[i] - S[i - 1]
    <3> DEFINE e == Order[i]
               b == Base(e, n)
               t == Spent(e, n)
               s == row'[n].status
               a == row[n].attempts
    <3>1. e \in Dispatchers
      BY OrderEnumerates DEF Enumerates
    <3>2. Base(e, n)' = b /\ Spent(e, n)' = t /\ row'[n].attempts = a
      BY <1>1, <3>1
    <3>3. Claim(s, a, b, t) = Claim(row[n].status, a, b, t)
      BY DEF Claim, Settled
    <3>4. Claim(row[n].status, a, b, t) <= S[i] - S[i - 1]
      BY <1>3 DEF Budget
    <3> HIDE DEF b, t, s, a
    <3>5. Share(e, n)' = Claim(s, a, b, t)
      BY <3>2, ShareAfter DEF s
    <3> QED BY <3>3, <3>4, <3>5
  <2> QED BY <1>3, <2>1 DEF Budget, Share
<1>4. ASSUME NEW n \in Notices, NEW d \in Dispatchers, NEW e \in Dispatchers, Pair(n, d, e)
      PROVE  Pair(n, d, e)'
  <2> DEFINE a == row[n].attempts
             b == Base(d, n)
             c == Base(e, n)
             l == crashes + MostSends + Spent(d, n) + Spent(e, n) - sends[n]
  <2>1. /\ row'[n].attempts = a /\ Base(d, n)' = b /\ Base(e, n)' = c
        /\ crashes' + MostSends + Spent(d, n)' + Spent(e, n)' - sends'[n] = l
    BY <1>1
  <2>2. /\ b < MaxAttempts /\ c < MaxAttempts => row[n].status \in Unsettled /\ a \in {b, c}
        /\ row[n].status \notin Settled => Owed(a, b, c) <= l
        /\ row[n].status \in Settled => Late(b) + Late(c) <= l
    BY <1>4 DEF Pair, Left
  <2>3. /\ row'[n].status \in Settled <=> row[n].status \in Settled
        /\ row[n].status \in Unsettled => row'[n].status \in Unsettled
    BY DEF Settled, Unsettled
  <2> HIDE DEF a, b, c, l
  <2> QED BY <2>1, <2>2, <2>3, PairAfter
<1> QED BY <1>2, <1>3, <1>4 DEF SendsInv

LEMMA NextSends == IInv /\ SendsInv /\ [Next]_vars => SendsInv'
<1> SUFFICES ASSUME IInv, SendsInv, [Next]_vars PROVE SendsInv'
  OBVIOUS
<1>0. /\ row \in [Notices -> [status : RowStatuses, attempts : Nat]] /\ IInv' /\ Bases
  BY NextInv DEF IInv, OutcomeEarned, TypeOK, RowStatuses, SendsInv
<1>1. CASE UNCHANGED vars
  BY <1>1, KeptSends DEF vars
<1>2. ASSUME NEW n \in Notices, Enqueue(n) \/ BackoffEnds(n) PROVE SendsInv'
  <2>1. UNCHANGED <<task, copy, sends, crashes>>
    BY <1>2 DEF Enqueue, BackoffEnds
  <2>2. \A m \in Notices :
          /\ row'[m].attempts = row[m].attempts
          /\ \/ row'[m].status = row[m].status
             \/ row[m].status = "none" /\ row'[m].status = "PENDING"
    BY <1>0, <1>2 DEF Enqueue, BackoffEnds
  <2> QED BY <2>1, <2>2, KeptSends
<1>3. ASSUME NEW f \in Dispatchers, Select(f) \/ Attempt(f) \/ Commit(f) \/ Crash(f)
      PROVE  SendsInv'
  <2>1. Bases'
    BY <1>0, <1>3, BasesStep
  <2>2. ASSUME NEW n \in Notices PROVE \E T : Budget(n, T)'
    <3>1. PICK S : Budget(n, S)
      BY <2>2 DEF SendsInv
    <3> QED BY <1>0, <1>3, <2>1, <3>1, BudgetStep
  <2>3. ASSUME NEW n \in Notices, NEW d \in Dispatchers, NEW e \in Dispatchers, d # e,
               Dispatchers = {d, e}
        PROVE  Pair(n, d, e)'
    <3>1. Pair(n, d, e) /\ Pair(n, e, d)
      BY <1>0, <2>3, PairSame DEF SendsInv
    <3>2. CASE f = d
      BY <1>0, <1>3, <2>3, <3>1, <3>2, PairStep
    <3>3. CASE f = e
      <4>1. Pair(n, e, d)'
        BY <1>0, <1>3, <2>3, <3>1, <3>3, PairStep
      <4> QED BY <1>0, <2>1, <4>1, PairSameNext
    <3> QED BY <2>3, <3>2, <3>3
  <2> QED BY <2>1, <2>2, <2>3 DEF SendsInv
<1> QED BY <1>1, <1>2, <1>3 DEF Next

LEMMA SendsFollow == IInv /\ SendsInv => SendsBounded
<1> SUFFICES ASSUME IInv, SendsInv, NEW n \in Notices
             PROVE  sends[n] <= crashes + IF Tally = 2 THEN MostSends
                                          ELSE Tally * Chain[MaxAttempts]
  BY DEF SendsBounded, MostSends, Tally
<1>0. Bases
  BY DEF SendsInv
<1>1. CASE Tally # 2
  <2>1. PICK S : Budget(n, S)
    BY DEF SendsInv
  <2>2. Tally \in Nat /\ MaxAttempts \in Nat /\ MaxAttempts - 0 = MaxAttempts
    BY DispatchAssumption, TallyTyped
  <2>3. /\ S \in [0..Tally -> Int] /\ S[0] = 0
        /\ sends[n] + S[Tally] <= crashes + Times(Tally, Weight(0))
        /\ \A i \in 1..Tally : Share(Order[i], n) <= S[i] - S[i - 1]
    BY <2>1 DEF Budget, Share
  <2> DEFINE T == {i \in 0..Tally : S[i] < 0}
  <2>4. T = {}
    <3> SUFFICES ASSUME T # {} PROVE FALSE
      OBVIOUS
    <3>1. PICK i \in T : \A k \in T : i <= k
      <4>1. T \subseteq Nat
        BY <2>2
      <4> HIDE DEF T
      <4> QED BY <4>1, LeastElement
    <3>2. i # 0
      BY <2>3, <3>1
    <3>3. i \in 1..Tally /\ i - 1 \in 0..Tally /\ i \in 0..Tally /\ S[i] < 0
      BY <2>2, <3>1, <3>2
    <3>4. i - 1 \notin T
      BY <3>1, <3>3
    <3>5. S[i - 1] >= 0 /\ S[i - 1] \in Int /\ S[i] \in Int
      BY <2>3, <3>3, <3>4
    <3>6. Order[i] \in Dispatchers
      BY <3>3, OrderEnumerates DEF Enumerates
    <3> DEFINE u == Share(Order[i], n)
    <3>7. u \in Nat /\ u <= S[i] - S[i - 1]
      BY <1>0, <2>3, <3>3, <3>6, ShareTyped
    <3> HIDE DEF u, T
    <3> QED BY <3>3, <3>5, <3>7
  <2>5. S[Tally] \in Nat
    <3>1. Tally \in 0..Tally
      BY <2>2
    <3> QED BY <2>3, <2>4, <3>1
  <2> DEFINE m == Times(Tally, Weight(0))
  <2>6. m = Tally * Chain[MaxAttempts]
    BY <2>2 DEF Times, Weight
  <2>7. sends[n] <= crashes + m
    <3>1. m \in Int
      <4>1. CASE Dispatchers # {}
        <5>1. Weight(0) \in Nat
          <6>1. 0 \in 0..MaxAttempts
            BY <2>2
          <6> QED BY <4>1, <6>1, WeightTyped
        <5> QED BY <2>2, <5>1, TimesSmall
      <4>2. CASE Dispatchers = {}
        <5>1. Tally = 0
          BY <4>2, FS_EmptySet DEF Tally
        <5> QED BY <5>1, EmptyTally
      <4> QED BY <4>1, <4>2
    <3>2. sends[n] \in Nat /\ crashes \in Nat
      BY DispatchAssumption DEF IInv, OutcomeEarned, TypeOK
    <3> DEFINE u == S[Tally]
    <3>3. u \in Nat /\ sends[n] + u <= crashes + m
      BY <2>3, <2>5
    <3> HIDE DEF m, u
    <3> QED BY <3>1, <3>2, <3>3
  <2> HIDE DEF m
  <2> QED BY <1>1, <2>6, <2>7
<1>2. CASE Tally = 2
  <2>1. PICK d \in Dispatchers : TRUE
    BY <1>2, FS_EmptySet DEF Tally
  <2>2. IsFiniteSet(Dispatchers \ {d}) /\ Cardinality(Dispatchers \ {d}) = 1
    BY <1>2, <2>1, FS_RemoveElement, DispatchAssumption DEF Tally
  <2>3. PICK e : Dispatchers \ {d} = {e}
    BY <2>2, FS_Singleton
  <2>4. e \in Dispatchers /\ d # e /\ Dispatchers = {d, e}
    BY <2>1, <2>3
  <2>5. Pair(n, d, e)
    BY <2>1, <2>4 DEF SendsInv
  <2> DEFINE a == row[n].attempts
             b == Base(d, n)
             c == Base(e, n)
             s == Spent(d, n)
             t == Spent(e, n)
  <2>6. /\ s \in {0, 1} /\ t \in {0, 1} /\ b \in 0..MaxAttempts /\ c \in 0..MaxAttempts
        /\ b = MaxAttempts => s = 0
        /\ c = MaxAttempts => t = 0
        /\ row[n].status \notin Settled => a \in 0..(MaxAttempts - 1)
        /\ sends[n] \in Nat /\ crashes \in Nat /\ MaxAttempts \in Nat \ {0}
    BY <1>0, <2>1, <2>4, Views
  <2>7. /\ row[n].status \notin Settled => Owed(a, b, c) <= Left(n, d, e)
        /\ row[n].status \in Settled => Late(b) + Late(c) <= Left(n, d, e)
    BY <2>5 DEF Pair
  <2>8. Left(n, d, e) = crashes + MostSends + s + t - sends[n] /\ MostSends \in Int
    BY <2>6 DEF Left, MostSends
  <2> HIDE DEF a, b, c, s, t
  <2>9. s + t <= Left(n, d, e)
    <3>1. CASE row[n].status \notin Settled
      <4>1. Owed(a, b, c) \in Nat /\ Owed(a, b, c) >= 2
        BY <2>6, <3>1, OwedDown
      <4> QED BY <2>6, <2>7, <2>8, <3>1, <4>1
    <3>2. CASE row[n].status \in Settled
      <4>1. Late(b) \in Nat /\ Late(c) \in Nat /\ s <= Late(b) /\ t <= Late(c)
        BY <2>6, LateTyped
      <4> QED BY <2>6, <2>7, <2>8, <3>2, <4>1
    <3> QED BY <3>1, <3>2
  <2>10. sends[n] <= crashes + MostSends
    BY <2>6, <2>8, <2>9
  <2> QED BY <1>2, <2>10
<1> QED BY <1>1, <1>2

\* However many dispatch_due calls overlap, write older counts over newer ones, revive a
\* row that another has parked, or die, a row reaches its notifier a bounded number of
\* times: MaxAttempts times when they run one at a time, 2 + (1 + ... + MaxAttempts) times
\* when they are two, Chain[MaxAttempts] times for each of more; a task that dies before
\* its commit adds one.
THEOREM SendsBoundedHolds == Spec => []SendsBounded
<1>1. Spec => [](IInv /\ SendsInv)
  BY InitSends, NextSends, Invariance, PTL DEF Spec
<1> QED BY <1>1, SendsFollow, PTL

-----------------------------------------------------------------------------
(* The alert table.                                                        *)

\* What a session carries names a row that exists, of the condition it works on.
TxnInv ==
  \A p \in Sessions :
    /\ txn[p].alert # None => /\ status[txn[p].alert] # "unused"
                              /\ cond[txn[p].alert] = txn[p].cond
    /\ txn[p].op \in {"acknowledge", "resolve"} => txn[p].alert # None
    /\ txn[p].op = "detect" => txn[p].cond \in Conditions

TableInv == AlertTypeOK /\ OneActive /\ TxnInv

LEMMA FindActiveFound ==
  ASSUME NEW c, FindActive(c) # None
  PROVE  FindActive(c) \in ActiveAlerts(c)
BY DEF FindActive

LEMMA TableInitInv == AlertInit => TableInv
BY AlertAssumption DEF AlertInit, TableInv, AlertTypeOK, OneActive, TxnInv, NoTxn, Active,
   Statuses, AllOperations, Transitions

\* Starting a transaction changes txn[p] only.
LEMMA BeginInv ==
  ASSUME TableInv, NEW p \in Sessions, NEW rec,
         rec \in [op : AllOperations \cup {"idle"}, cond : Conditions \cup {None},
                  alert : Alerts \cup {None}, seen : Statuses],
         rec.alert # None => status[rec.alert] # "unused" /\ cond[rec.alert] = rec.cond,
         rec.op \in {"acknowledge", "resolve"} => rec.alert # None,
         rec.op = "detect" => rec.cond \in Conditions,
         Begin(p, rec)
  PROVE  TableInv'
BY DEF Begin, TableInv, AlertTypeOK, OneActive, TxnInv, Active

LEMMA ReadActiveInv ==
  ASSUME TableInv, NEW p \in Sessions, NEW op \in {"detect", "clear"}, NEW c \in Conditions,
         ReadActive(p, op, c)
  PROVE  TableInv'
<1> DEFINE a == FindActive(c)
           rec == [op |-> op, cond |-> c, alert |-> a,
                   seen |-> IF a = None THEN "unused" ELSE status[a]]
<1>1. a # None => a \in Alerts /\ status[a] \in Active /\ cond[a] = c
  BY FindActiveFound DEF ActiveAlerts
<1>2. rec \in [op : AllOperations \cup {"idle"}, cond : Conditions \cup {None},
               alert : Alerts \cup {None}, seen : Statuses]
  BY <1>1 DEF AllOperations, Statuses, TableInv, AlertTypeOK
<1>3. rec.alert # None => status[rec.alert] # "unused" /\ cond[rec.alert] = rec.cond
  BY <1>1 DEF Active
<1>4. Begin(p, rec)
  BY DEF ReadActive
<1> HIDE DEF a
<1>5. rec.op \notin {"acknowledge", "resolve"} /\ rec.cond \in Conditions
  OBVIOUS
<1> HIDE DEF rec
<1> QED BY <1>2, <1>3, <1>4, <1>5, BeginInv

LEMMA ReadAlertInv ==
  ASSUME TableInv, NEW p \in Sessions, NEW op \in {"acknowledge", "resolve"}, NEW a \in Alerts,
         ReadAlert(p, op, a)
  PROVE  TableInv'
<1> DEFINE rec == [op |-> op, cond |-> cond[a], alert |-> a, seen |-> status[a]]
<1>1. /\ rec \in [op : AllOperations \cup {"idle"}, cond : Conditions \cup {None},
                  alert : Alerts \cup {None}, seen : Statuses]
      /\ status[rec.alert] # "unused" /\ cond[rec.alert] = rec.cond
      /\ rec.alert # None /\ rec.op # "detect"
  BY AlertAssumption DEF ReadAlert, TableInv, AlertTypeOK, AllOperations
<1>2. Begin(p, rec)
  BY DEF ReadAlert
<1> HIDE DEF rec
<1> QED BY <1>1, <1>2, BeginInv

LEMMA EndTxn ==
  ASSUME TableInv, NEW p \in Sessions, End(p)
  PROVE  /\ txn' \in [Sessions -> [op : AllOperations \cup {"idle"},
                                   cond : Conditions \cup {None},
                                   alert : Alerts \cup {None}, seen : Statuses]]
         /\ \A q \in Sessions : txn'[q] = txn[q] \/ txn'[q] = NoTxn
BY DEF End, NoTxn, TableInv, AlertTypeOK, Statuses

LEMMA NoTransitionInv ==
  ASSUME TableInv, NEW p \in Sessions, NoTransition(p)
  PROVE  TableInv'
BY EndTxn DEF NoTransition, TableInv, AlertTypeOK, OneActive, TxnInv, NoTxn

LEMMA EnqueueInv ==
  ASSUME AlertTypeOK, NEW a \in Alerts, NEW t \in Transitions, EnqueueIntent(a, t)
  PROVE  notices' \in [Alerts -> [Transitions -> Nat]]
BY DEF EnqueueIntent, AlertTypeOK

\* A move is sound when the index allows it.
LEMMA MoveInv ==
  ASSUME TableInv, NEW p \in Sessions, NEW a \in Alerts,
         NEW s \in Active \cup {"RESOLVED"},
         NEW t \in Transitions, status[a] # "unused", IndexAllows(a, cond[a], s),
             Move(p, a, s, t)
  PROVE  TableInv'
<1>1. AlertTypeOK'
  BY EndTxn, EnqueueInv DEF Move, TableInv, AlertTypeOK, Statuses
<1>2. OneActive'
  BY DEF Move, TableInv, AlertTypeOK, OneActive, IndexAllows, ActiveAlerts
<1>3. TxnInv'
  <2>1. \A q \in Sessions : txn'[q] = txn[q] \/ txn'[q] = NoTxn
    BY EndTxn DEF Move
  <2> QED BY <2>1 DEF Move, TableInv, AlertTypeOK, TxnInv, NoTxn, Active
<1> QED BY <1>1, <1>2, <1>3 DEF TableInv

LEMMA InsertInv ==
  ASSUME TableInv, NEW p \in Sessions, NEW a \in Alerts, txn[p].op = "detect",
         ActiveAlerts(txn[p].cond) = {}, Insert(p, a)
  PROVE  TableInv'
<1>1. txn[p].cond \in Conditions
  BY DEF TableInv, TxnInv
<1>2. AlertTypeOK'
  BY <1>1, EndTxn, EnqueueInv DEF Insert, TableInv, AlertTypeOK, Statuses, Active, Transitions
<1>3. OneActive'
  BY <1>1 DEF Insert, TableInv, AlertTypeOK, OneActive, ActiveAlerts, Active
<1>4. TxnInv'
  <2>1. \A q \in Sessions : txn'[q] = txn[q] \/ txn'[q] = NoTxn
    BY EndTxn DEF Insert
  <2> QED BY <2>1, <1>1 DEF Insert, TableInv, AlertTypeOK, TxnInv, NoTxn
<1> QED BY <1>2, <1>3, <1>4 DEF TableInv

LEMMA TableNextInv == TableInv /\ [AlertNext]_alertVars => TableInv'
<1> SUFFICES ASSUME TableInv, [AlertNext]_alertVars PROVE TableInv'
  OBVIOUS
<1>1. CASE UNCHANGED alertVars
  BY <1>1 DEF alertVars, TableInv, AlertTypeOK, OneActive, TxnInv
<1>2. ASSUME NEW p \in Sessions, NEW op \in {"detect", "clear"}, NEW c \in Conditions,
             ReadActive(p, op, c)
      PROVE  TableInv'
  BY <1>2, ReadActiveInv
<1>3. ASSUME NEW p \in Sessions, NEW op \in {"acknowledge", "resolve"}, NEW a \in Alerts,
             ReadAlert(p, op, a)
      PROVE  TableInv'
  BY <1>3, ReadAlertInv
<1>4. ASSUME NEW p \in Sessions, Detect(p) PROVE TableInv'
  BY <1>4, NoTransitionInv, InsertInv DEF Detect
<1>5. ASSUME NEW p \in Sessions, txn[p].alert # None
      PROVE  /\ txn[p].alert \in Alerts
             /\ status[txn[p].alert] # "unused"
             /\ cond[txn[p].alert] = txn[p].cond
  BY <1>5 DEF TableInv, AlertTypeOK, TxnInv
<1>6. \A a, c : IndexAllows(a, c, "RESOLVED")
  BY DEF IndexAllows, Active
<1>7. ASSUME NEW p \in Sessions, Clear(p) PROVE TableInv'
  BY <1>5, <1>6, <1>7, NoTransitionInv, MoveInv DEF Clear, Transitions
<1>8. ASSUME NEW p \in Sessions, Acknowledge(p) PROVE TableInv'
  <2>1. txn[p].alert # None
    BY <1>8 DEF Acknowledge, TableInv, TxnInv
  <2> QED BY <1>5, <1>8, <2>1, NoTransitionInv, MoveInv DEF Acknowledge, Transitions, Active
<1>9. ASSUME NEW p \in Sessions, Resolve(p) PROVE TableInv'
  <2>1. txn[p].alert # None
    BY <1>9 DEF Resolve, TableInv, TxnInv
  <2> QED BY <1>5, <1>6, <1>9, <2>1, NoTransitionInv, MoveInv DEF Resolve, Transitions
<1>10. ASSUME NEW p \in Sessions, Abort(p) PROVE TableInv'
  BY <1>10, NoTransitionInv DEF Abort
<1> QED BY <1>1, <1>2, <1>3, <1>4, <1>7, <1>8, <1>9, <1>10 DEF AlertNext

\* The inductive invariant holds in every reachable state.
THEOREM TableInvariance == AlertSpec => []TableInv
BY TableInitInv, TableNextInv, PTL DEF AlertSpec

\* Whatever sessions interleave, no condition ever has two active alerts.
THEOREM OneActiveHolds == AlertSpec => []OneActive
<1>1. TableInv => OneActive
  BY DEF TableInv
<1> QED BY <1>1, TableInvariance, PTL

\* A row is never given to another condition and never goes back to OPEN.
THEOREM NeverReopenedHolds == AlertSpec => NeverReopened
<1> DEFINE A == \A a \in Alerts : status[a] # "unused" =>
                 /\ cond'[a] = cond[a]
                 /\ status'[a] = "OPEN" => status[a] = "OPEN"
<1>1. ASSUME TableInv, [AlertNext]_alertVars PROVE [A]_alertVars
  <2>1. ASSUME NEW p \in Sessions, NEW b \in Alerts, Insert(p, b) PROVE A
    BY <1>1, <2>1 DEF Insert, TableInv, AlertTypeOK
  <2>2. ASSUME NEW p \in Sessions, NEW s \in {"ACKNOWLEDGED", "RESOLVED"}, NEW t,
               NEW b, Move(p, b, s, t)
        PROVE  A
    BY <1>1, <2>2 DEF Move, TableInv, AlertTypeOK
  <2>3. ASSUME UNCHANGED <<cond, status>> PROVE A
    BY <2>3
  <2> HIDE DEF A
  <2>4. ASSUME NEW p \in Sessions, Detect(p) \/ Clear(p)
               \/ Acknowledge(p) \/ Resolve(p)
        PROVE  A
    BY <2>1, <2>2, <2>3, <2>4 DEF Detect, Clear, Acknowledge, Resolve, NoTransition
  <2>5. ASSUME NEW p \in Sessions, NEW op, NEW c, ReadActive(p, op, c)
               \/ ReadAlert(p, op, c)
        PROVE  A
    BY <2>3, <2>5 DEF ReadActive, ReadAlert, Begin
  <2>6. ASSUME NEW p \in Sessions, Abort(p) PROVE A
    BY <2>3, <2>6 DEF Abort, NoTransition
  <2> QED BY <1>1, <2>4, <2>5, <2>6 DEF AlertNext
<1> QED BY <1>1, TableInvariance, PTL DEF AlertSpec, NeverReopened

=============================================================================
