----------------------- MODULE MetricCollectionProofs -----------------------
(***************************************************************************)
(* MetricCollection: a slot is run once and no bucket is left out, for any *)
(* consoles, tasks, cadences, searches and faults.                         *)
(*                                                                         *)
(* The slot: last_slot_start is at least as recent as the slot of every    *)
(* task that claimed one, and a claim needs one that is more recent.       *)
(*                                                                         *)
(* The buckets: a pass that saw a watermark appends to a bucket that is    *)
(* stored, whatever happened to the watermark since.  One that saw none    *)
(* has inserted the row and holds it to the end of its transaction, so     *)
(* nothing is stored before it commits.  And _search_window completes a    *)
(* prefix of the window, however it is cut.                                *)
(***************************************************************************)
EXTENDS MetricCollection, WellFoundedInduction, TLAPS

\* What a task keeps.
TaskRecords ==
  [pc : Steps, slot : 0..Never, todo : Seq(Names), boundary : 0..(Last + 1),
   seen : {Absent} \cup Buckets, window : Seq(Buckets), done : Nat]

Typed ==
  /\ closed \in 1..(Last + 1) /\ phase \in 0..(Period - 1)
  /\ cadence \in Cadences /\ since \in 0..Never
  /\ mark \in [Names -> {Absent} \cup Buckets]
  /\ rows \in [Names -> SUBSET Buckets]
  /\ lock \in [Names -> Tasks \cup {None}]
  /\ writer \in [Names -> Tasks \cup {None}]
  /\ task \in [Tasks -> TaskRecords]
  /\ faults \in 0..MaxFaults

Claimed(t) == task[t].pc \notin {"idle", "claim"}

\* No claimed slot is more recent than last_slot_start.
SlotsBehind == \A t \in Tasks : Claimed(t) => task[t].slot >= since

\* The record k of task t, beside the watermarks m, the rows r and the writers w:
\* what it has read of its console is still so, and a row that it inserted is its
\* own.
InPass(k) == k.pc \in {"insert", "search", "write", "unlock", "commit"}
Inserted(k) == k.pc \in {"search", "write", "unlock", "commit"} /\ k.seen = Absent

Sound(k, t, m, r, w) ==
  /\ k.pc \notin {"idle", "claim", "next"} => k.todo # <<>>
  /\ k.pc \in {"lock", "read"} => k.boundary # 0
  /\ k.done <= Len(k.window) /\ (k.pc \notin {"write", "unlock", "commit"} => k.done = 0)
  /\ Len(k.window) <= Last + 1
  /\ InPass(k) =>
       /\ k.seen = Absent => Len(k.window) = 1
       /\ k.seen # Absent =>
            k.seen \in r[Head(k.todo)] /\ \A i \in 1..Len(k.window) : k.window[i] = k.seen + i
       /\ k.pc \in {"unlock", "commit"} => w[Head(k.todo)] = t
       /\ Inserted(k) => w[Head(k.todo)] = t /\ m[Head(k.todo)] = Absent

TasksSound == \A t \in Tasks : Sound(task[t], t, mark, rows, writer)

\* The watermark of a console stands on a stored bucket; without one nothing is stored.
Anchored ==
  \A c \in Names : IF mark[c] = Absent THEN rows[c] = {} ELSE mark[c] \in rows[c]

\* The stored buckets of a console are an interval.
Unbroken(S) == \A a, b \in S : a..b \subseteq S

\* The inductive invariant.
IInv ==
  /\ Typed /\ SlotsBehind /\ SlotOnce
  /\ TasksSound /\ Anchored /\ \A c \in Names : Unbroken(rows[c])

-----------------------------------------------------------------------------
(* _search_window.                                                         *)

\* A set of numbers has a least element: the ground of the induction below.
LEMMA LeastElement ==
  ASSUME NEW T, T \subseteq Nat, T # {}
  PROVE  \E m \in T : \A k \in T : m <= k
<1>1. PICK m \in T : \A k \in T : <<k, m>> \notin OpToRel(<, Nat)
  BY NatLessThanWellFounded, WFMin
<1>2. \A k \in T : ~(k < m)
  BY <1>1 DEF OpToRel
<1> QED BY <1>2

\* The search of n buckets with s searches left, after the searches f with fewer.
Halves(f, s, n) ==
  LET l == f[s - 1][n \div 2]
      r == f[l.left][n - n \div 2]
  IN  IF l.capped THEN [l EXCEPT !.cuts = @ \cup {0}]
      ELSE [done |-> l.done + r.done, left |-> r.left, capped |-> r.capped,
            cuts |-> {0} \cup l.cuts \cup {l.done + k : k \in r.cuts}]

SearchStep(fit, f, s) ==
  [n \in 0..(Last + 1) |->
     IF s = 0 THEN [done |-> 0, left |-> 0, capped |-> TRUE, cuts |-> {}]
     ELSE IF n <= 1 \/ n <= fit
     THEN [done |-> n, left |-> s - 1, capped |-> FALSE, cuts |-> {0}]
     ELSE Halves(f, s, n)]

\* The answer for n buckets with s searches left.
Answers(n, s) == [done : 0..n, left : 0..s, capped : BOOLEAN, cuts : SUBSET (0..n)]

\* A function of the searches left that answers up to m of them.
Searches(fit, f, m) ==
  /\ f = [s \in 0..m |-> SearchStep(fit, f, s)]
  /\ \A s \in 0..m : \A n \in 0..(Last + 1) : f[s][n] \in Answers(n, s)

LEMMA HalvesAnswer ==
  ASSUME NEW f, NEW s \in Nat, s > 0, NEW n \in 0..(Last + 1), n > 1,
         \A u \in 0..(s - 1) : \A k \in 0..(Last + 1) : f[u][k] \in Answers(k, u)
  PROVE  Halves(f, s, n) \in Answers(n, s)
<1> DEFINE h == n \div 2
           g == n - h
           l == f[s - 1][h]
           r == f[l.left][g]
<1>1. Last \in Nat
  BY CollectionAssumption
<1>2. h \in 1..n /\ g \in 0..n /\ h + g = n /\ h \in 0..(Last + 1) /\ g \in 0..(Last + 1)
  BY <1>1
<1> HIDE DEF h, g
<1>3. l \in Answers(h, s - 1)
  <2>1. s - 1 \in 0..(s - 1)
    OBVIOUS
  <2> QED BY <1>2, <2>1
<1>4. l.left \in 0..(s - 1) /\ l.done \in 0..h /\ l.cuts \in SUBSET (0..h) /\ l.capped \in BOOLEAN
  BY <1>3 DEF Answers
<1>5. r \in Answers(g, l.left)
  BY <1>2, <1>4
<1>6. r.left \in 0..l.left /\ r.done \in 0..g /\ r.cuts \in SUBSET (0..g) /\ r.capped \in BOOLEAN
  BY <1>5 DEF Answers
<1>7. Halves(f, s, n) = IF l.capped THEN [l EXCEPT !.cuts = @ \cup {0}]
        ELSE [done |-> l.done + r.done, left |-> r.left, capped |-> r.capped,
              cuts |-> {0} \cup l.cuts \cup {l.done + k : k \in r.cuts}]
  BY DEF Halves, h, g
<1> HIDE DEF l, r
<1>8. CASE l.capped
  <2>1. [l EXCEPT !.cuts = @ \cup {0}] \in Answers(h, s - 1)
    BY <1>2, <1>3, <1>4 DEF Answers
  <2>2. 0..h \subseteq 0..n /\ 0..(s - 1) \subseteq 0..s
    BY <1>2
  <2>3. [l EXCEPT !.cuts = @ \cup {0}] \in Answers(n, s)
    BY <2>1, <2>2 DEF Answers
  <2> QED BY <1>7, <1>8, <2>3
<1>9. CASE ~l.capped
  <2>1. l.done + r.done \in 0..n
    BY <1>2, <1>4, <1>6
  <2>2. r.left \in 0..s
    BY <1>4, <1>6
  <2>3. {0} \cup l.cuts \cup {l.done + k : k \in r.cuts} \in SUBSET (0..n)
    <3>1. 0 \in 0..n
      OBVIOUS
    <3>2. l.cuts \subseteq 0..n
      BY <1>2, <1>4
    <3>3. \A k \in r.cuts : l.done + k \in 0..n
      BY <1>2, <1>4, <1>6
    <3> QED BY <3>1, <3>2, <3>3
  <2> QED BY <1>6, <1>7, <1>9, <2>1, <2>2, <2>3 DEF Answers
<1> QED BY <1>8, <1>9

\* One search more.
LEMMA StepAnswers ==
  ASSUME NEW fit \in Nat, NEW f, NEW s \in Nat,
         \A u \in 0..(s - 1) : \A k \in 0..(Last + 1) : f[u][k] \in Answers(k, u)
  PROVE  \A n \in 0..(Last + 1) : SearchStep(fit, f, s)[n] \in Answers(n, s)
<1> SUFFICES ASSUME NEW n \in 0..(Last + 1) PROVE SearchStep(fit, f, s)[n] \in Answers(n, s)
  OBVIOUS
<1>1. SearchStep(fit, f, s)[n] =
        IF s = 0 THEN [done |-> 0, left |-> 0, capped |-> TRUE, cuts |-> {}]
        ELSE IF n <= 1 \/ n <= fit
        THEN [done |-> n, left |-> s - 1, capped |-> FALSE, cuts |-> {0}]
        ELSE Halves(f, s, n)
  BY DEF SearchStep
<1>2. CASE s = 0
  BY <1>1, <1>2 DEF Answers
<1>3. CASE s # 0 /\ (n <= 1 \/ n <= fit)
  BY <1>1, <1>3 DEF Answers
<1>4. CASE s # 0 /\ ~(n <= 1 \/ n <= fit)
  <2>1. Halves(f, s, n) \in Answers(n, s)
    BY <1>4, HalvesAnswer
  <2> QED BY <1>1, <1>4, <2>1
<1> QED BY <1>2, <1>3, <1>4

\* A step looks at fewer searches only.
LEMMA StepLocal ==
  ASSUME NEW fit \in Nat, NEW f, NEW g, NEW s \in Nat,
         \A u \in 0..(s - 1) : f[u] = g[u],
         \A u \in 0..(s - 1) : \A k \in 0..(Last + 1) : f[u][k] \in Answers(k, u)
  PROVE  SearchStep(fit, f, s) = SearchStep(fit, g, s)
<1>1. ASSUME NEW n \in 0..(Last + 1), s > 0, n > 1 PROVE Halves(f, s, n) = Halves(g, s, n)
  <2> DEFINE h == n \div 2
  <2>1. h \in 0..(Last + 1)
    BY <1>1, CollectionAssumption
  <2> HIDE DEF h
  <2>2. s - 1 \in 0..(s - 1) /\ f[s - 1] = g[s - 1]
    BY <1>1
  <2>3. f[s - 1][h] \in Answers(h, s - 1)
    BY <2>1, <2>2
  <2>4. f[s - 1][h].left \in 0..(s - 1)
    BY <2>3 DEF Answers
  <2>5. f[f[s - 1][h].left] = g[f[s - 1][h].left]
    BY <2>4
  <2> QED BY <2>2, <2>5 DEF Halves, h
<1>2. ASSUME NEW n \in 0..(Last + 1)
      PROVE  (IF s = 0 THEN [done |-> 0, left |-> 0, capped |-> TRUE, cuts |-> {}]
              ELSE IF n <= 1 \/ n <= fit
              THEN [done |-> n, left |-> s - 1, capped |-> FALSE, cuts |-> {0}]
              ELSE Halves(f, s, n))
             = (IF s = 0 THEN [done |-> 0, left |-> 0, capped |-> TRUE, cuts |-> {}]
                ELSE IF n <= 1 \/ n <= fit
                THEN [done |-> n, left |-> s - 1, capped |-> FALSE, cuts |-> {0}]
                ELSE Halves(g, s, n))
  <2>1. CASE s = 0 \/ n <= 1
    BY <2>1
  <2>2. CASE s # 0 /\ ~(n <= 1)
    <3>1. Halves(f, s, n) = Halves(g, s, n)
      BY <1>1, <2>2
    <3> QED BY <3>1
  <2> QED BY <2>1, <2>2
<1> QED BY <1>2 DEF SearchStep

LEMMA SearchesExist ==
  ASSUME NEW fit \in Nat, NEW m \in Nat
  PROVE  \E f : Searches(fit, f, m)
<1> DEFINE T == {k \in Nat : ~\E f : Searches(fit, f, k)}
<1>1. T = {}
  <2> SUFFICES ASSUME T # {} PROVE FALSE
    OBVIOUS
  <2>1. PICK b \in T : \A k \in T : b <= k
    <3>1. T \subseteq Nat
      OBVIOUS
    <3> HIDE DEF T
    <3> QED BY <3>1, LeastElement
  <2>2. b \in Nat /\ ~\E f : Searches(fit, f, b)
    BY <2>1
  <2>3. PICK f : /\ \A u \in 0..(b - 1) : f[u] = SearchStep(fit, f, u)
                 /\ \A u \in 0..(b - 1) : \A n \in 0..(Last + 1) : f[u][n] \in Answers(n, u)
    <3>1. CASE b = 0
      <4>1. 0..(b - 1) = {}
        BY <3>1
      <4> QED BY <4>1
    <3>2. CASE b # 0
      <4>1. b - 1 \in Nat /\ b - 1 \notin T
        BY <2>1, <2>2, <3>2
      <4>2. PICK f : Searches(fit, f, b - 1)
        BY <4>1
      <4>3. f = [s \in 0..(b - 1) |-> SearchStep(fit, f, s)]
        BY <4>2 DEF Searches
      <4>4. \A u \in 0..(b - 1) : f[u] = SearchStep(fit, f, u)
        BY <4>3, Zenon
      <4> QED BY <4>2, <4>4 DEF Searches
    <3> QED BY <3>1, <3>2
  <2> DEFINE g == [s \in 0..b |-> IF s < b THEN f[s] ELSE SearchStep(fit, f, b)]
  <2>4. \A u \in 0..(b - 1) : g[u] = f[u]
    BY <2>2
  <2>5. g[b] = SearchStep(fit, f, b)
    BY <2>2
  <2>6. DOMAIN g = 0..b /\ g = [s \in 0..b |-> g[s]]
    OBVIOUS
  <2> HIDE DEF g
  <2>7. ASSUME NEW s \in 0..b PROVE g[s] = SearchStep(fit, g, s)
    <3>1. \A u \in 0..(s - 1) : u \in 0..(b - 1)
      BY <2>2
    <3>2. SearchStep(fit, f, s) = SearchStep(fit, g, s)
      <4>1. \A u \in 0..(s - 1) : f[u] = g[u]
        BY <2>4, <3>1
      <4>2. \A u \in 0..(s - 1) : \A k \in 0..(Last + 1) : f[u][k] \in Answers(k, u)
        BY <2>3, <3>1
      <4>3. s \in Nat
        OBVIOUS
      <4> QED BY <4>1, <4>2, <4>3, StepLocal
    <3>3. CASE s = b
      BY <2>5, <3>2, <3>3
    <3>4. CASE s # b
      <4>1. s \in 0..(b - 1)
        BY <2>2, <3>4
      <4> QED BY <2>3, <2>4, <3>2, <4>1
    <3> QED BY <3>3, <3>4
  <2>8. ASSUME NEW s \in 0..b, NEW n \in 0..(Last + 1) PROVE g[s][n] \in Answers(n, s)
    <3>1. CASE s = b
      <4>1. SearchStep(fit, f, b)[n] \in Answers(n, b)
        BY <2>2, <2>3, StepAnswers
      <4> QED BY <2>5, <3>1, <4>1
    <3>2. CASE s # b
      <4>1. s \in 0..(b - 1)
        BY <2>2, <3>2
      <4> QED BY <2>3, <2>4, <4>1
    <3> QED BY <3>1, <3>2
  <2>9. g = [s \in 0..b |-> SearchStep(fit, g, s)]
    BY <2>6, <2>7
  <2>10. Searches(fit, g, b)
    BY <2>8, <2>9 DEF Searches
  <2> QED BY <2>2, <2>10
<1> QED BY <1>1

\* _search_window completes a prefix of its window, and a failed search leaves one.
LEMMA SearchWindowBounds ==
  ASSUME NEW fit \in Nat, NEW n \in 0..(Last + 1)
  PROVE  /\ SearchWindow(fit)[n].done \in 0..n
         /\ SearchWindow(fit)[n].cuts \subseteq 0..n
<1> DEFINE W == CHOOSE f : f = [s \in 0..MaxSearches |-> SearchStep(fit, f, s)]
           T == {s \in Nat : s <= MaxSearches /\ ~\A k \in 0..(Last + 1) : W[s][k] \in Answers(k, s)}
<1>1. SearchWindow(fit) = W[MaxSearches]
  BY DEF SearchWindow, SearchStep, Halves
<1>2. \A s \in 0..MaxSearches : W[s] = SearchStep(fit, W, s)
  <2>1. \E f : f = [s \in 0..MaxSearches |-> SearchStep(fit, f, s)]
    <3>1. PICK f : Searches(fit, f, MaxSearches)
      BY SearchesExist, CollectionAssumption
    <3>2. f = [s \in 0..MaxSearches |-> SearchStep(fit, f, s)]
      BY <3>1 DEF Searches
    <3> QED BY <3>2
  <2>2. W = [s \in 0..MaxSearches |-> SearchStep(fit, W, s)]
    BY <2>1
  <2> HIDE DEF W
  <2> QED BY <2>2, Zenon
<1> HIDE DEF W
<1>3. T = {}
  <2> SUFFICES ASSUME T # {} PROVE FALSE
    OBVIOUS
  <2>1. PICK b \in T : \A k \in T : b <= k
    <3>1. T \subseteq Nat
      OBVIOUS
    <3> HIDE DEF T
    <3> QED BY <3>1, LeastElement
  <2>2. b \in Nat /\ b <= MaxSearches /\ MaxSearches \in Nat
    BY <2>1, CollectionAssumption
  <2>3. \A u \in 0..(b - 1) : \A k \in 0..(Last + 1) : W[u][k] \in Answers(k, u)
    <3> SUFFICES ASSUME NEW u \in 0..(b - 1)
                 PROVE  \A k \in 0..(Last + 1) : W[u][k] \in Answers(k, u)
      OBVIOUS
    <3>1. u \in Nat /\ u <= MaxSearches /\ ~(b <= u)
      BY <2>2
    <3>2. u \notin T
      BY <2>1, <3>1
    <3> QED BY <3>1, <3>2
  <2>4. \A k \in 0..(Last + 1) : SearchStep(fit, W, b)[k] \in Answers(k, b)
    BY <2>2, <2>3, StepAnswers
  <2>5. W[b] = SearchStep(fit, W, b)
    BY <1>2, <2>2
  <2> QED BY <2>1, <2>4, <2>5
<1>4. W[MaxSearches][n] \in Answers(n, MaxSearches)
  BY <1>3, CollectionAssumption
<1> QED BY <1>1, <1>4 DEF Answers

-----------------------------------------------------------------------------
(* The other operators.                                                    *)

LEMMA Consts ==
  /\ Last \in Nat /\ Period \in Nat /\ Period > 0 /\ Backfill \in Nat /\ Early \in Nat
  /\ Oldest \in Nat /\ Never \in Nat /\ Never = Oldest + 1 /\ Oldest >= Period
  /\ None \notin Tasks /\ Absent \notin Nat /\ Buckets \subseteq Nat /\ MaxFaults \in Nat
BY CollectionAssumption DEF Oldest, Never, Absent, Buckets

LEMMA ConsolesType == Consoles \in Seq(Names)
<1>1. Consoles \in Seq(STRING) /\ Consoles \in [1..Len(Consoles) -> STRING]
  BY CollectionAssumption
<1>2. Consoles \in [1..Len(Consoles) -> Names]
  BY <1>1 DEF Names
<1> QED BY <1>1, <1>2

LEMMA NoTaskType == NoTask \in TaskRecords /\ NoTask.done = 0 /\ Len(NoTask.window) = 0
<1>1. Never \in 0..Never /\ 0 \in 0..(Last + 1)
  BY Consts
<1> QED BY <1>1 DEF NoTask, TaskRecords, Steps

\* _intervals_to_collect returns the buckets that follow what it has seen.
LEMMA IntervalsFollow ==
  ASSUME NEW seen \in {Absent} \cup Buckets, NEW edge \in 1..(Last + 1), NEW limit \in Nat
  PROVE  LET w == IntervalsToCollect(seen, edge, limit) IN
           /\ w \in Seq(Buckets) /\ Len(w) <= Last + 1
           /\ seen = Absent => Len(w) = 1
           /\ seen # Absent => \A i \in 1..Len(w) : w[i] = seen + i
<1> DEFINE w == IntervalsToCollect(seen, edge, limit)
<1>1. CASE seen = Absent
  <2>1. w = <<edge - 1>> /\ edge - 1 \in Buckets
    BY <1>1, Consts DEF IntervalsToCollect, Buckets
  <2> QED BY <1>1, <2>1, Consts
<1>2. CASE seen # Absent
  <2> DEFINE k == IF edge - 1 - seen < limit THEN edge - 1 - seen ELSE limit
             j == IF k < 0 THEN 0 ELSE k
  <2>1. seen \in 0..Last /\ Last \in Nat
    BY <1>2, Consts DEF Buckets
  <2>2. k \in Int /\ k <= edge - 1 - seen
    BY <2>1
  <2>3. w = [i \in 1..k |-> seen + i]
    BY <1>2 DEF IntervalsToCollect
  <2> HIDE DEF w, k
  <2>4. j \in Nat /\ j <= Last /\ 1..k = 1..j /\ \A i \in 1..j : seen + i \in 0..Last
    BY <2>1, <2>2
  <2> HIDE DEF j
  <2>5. w = [i \in 1..j |-> seen + i]
    BY <2>3, <2>4
  <2>6. w \in Seq(Buckets) /\ Len(w) = j
    BY <2>4, <2>5 DEF Buckets
  <2>7. \A i \in 1..Len(w) : w[i] = seen + i
    BY <2>4, <2>5, <2>6
  <2>8. Len(w) <= Last + 1
    BY <2>1, <2>4, <2>6
  <2> QED BY <1>2, <2>6, <2>7, <2>8 DEF w
<1> QED BY <1>1, <1>2

\* An interval that ends beside a stored bucket leaves no hole.
LEMMA UnbrokenGrows ==
  ASSUME NEW S \in SUBSET Buckets, Unbroken(S), NEW x \in S, NEW d \in Nat,
         NEW N, N = {x + i : i \in 1..d}
  PROVE  Unbroken(S \cup N)
<1>1. S \subseteq Nat /\ x \in Nat
  BY Consts
<1>2. \A y \in Nat : y \in N <=> x < y /\ y <= x + d
  <2> TAKE y \in Nat
  <2>1. ASSUME x < y, y <= x + d PROVE y \in N
    <3>1. y - x \in 1..d /\ y = x + (y - x)
      BY <1>1, <2>1
    <3> QED BY <3>1
  <2> QED BY <1>1, <2>1
<1>3. N \subseteq Nat
  BY <1>1
<1> SUFFICES ASSUME NEW a \in S \cup N, NEW b \in S \cup N, NEW y \in a..b
             PROVE  y \in S \cup N
  BY DEF Unbroken
<1>4. a \in Nat /\ b \in Nat /\ y \in Nat /\ a <= y /\ y <= b
  BY <1>1, <1>3
<1>5. CASE x < y /\ y <= x + d
  BY <1>2, <1>4, <1>5
<1>6. CASE y <= x
  <2>1. a \in S
    BY <1>1, <1>2, <1>4, <1>6
  <2>2. y \in a..x
    BY <1>1, <1>4, <1>6
  <2> QED BY <2>1, <2>2 DEF Unbroken
<1>7. CASE x + d < y
  <2>1. b \in S
    BY <1>1, <1>2, <1>4, <1>7
  <2>2. y \in x..b
    BY <1>1, <1>4, <1>7
  <2> QED BY <2>1, <2>2 DEF Unbroken
<1> QED BY <1>1, <1>4, <1>5, <1>6, <1>7

-----------------------------------------------------------------------------
(* The invariant.                                                          *)

LEMMA InitInv == Init => IInv
<1> SUFFICES ASSUME Init PROVE IInv
  OBVIOUS
<1>1. Typed
  BY Consts, NoTaskType DEF Init, Typed
<1>2. \A t \in Tasks : task[t] = NoTask
  BY DEF Init
<1>3. SlotsBehind /\ SlotOnce
  BY <1>2 DEF NoTask, SlotsBehind, SlotOnce, Claimed
<1>4. TasksSound
  <2>1. NoTask.pc = "idle" /\ NoTask.done <= Len(NoTask.window) /\ Len(NoTask.window) <= Last + 1
    BY Consts, NoTaskType DEF NoTask
  <2> QED BY <1>2, <2>1, NoTaskType DEF TasksSound, Sound, InPass
<1>5. Anchored /\ \A c \in Names : Unbroken(rows[c])
  BY DEF Init, Anchored, Unbroken
<1> QED BY <1>1, <1>3, <1>4, <1>5 DEF IInv

\* A task's record stays sound while others store buckets and take other rows.
LEMMA SoundMonotone ==
  ASSUME NEW k \in TaskRecords, NEW t, NEW m, NEW r, NEW w, NEW n, NEW s, NEW v,
         Sound(k, t, m, r, w),
         \A c \in Names : r[c] \subseteq s[c],
         \A c \in Names : w[c] = t => v[c] = t /\ n[c] = m[c]
  PROVE  Sound(k, t, n, s, v)
<1>1. k.todo # <<>> => Head(k.todo) \in Names
  BY DEF TaskRecords
<1> QED BY <1>1 DEF Sound, InPass, Inserted

\* What one step of task t leaves to show, when it claims nothing.
LEMMA StepInv ==
  ASSUME IInv, NEW t \in Tasks, NEW new \in TaskRecords,
         task' = [task EXCEPT ![t] = new],
         new.pc \notin {"idle", "claim"} => Claimed(t) /\ new.slot = task[t].slot,
         UNCHANGED <<closed, phase, cadence, since>>,
         Sound(new, t, mark', rows', writer'),
         mark' \in [Names -> {Absent} \cup Buckets],
         rows' \in [Names -> SUBSET Buckets],
         lock' \in [Names -> Tasks \cup {None}],
         writer' \in [Names -> Tasks \cup {None}],
         faults' \in 0..MaxFaults,
         \A c \in Names : rows[c] \subseteq rows'[c],
         \A u \in Tasks \ {t} : \A c \in Names :
           writer[c] = u => writer'[c] = u /\ mark'[c] = mark[c],
         Anchored', \A c \in Names : Unbroken(rows'[c])
  PROVE  IInv'
<1>1. Typed /\ task \in [Tasks -> TaskRecords]
  BY DEF IInv, Typed
<1>2. /\ task' \in [Tasks -> TaskRecords] /\ task'[t] = new
      /\ \A u \in Tasks \ {t} : task'[u] = task[u]
  BY <1>1
<1>3. Typed'
  BY <1>1, <1>2 DEF Typed
<1>4. \A u \in Tasks : Claimed(u)' => Claimed(u) /\ task'[u].slot = task[u].slot
  BY <1>2 DEF Claimed
<1>5. SlotsBehind'
  BY <1>4 DEF IInv, SlotsBehind
<1>6. SlotOnce'
  BY <1>4 DEF IInv, SlotOnce, Claimed
<1>7. TasksSound'
  <2> SUFFICES ASSUME NEW u \in Tasks PROVE Sound(task'[u], u, mark', rows', writer')
    BY DEF TasksSound
  <2>1. CASE u = t
    BY <1>2, <2>1
  <2>2. CASE u # t
    <3>1. task[u] \in TaskRecords /\ Sound(task[u], u, mark, rows, writer)
      BY <1>1 DEF IInv, TasksSound
    <3>2. \A c \in Names : writer[c] = u => writer'[c] = u /\ mark'[c] = mark[c]
      BY <2>2
    <3>3. Sound(task[u], u, mark', rows', writer')
      BY <3>1, <3>2, SoundMonotone
    <3> QED BY <1>2, <2>2, <3>3
  <2> QED BY <2>1, <2>2
<1> QED BY <1>3, <1>5, <1>6, <1>7 DEF IInv

\* The same for a step that commits nothing.
LEMMA QuietInv ==
  ASSUME IInv, NEW t \in Tasks, NEW new \in TaskRecords,
         task' = [task EXCEPT ![t] = new],
         new.pc \notin {"idle", "claim"} => Claimed(t) /\ new.slot = task[t].slot,
         UNCHANGED <<closed, phase, cadence, since, mark, rows>>,
         Sound(new, t, mark, rows, writer'),
         lock' \in [Names -> Tasks \cup {None}],
         writer' \in [Names -> Tasks \cup {None}],
         faults' \in 0..MaxFaults,
         \A u \in Tasks \ {t} : \A c \in Names : writer[c] = u => writer'[c] = u
  PROVE  IInv'
<1>1. /\ mark' \in [Names -> {Absent} \cup Buckets] /\ rows' \in [Names -> SUBSET Buckets]
      /\ \A c \in Names : rows[c] \subseteq rows'[c]
      /\ \A c \in Names : mark'[c] = mark[c]
      /\ Anchored' /\ \A c \in Names : Unbroken(rows'[c])
  BY DEF IInv, Typed, Anchored
<1>2. Sound(new, t, mark', rows', writer')
  OBVIOUS
<1> QED BY <1>1, <1>2, StepInv

\* The parts of the invariant that the steps of one task use.
LEMMA TaskFacts ==
  ASSUME IInv, NEW t \in Tasks
  PROVE  /\ task[t] \in TaskRecords /\ Sound(task[t], t, mark, rows, writer)
         /\ task \in [Tasks -> TaskRecords]
         /\ lock \in [Names -> Tasks \cup {None}] /\ writer \in [Names -> Tasks \cup {None}]
         /\ mark \in [Names -> {Absent} \cup Buckets] /\ rows \in [Names -> SUBSET Buckets]
         /\ faults \in 0..MaxFaults /\ (Fault => faults' \in 0..MaxFaults)
         /\ task[t].todo # <<>> => Console(t) \in Names
<1>1. /\ task \in [Tasks -> TaskRecords] /\ TasksSound
      /\ lock \in [Names -> Tasks \cup {None}] /\ writer \in [Names -> Tasks \cup {None}]
      /\ mark \in [Names -> {Absent} \cup Buckets] /\ rows \in [Names -> SUBSET Buckets]
      /\ faults \in 0..MaxFaults
  BY DEF IInv, Typed
<1>2. Fault => faults' \in 0..MaxFaults
  BY <1>1, Consts DEF Fault
<1>3. task[t].todo # <<>> => Console(t) \in Names
  BY <1>1 DEF Console, TaskRecords
<1> QED BY <1>1, <1>2, <1>3 DEF TasksSound

\* The record of a task that has ended or turned to its next console.
LEMMA RestSound ==
  ASSUME NEW k, k.pc \in {"idle", "claim", "next"}, k.done = 0, Len(k.window) = 0,
         NEW t, NEW m, NEW r, NEW w
  PROVE  Sound(k, t, m, r, w)
BY Consts DEF Sound, InPass

\* The end of a transaction that commits nothing: the row lock is given back.
LEMMA ProceedFacts ==
  ASSUME IInv, NEW t \in Tasks, Claimed(t), task[t].todo # <<>>, Proceed(t)
  PROVE  \E new \in TaskRecords :
           /\ task' = [task EXCEPT ![t] = new]
           /\ new.pc = "next" /\ new.slot = task[t].slot /\ new.done = 0 /\ Len(new.window) = 0
           /\ writer' \in [Names -> Tasks \cup {None}]
           /\ \A u \in Tasks \ {t} : \A c \in Names : writer[c] = u => writer'[c] = u
<1> DEFINE new == [NoTask EXCEPT !.pc = "next", !.slot = task[t].slot,
                                 !.todo = Tail(task[t].todo)]
<1>1. task[t] \in TaskRecords /\ writer \in [Names -> Tasks \cup {None}]
  BY TaskFacts
<1>2. Tail(task[t].todo) \in Seq(Names) /\ task[t].slot \in 0..Never
  BY <1>1 DEF TaskRecords
<1>3. /\ new \in TaskRecords /\ new.pc = "next" /\ new.slot = task[t].slot
      /\ new.done = 0 /\ Len(new.window) = 0
  BY <1>2, NoTaskType DEF TaskRecords, NoTask, Steps
<1>4. /\ task' = [task EXCEPT ![t] = new]
      /\ writer' = [c \in Names |-> IF writer[c] = t THEN None ELSE writer[c]]
  BY DEF Proceed
<1> HIDE DEF new
<1>5. /\ writer' \in [Names -> Tasks \cup {None}]
      /\ \A u \in Tasks \ {t} : \A c \in Names : writer[c] = u => writer'[c] = u
  BY <1>1, <1>4
<1> QED BY <1>3, <1>4, <1>5

LEMMA ProceedInv ==
  ASSUME IInv, NEW t \in Tasks, Claimed(t), task[t].todo # <<>>, Proceed(t),
         UNCHANGED <<closed, phase, cadence, since, mark, rows>>,
         lock' \in [Names -> Tasks \cup {None}], faults' \in 0..MaxFaults
  PROVE  IInv'
<1>1. PICK new \in TaskRecords :
           /\ task' = [task EXCEPT ![t] = new]
           /\ new.pc = "next" /\ new.slot = task[t].slot /\ new.done = 0 /\ Len(new.window) = 0
           /\ writer' \in [Names -> Tasks \cup {None}]
           /\ \A u \in Tasks \ {t} : \A c \in Names : writer[c] = u => writer'[c] = u
  BY ProceedFacts
<1>2. Sound(new, t, mark, rows, writer')
  BY <1>1, RestSound
<1> QED BY <1>1, <1>2, QuietInv

-----------------------------------------------------------------------------
(* The clock and the slot.                                                 *)

LEMMA TickInv == ASSUME IInv, Tick PROVE IInv'
<1>1. /\ Typed /\ task \in [Tasks -> TaskRecords] /\ since \in 0..Never
      /\ closed \in 1..(Last + 1) /\ phase \in 0..(Period - 1)
  BY DEF IInv, Typed
<1>2. \A d \in 0..Never : Older(d) \in 0..Never
  BY Consts DEF Older
<1>3. \A d, e \in 0..Never : d >= e => Older(d) >= Older(e)
  BY Consts DEF Older
<1>4. \A d, e \in 0..Never : Older(d) = Older(e) => d = e \/ Older(d) = Never
  BY Consts DEF Older
<1>5. \A t \in Tasks : /\ task[t] \in TaskRecords /\ task[t].slot \in 0..Never
                       /\ task'[t] = [task[t] EXCEPT !.slot = Older(task[t].slot)]
  BY <1>1 DEF Tick, TaskRecords
<1>6. \A t \in Tasks :
        /\ task'[t] \in TaskRecords /\ task'[t].slot = Older(task[t].slot)
        /\ task'[t].pc = task[t].pc /\ task'[t].todo = task[t].todo
        /\ task'[t].seen = task[t].seen /\ task'[t].window = task[t].window
        /\ task'[t].done = task[t].done /\ task'[t].boundary = task[t].boundary
  <2> TAKE t \in Tasks
  <2>1. Older(task[t].slot) \in 0..Never
    BY <1>2, <1>5
  <2> QED BY <1>5, <2>1 DEF TaskRecords
<1>7. closed' \in 1..(Last + 1)
  BY <1>1, Consts DEF Tick
<1>8. phase' \in 0..(Period - 1)
  <2>1. phase + 1 \in Int /\ Period \in Int /\ Period > 0
    BY <1>1, Consts
  <2>2. (phase + 1) % Period \in 0..(Period - 1)
    BY <2>1, Z3
  <2> QED BY <2>2 DEF Tick
<1>9. task' \in [Tasks -> TaskRecords]
  BY <1>6 DEF Tick
<1>10. Typed'
  BY <1>1, <1>2, <1>7, <1>8, <1>9 DEF Typed, Tick
<1>11. SlotsBehind'
  <2>1. since' = Older(since)
    BY DEF Tick
  <2> SUFFICES ASSUME NEW t \in Tasks, Claimed(t)' PROVE task'[t].slot >= since'
    BY DEF SlotsBehind
  <2>2. task[t].slot >= since /\ task[t].slot \in 0..Never
    BY <1>5, <1>6 DEF IInv, SlotsBehind, Claimed
  <2>3. Older(task[t].slot) >= Older(since)
    BY <1>1, <1>3, <2>2
  <2> QED BY <1>6, <2>1, <2>3
<1>12. SlotOnce'
  <2> SUFFICES ASSUME NEW t \in Tasks, NEW u \in Tasks, Claimed(t)', Claimed(u)',
                      task'[t].slot = task'[u].slot
               PROVE  t = u \/ task'[t].slot = Never
    BY DEF SlotOnce, Claimed
  <2>1. Claimed(t) /\ Claimed(u)
    BY <1>6 DEF Claimed
  <2>2. CASE task[t].slot = task[u].slot
    <3>1. t = u \/ task[t].slot = Never
      BY <2>1, <2>2 DEF IInv, SlotOnce, Claimed
    <3> QED BY <1>6, <3>1 DEF Older
  <2>3. CASE task[t].slot # task[u].slot
    <3>1. task[t].slot \in 0..Never /\ task[u].slot \in 0..Never
      BY <1>5
    <3>2. Older(task[t].slot) = Older(task[u].slot)
      BY <1>6
    <3>3. Older(task[t].slot) = Never
      BY <1>4, <2>3, <3>1, <3>2
    <3> QED BY <1>6, <3>3
  <2> QED BY <2>2, <2>3
<1>13. TasksSound'
  <2> SUFFICES ASSUME NEW t \in Tasks PROVE Sound(task'[t], t, mark, rows, writer)
    BY DEF TasksSound, Tick
  <2>1. Sound(task[t], t, mark, rows, writer)
    BY DEF IInv, TasksSound
  <2> QED BY <1>6, <2>1 DEF Sound, InPass, Inserted
<1> QED BY <1>10, <1>11, <1>12, <1>13 DEF IInv, Anchored, Tick

LEMMA SetCadenceInv == ASSUME IInv, NEW c \in Cadences, SetCadence(c) PROVE IInv'
<1>1. Typed'
  BY DEF IInv, Typed, SetCadence
<1> QED BY <1>1 DEF IInv, SetCadence, SlotsBehind, SlotOnce, Claimed, TasksSound, Anchored

LEMMA ReadCadenceInv == ASSUME IInv, NEW t \in Tasks, ReadCadence(t) PROVE IInv'
<1> DEFINE new == [task[t] EXCEPT !.pc = "claim", !.slot = SlotStart(cadence)]
<1>1. SlotStart(cadence) \in 0..Never
  <2>1. cadence \in 1..Period /\ phase \in Int
    BY CollectionAssumption DEF IInv, Typed
  <2>2. phase % cadence \in 0..(cadence - 1)
    BY <2>1, Consts, Z3
  <2>3. 0..(cadence - 1) \subseteq 0..Never
    BY <2>1, Consts
  <2> QED BY <2>2, <2>3 DEF SlotStart
<1>2. task[t] \in TaskRecords /\ Sound(task[t], t, mark, rows, writer)
  BY TaskFacts
<1>3. /\ new \in TaskRecords /\ new.pc = "claim" /\ new.done = task[t].done
      /\ new.window = task[t].window
  BY <1>1, <1>2 DEF TaskRecords, Steps
<1>4. task' = [task EXCEPT ![t] = new]
  BY DEF ReadCadence, IInv, Typed
<1> HIDE DEF new
<1>5. Sound(new, t, mark, rows, writer)
  <2>1. task[t].pc = "idle"
    BY DEF ReadCadence
  <2> QED BY <1>2, <1>3, <2>1 DEF Sound, InPass
<1> QED BY <1>3, <1>4, <1>5, TaskFacts, QuietInv DEF ReadCadence

LEMMA ClaimInv == ASSUME IInv, NEW t \in Tasks, Claim(t) PROVE IInv'
<1>1. /\ Typed /\ task \in [Tasks -> TaskRecords] /\ since \in 0..Never
      /\ task[t] \in TaskRecords /\ Sound(task[t], t, mark, rows, writer)
      /\ task[t].slot \in 0..Never
  BY TaskFacts DEF IInv, Typed, TaskRecords
<1>2. UNCHANGED <<closed, phase, cadence, mark, rows, lock, writer, faults>>
  BY DEF Claim
<1>3. CASE UNCHANGED since /\ task' = [task EXCEPT ![t] = NoTask]
  <2>1. NoTask.pc = "idle"
    BY DEF NoTask
  <2>2. Sound(NoTask, t, mark, rows, writer)
    BY <2>1, NoTaskType, RestSound
  <2> QED BY <1>2, <1>3, <2>1, <2>2, NoTaskType, TaskFacts, QuietInv
<1>4. CASE /\ Newer(task[t].slot) /\ since' = task[t].slot
           /\ task' = [task EXCEPT ![t].pc = "next", ![t].todo = Consoles]
  <2> DEFINE new == [task[t] EXCEPT !.pc = "next", !.todo = Consoles]
  <2>1. /\ new \in TaskRecords /\ new.pc = "next" /\ new.slot = task[t].slot
        /\ new.done = task[t].done /\ new.window = task[t].window
    BY <1>1, ConsolesType DEF TaskRecords, Steps
  <2>2. task' = [task EXCEPT ![t] = new]
    BY <1>1, <1>4
  <2> HIDE DEF new
  <2>3. /\ task' \in [Tasks -> TaskRecords] /\ task'[t] = new
        /\ \A u \in Tasks \ {t} : task'[u] = task[u]
    BY <1>1, <2>1, <2>2
  <2>4. Typed'
    BY <1>1, <1>2, <1>4, <2>3 DEF Typed
  <2>5. \A u \in Tasks \ {t} : Claimed(u)' => task'[u].slot >= since /\ task'[u].slot \in 0..Never
    BY <1>1, <2>3 DEF IInv, SlotsBehind, Claimed, TaskRecords
  <2>6. since > since' /\ since' \in 0..Never /\ task'[t].slot = since'
    BY <1>1, <1>4, <2>1, <2>3 DEF Newer
  <2>7. SlotsBehind'
    BY <1>1, <2>5, <2>6 DEF SlotsBehind
  <2>8. SlotOnce'
    <3> SUFFICES ASSUME NEW u \in Tasks, NEW v \in Tasks, Claimed(u)', Claimed(v)',
                        task'[u].slot = task'[v].slot
                 PROVE  u = v \/ task'[u].slot = Never
      BY DEF SlotOnce, Claimed
    <3>1. CASE u = t /\ v # t
      BY <1>1, <2>5, <2>6, <3>1
    <3>2. CASE v = t /\ u # t
      BY <1>1, <2>5, <2>6, <3>2
    <3>3. CASE u # t /\ v # t
      BY <2>3, <3>3 DEF IInv, SlotOnce, Claimed
    <3> QED BY <3>1, <3>2, <3>3
  <2>9. TasksSound'
    <3> SUFFICES ASSUME NEW u \in Tasks PROVE Sound(task'[u], u, mark, rows, writer)
      BY <1>2 DEF TasksSound
    <3>1. CASE u = t
      <4>1. task[t].pc = "claim"
        BY DEF Claim
      <4> QED BY <1>1, <2>1, <2>3, <3>1, <4>1 DEF Sound, InPass
    <3>2. CASE u # t
      BY <2>3, <3>2 DEF IInv, TasksSound
    <3> QED BY <3>1, <3>2
  <2> QED BY <1>2, <2>4, <2>7, <2>8, <2>9 DEF IInv, Anchored
<1> QED BY <1>3, <1>4 DEF Claim

-----------------------------------------------------------------------------
(* One console.                                                            *)

LEMMA TakeTimeInv == ASSUME IInv, NEW t \in Tasks, TakeTime(t) PROVE IInv'
<1> DEFINE Edge(b) == IF b > Last THEN Last + 1 ELSE b
<1>1. /\ task[t] \in TaskRecords /\ Sound(task[t], t, mark, rows, writer)
      /\ task \in [Tasks -> TaskRecords] /\ lock \in [Names -> Tasks \cup {None}]
      /\ writer \in [Names -> Tasks \cup {None}] /\ faults \in 0..MaxFaults
  BY TaskFacts
<1>2. /\ task[t].pc = "next" /\ task[t].todo # <<>> /\ Claimed(t)
      /\ UNCHANGED <<closed, phase, cadence, since, mark, rows, lock, writer, faults>>
  BY DEF TakeTime, Claimed
<1>3. PICK b \in closed..(closed + Early) :
        task' = [task EXCEPT ![t].pc = "lock", ![t].boundary = Edge(b)]
  BY DEF TakeTime
<1>4. Edge(b) \in 1..(Last + 1)
  <2>1. closed \in 1..(Last + 1)
    BY DEF IInv, Typed
  <2> QED BY <2>1, Consts
<1> DEFINE edge == Edge(b)
           new == [task[t] EXCEPT !.pc = "lock", !.boundary = edge]
<1>5. task' = [task EXCEPT ![t] = new]
  BY <1>1, <1>3
<1>6. edge \in 0..(Last + 1) /\ edge # 0
  BY <1>4, Consts
<1> HIDE DEF Edge, edge
<1>7. /\ new \in TaskRecords /\ new.pc = "lock" /\ new.slot = task[t].slot
      /\ new.todo = task[t].todo /\ new.done = task[t].done
      /\ new.window = task[t].window /\ new.boundary = edge
  BY <1>1, <1>6 DEF TaskRecords, Steps
<1> HIDE DEF new
<1>8. Sound(new, t, mark, rows, writer)
  BY <1>1, <1>2, <1>6, <1>7 DEF Sound, InPass
<1> QED BY <1>1, <1>2, <1>5, <1>7, <1>8, QuietInv

LEMMA TryLockInv == ASSUME IInv, NEW t \in Tasks, TryLock(t) PROVE IInv'
<1>1. /\ task[t] \in TaskRecords /\ Sound(task[t], t, mark, rows, writer)
      /\ task \in [Tasks -> TaskRecords] /\ lock \in [Names -> Tasks \cup {None}]
      /\ writer \in [Names -> Tasks \cup {None}] /\ faults \in 0..MaxFaults
  BY TaskFacts
<1>2. /\ task[t].pc = "lock" /\ task[t].todo # <<>> /\ Claimed(t)
      /\ UNCHANGED <<closed, phase, cadence, since, mark, rows, faults>>
  BY <1>1 DEF TryLock, Claimed, Sound
<1>3. CASE Proceed(t) /\ UNCHANGED lock
  BY <1>1, <1>2, <1>3, ProceedInv
<1>4. CASE /\ lock' = [lock EXCEPT ![Console(t)] = t]
           /\ task' = [task EXCEPT ![t].pc = "read"]
           /\ UNCHANGED writer
  <2> DEFINE new == [task[t] EXCEPT !.pc = "read"]
  <2>1. /\ new \in TaskRecords /\ new.pc = "read" /\ new.slot = task[t].slot
        /\ new.todo = task[t].todo /\ new.done = task[t].done
        /\ new.window = task[t].window /\ new.boundary = task[t].boundary
    BY <1>1 DEF TaskRecords, Steps
  <2>2. task' = [task EXCEPT ![t] = new]
    BY <1>1, <1>4
  <2> HIDE DEF new
  <2>3. Sound(new, t, mark, rows, writer')
    BY <1>1, <1>2, <1>4, <2>1 DEF Sound, InPass
  <2>4. lock' \in [Names -> Tasks \cup {None}] /\ writer' = writer
    BY <1>1, <1>4
  <2> QED BY <1>1, <1>2, <2>1, <2>2, <2>3, <2>4, QuietInv
<1> QED BY <1>3, <1>4 DEF TryLock

LEMMA ReadInv == ASSUME IInv, NEW t \in Tasks, Read(t) PROVE IInv'
<1> DEFINE seen == mark[Console(t)]
           edge == task[t].boundary
<1>1. /\ task[t] \in TaskRecords /\ Sound(task[t], t, mark, rows, writer)
      /\ task \in [Tasks -> TaskRecords] /\ lock \in [Names -> Tasks \cup {None}]
      /\ writer \in [Names -> Tasks \cup {None}] /\ faults \in 0..MaxFaults
      /\ mark \in [Names -> {Absent} \cup Buckets]
  BY TaskFacts
<1>2. /\ task[t].pc = "read" /\ Claimed(t)
      /\ UNCHANGED <<closed, phase, cadence, since, mark, rows, lock, writer, faults>>
  BY DEF Read, Claimed
<1>3. task[t].todo # <<>> /\ Console(t) \in Names
  <2>1. task[t].todo # <<>>
    BY <1>1, <1>2 DEF Sound
  <2> QED BY <2>1, TaskFacts
<1>5. edge \in 1..(Last + 1) /\ cadence + Backfill \in Nat
  <2>1. cadence \in Nat
    BY CollectionAssumption DEF IInv, Typed
  <2>2. edge \in 0..(Last + 1) /\ edge # 0
    BY <1>1, <1>2 DEF TaskRecords, Sound
  <2> QED BY <2>1, <2>2, Consts
<1> DEFINE w == IntervalsToCollect(seen, edge, cadence + Backfill)
           pc == IF seen = Absent THEN "insert" ELSE "search"
           new == [task[t] EXCEPT !.pc = pc, !.boundary = 0, !.seen = seen, !.window = w]
<1>6. seen \in {Absent} \cup Buckets /\ (seen # Absent => seen \in rows[Console(t)])
  BY <1>1, <1>3 DEF IInv, Anchored
<1>7. /\ w \in Seq(Buckets) /\ Len(w) <= Last + 1 /\ (seen = Absent => Len(w) = 1)
      /\ seen # Absent => \A i \in 1..Len(w) : w[i] = seen + i
  <2> HIDE DEF seen, edge
  <2> QED BY <1>5, <1>6, IntervalsFollow
<1>8. task' = [task EXCEPT ![t] = new]
  BY <1>1 DEF Read
<1> HIDE DEF seen, w, edge
<1>9. /\ new \in TaskRecords /\ new.pc = pc /\ new.slot = task[t].slot
      /\ new.todo = task[t].todo /\ new.seen = seen /\ new.window = w /\ new.done = task[t].done
  <2>1. 0 \in 0..(Last + 1) /\ pc \in Steps
    BY Consts DEF Steps
  <2> HIDE DEF pc
  <2> QED BY <1>1, <1>6, <1>7, <2>1 DEF TaskRecords
<1>10. task[t].done = 0
  BY <1>1, <1>2 DEF Sound
<1> HIDE DEF new
<1>11. Sound(new, t, mark, rows, writer)
  <2>1. CASE seen = Absent
    <3>1. new.pc = "insert"
      BY <1>9, <2>1
    <3> QED BY <1>3, <1>7, <1>9, <1>10, <2>1, <3>1 DEF Sound, InPass, Inserted
  <2>2. CASE seen # Absent
    <3>1. new.pc = "search"
      BY <1>9, <2>2
    <3>2. Head(new.todo) = Console(t)
      BY <1>9 DEF Console
    <3> QED BY <1>3, <1>6, <1>7, <1>9, <1>10, <2>2, <3>1, <3>2 DEF Sound, InPass, Inserted
  <2> QED BY <2>1, <2>2
<1> QED BY <1>1, <1>2, <1>8, <1>9, <1>11, QuietInv

\* What the steps of a pass that stays on its console have in common.
LEMMA PassFacts ==
  ASSUME IInv, NEW t \in Tasks, task[t].pc \notin {"idle", "claim", "next"}
  PROVE  /\ Claimed(t) /\ task[t].todo # <<>> /\ Console(t) \in Names
         /\ Console(t) = Head(task[t].todo)
<1>1. Sound(task[t], t, mark, rows, writer)
  BY TaskFacts
<1>2. task[t].todo # <<>>
  BY <1>1 DEF Sound
<1> QED BY <1>2, TaskFacts DEF Claimed, Console

\* The record k after the pass of j went on to pc with d buckets completed.
Moved(k, j, pc, d) ==
  /\ k \in TaskRecords /\ k.pc = pc /\ k.done = d /\ k.slot = j.slot /\ k.todo = j.todo
  /\ k.seen = j.seen /\ k.window = j.window

\* A step within the pass, which commits nothing.
LEMMA MoveInv ==
  ASSUME IInv, NEW t \in Tasks, task[t].pc \notin {"idle", "claim", "next"},
         NEW pc \in Steps \ {"idle", "claim"}, NEW d \in Nat,
         task' = [task EXCEPT ![t] = [task[t] EXCEPT !.pc = pc, !.done = d]],
         UNCHANGED <<closed, phase, cadence, since, mark, rows>>,
         lock' \in [Names -> Tasks \cup {None}],
         writer' \in [Names -> Tasks \cup {None}],
         \A u \in Tasks \ {t} : \A c \in Names : writer[c] = u => writer'[c] = u,
         faults' \in 0..MaxFaults,
         \A k : Moved(k, task[t], pc, d) => Sound(k, t, mark, rows, writer')
  PROVE  IInv'
<1> DEFINE new == [task[t] EXCEPT !.pc = pc, !.done = d]
<1>1. task[t] \in TaskRecords /\ task' = [task EXCEPT ![t] = new]
  BY TaskFacts
<1>2. Moved(new, task[t], pc, d)
  <2>1. pc \in Steps
    OBVIOUS
  <2> QED BY <1>1, <2>1 DEF TaskRecords, Moved
<1> HIDE DEF new
<1>3. Claimed(t)
  BY PassFacts
<1>4. Sound(new, t, mark, rows, writer')
  BY <1>2
<1>5. new \in TaskRecords /\ new.slot = task[t].slot
  BY <1>2 DEF Moved
<1> QED BY <1>1, <1>3, <1>4, <1>5, QuietInv

\* A step that leaves the count of completed buckets.
LEMMA PlaceMoved ==
  ASSUME IInv, NEW t \in Tasks, NEW pc, task' = [task EXCEPT ![t].pc = pc]
  PROVE  task' = [task EXCEPT ![t] = [task[t] EXCEPT !.pc = pc, !.done = task[t].done]]
<1>1. task[t] \in TaskRecords /\ task \in [Tasks -> TaskRecords]
  BY TaskFacts
<1>2. [task[t] EXCEPT !.pc = pc] = [task[t] EXCEPT !.pc = pc, !.done = task[t].done]
  BY <1>1 DEF TaskRecords
<1>3. task' = [task EXCEPT ![t] = [task[t] EXCEPT !.pc = pc]]
  BY <1>1
<1> QED BY <1>2, <1>3

\* A task takes the row lock of a console that nobody else holds.
LEMMA TakeRow ==
  ASSUME IInv, NEW t \in Tasks, NEW c \in Names, writer[c] \in {None, t},
         writer' = [writer EXCEPT ![c] = t]
  PROVE  /\ writer' \in [Names -> Tasks \cup {None}] /\ writer'[c] = t
         /\ \A u \in Tasks \ {t} : \A e \in Names : writer[e] = u => writer'[e] = u
<1>1. writer \in [Names -> Tasks \cup {None}]
  BY TaskFacts
<1> QED BY <1>1, Consts

LEMMA InsertInv == ASSUME IInv, NEW t \in Tasks, Insert(t) PROVE IInv'
<1>1. /\ task[t] \in TaskRecords /\ Sound(task[t], t, mark, rows, writer)
      /\ lock \in [Names -> Tasks \cup {None}] /\ faults \in 0..MaxFaults
  BY TaskFacts
<1>2. /\ task[t].pc = "insert" /\ writer[Console(t)] = None
      /\ UNCHANGED <<closed, phase, cadence, since, mark, rows, lock, faults>>
  BY DEF Insert
<1>3. /\ Claimed(t) /\ task[t].todo # <<>> /\ Console(t) \in Names
      /\ Console(t) = Head(task[t].todo)
  BY <1>2, PassFacts
<1>4. CASE Proceed(t)
  BY <1>1, <1>2, <1>3, <1>4, ProceedInv
<1>5. CASE /\ mark[Console(t)] = Absent
           /\ writer' = [writer EXCEPT ![Console(t)] = t]
           /\ task' = [task EXCEPT ![t].pc = "search"]
  <2>1. task[t].done \in Nat /\ "search" \in Steps \ {"idle", "claim"}
    BY <1>1 DEF TaskRecords, Steps
  <2>2. task' = [task EXCEPT ![t] = [task[t] EXCEPT !.pc = "search", !.done = task[t].done]]
    BY <1>5, PlaceMoved
  <2>3. /\ writer' \in [Names -> Tasks \cup {None}] /\ writer'[Console(t)] = t
        /\ \A u \in Tasks \ {t} : \A c \in Names : writer[c] = u => writer'[c] = u
    BY <1>2, <1>3, <1>5, TakeRow
  <2>4. \A k : Moved(k, task[t], "search", task[t].done) => Sound(k, t, mark, rows, writer')
    BY <1>1, <1>2, <1>3, <1>5, <2>3 DEF Sound, InPass, Inserted, Moved
  <2> QED BY <1>1, <1>2, <2>1, <2>2, <2>3, <2>4, MoveInv
<1> QED BY <1>4, <1>5 DEF Insert, Unique

\* A search: d buckets of the window are completed.
LEMMA DoneInv ==
  ASSUME IInv, NEW t \in Tasks, task[t].pc = "search", NEW d \in 0..Len(task[t].window),
         task' = [task EXCEPT ![t].pc = "write", ![t].done = d],
         UNCHANGED <<closed, phase, cadence, since, mark, rows, lock, writer>>,
         faults' \in 0..MaxFaults
  PROVE  IInv'
<1>1. /\ task[t] \in TaskRecords /\ Sound(task[t], t, mark, rows, writer)
      /\ lock \in [Names -> Tasks \cup {None}] /\ writer \in [Names -> Tasks \cup {None}]
      /\ task \in [Tasks -> TaskRecords]
  BY TaskFacts
<1>2. d \in Nat /\ "write" \in Steps \ {"idle", "claim"}
  BY DEF Steps
<1>3. task' = [task EXCEPT ![t] = [task[t] EXCEPT !.pc = "write", !.done = d]]
  BY <1>1
<1>4. \A k : Moved(k, task[t], "write", d) => Sound(k, t, mark, rows, writer)
  <2>1. Len(task[t].window) \in Nat /\ d <= Len(task[t].window)
    BY <1>1 DEF TaskRecords
  <2> QED BY <1>1, <2>1 DEF Sound, InPass, Inserted, Moved
<1>5. writer' = writer /\ \A k : Moved(k, task[t], "write", d) => Sound(k, t, mark, rows, writer')
  BY <1>4
<1> QED BY <1>1, <1>2, <1>3, <1>5, MoveInv

LEMMA WindowFacts ==
  ASSUME IInv, NEW t \in Tasks, NEW fit \in Fits
  PROVE  /\ SearchWindow(fit)[Len(task[t].window)].done \in 0..Len(task[t].window)
         /\ SearchWindow(fit)[Len(task[t].window)].cuts \subseteq 0..Len(task[t].window)
<1>1. Len(task[t].window) \in 0..(Last + 1)
  <2>1. task[t].window \in Seq(Buckets)
    BY TaskFacts DEF TaskRecords
  <2>2. Len(task[t].window) <= Last + 1
    BY TaskFacts DEF Sound
  <2> QED BY <2>1, <2>2, Consts
<1>2. fit \in Nat
  BY CollectionAssumption
<1> QED BY <1>1, <1>2, SearchWindowBounds

LEMMA SearchInv == ASSUME IInv, NEW t \in Tasks, Search(t) PROVE IInv'
<1>1. /\ task[t].pc = "search" /\ faults \in 0..MaxFaults /\ faults' = faults
      /\ UNCHANGED <<closed, phase, cadence, since, mark, rows, lock, writer>>
  BY TaskFacts DEF Search
<1>2. PICK fit \in Fits :
        task' = [task EXCEPT ![t].pc = "write",
                   ![t].done = IF task[t].window = <<>> THEN 0
                               ELSE SearchWindow(fit)[Len(task[t].window)].done]
  BY DEF Search
<1> DEFINE d == IF task[t].window = <<>> THEN 0
                ELSE SearchWindow(fit)[Len(task[t].window)].done
<1>3. d \in 0..Len(task[t].window)
  <2>1. task[t].window \in Seq(Buckets)
    BY TaskFacts DEF TaskRecords
  <2> QED BY <2>1, WindowFacts
<1> HIDE DEF d
<1>4. task' = [task EXCEPT ![t].pc = "write", ![t].done = d]
  BY <1>2 DEF d
<1> QED BY <1>1, <1>3, <1>4, DoneInv

LEMMA SearchFailsInv == ASSUME IInv, NEW t \in Tasks, SearchFails(t) PROVE IInv'
<1>1. /\ task[t].pc = "search" /\ faults' \in 0..MaxFaults
      /\ UNCHANGED <<closed, phase, cadence, since, mark, rows, writer>>
  BY TaskFacts DEF SearchFails
<1> DEFINE Fails(n) == IF n > 0
                       THEN /\ task' = [task EXCEPT ![t].pc = "write", ![t].done = n]
                            /\ UNCHANGED lock
                       ELSE /\ task' = [task EXCEPT ![t].pc = "rollback"]
                            /\ lock' = [lock EXCEPT ![Console(t)] = None]
<1>a. PICK fit \in Fits : \E n \in SearchWindow(fit)[Len(task[t].window)].cuts : Fails(n)
  BY DEF SearchFails
<1>2. PICK n \in SearchWindow(fit)[Len(task[t].window)].cuts : Fails(n)
  BY <1>a
<1>3. CASE n > 0
  <2>1. n \in 0..Len(task[t].window)
    BY WindowFacts
  <2> QED BY <1>1, <1>2, <1>3, <2>1, DoneInv
<1>4. CASE ~(n > 0)
  <2>1. /\ task[t] \in TaskRecords /\ Sound(task[t], t, mark, rows, writer)
        /\ lock \in [Names -> Tasks \cup {None}] /\ writer \in [Names -> Tasks \cup {None}]
    BY TaskFacts
  <2>2. /\ task' = [task EXCEPT ![t].pc = "rollback"]
        /\ lock' = [lock EXCEPT ![Console(t)] = None]
    BY <1>2, <1>4
  <2>3. Console(t) \in Names
    BY <1>1, PassFacts
  <2>4. task' = [task EXCEPT ![t] = [task[t] EXCEPT !.pc = "rollback", !.done = task[t].done]]
    BY <2>2, PlaceMoved
  <2>5. task[t].done \in Nat /\ "rollback" \in Steps \ {"idle", "claim"}
    BY <2>1 DEF TaskRecords, Steps
  <2>6. /\ lock' \in [Names -> Tasks \cup {None}] /\ writer' = writer
        /\ writer' \in [Names -> Tasks \cup {None}]
    BY <1>1, <2>1, <2>2, <2>3
  <2>7. \A k : Moved(k, task[t], "rollback", task[t].done) => Sound(k, t, mark, rows, writer')
    BY <1>1, <2>1, <2>6 DEF Sound, InPass, Moved
  <2> QED BY <1>1, <2>4, <2>5, <2>6, <2>7, MoveInv
<1> QED BY <1>3, <1>4

LEMMA WriteInv == ASSUME IInv, NEW t \in Tasks, Write(t) PROVE IInv'
<1>1. /\ task[t] \in TaskRecords /\ Sound(task[t], t, mark, rows, writer)
      /\ lock \in [Names -> Tasks \cup {None}] /\ faults \in 0..MaxFaults
  BY TaskFacts
<1>2. /\ task[t].pc = "write" /\ writer[Console(t)] \in {None, t}
      /\ writer' = [writer EXCEPT ![Console(t)] = t]
      /\ UNCHANGED <<closed, phase, cadence, since, mark, rows, lock, faults>>
  BY DEF Write
<1>3. Console(t) \in Names /\ Console(t) = Head(task[t].todo)
  BY <1>2, PassFacts
<1>4. task' = [task EXCEPT ![t] = [task[t] EXCEPT !.pc = "unlock", !.done = task[t].done]]
  BY PlaceMoved DEF Write
<1>5. task[t].done \in Nat /\ "unlock" \in Steps \ {"idle", "claim"}
  BY <1>1 DEF TaskRecords, Steps
<1>6. /\ writer' \in [Names -> Tasks \cup {None}] /\ writer'[Console(t)] = t
      /\ \A u \in Tasks \ {t} : \A c \in Names : writer[c] = u => writer'[c] = u
  BY <1>2, <1>3, TakeRow
<1>7. \A k : Moved(k, task[t], "unlock", task[t].done) => Sound(k, t, mark, rows, writer')
  BY <1>1, <1>2, <1>3, <1>6 DEF Sound, InPass, Inserted, Moved
<1> QED BY <1>1, <1>2, <1>4, <1>5, <1>6, <1>7, MoveInv

LEMMA UnlockInv == ASSUME IInv, NEW t \in Tasks, Unlock(t) PROVE IInv'
<1>1. /\ task[t] \in TaskRecords /\ Sound(task[t], t, mark, rows, writer)
      /\ lock \in [Names -> Tasks \cup {None}] /\ writer \in [Names -> Tasks \cup {None}]
      /\ faults \in 0..MaxFaults
  BY TaskFacts
<1>2. /\ task[t].pc = "unlock" /\ lock' = [lock EXCEPT ![Console(t)] = None]
      /\ UNCHANGED <<closed, phase, cadence, since, mark, rows, writer, faults>>
  BY DEF Unlock
<1>3. Console(t) \in Names
  BY <1>2, PassFacts
<1>4. task' = [task EXCEPT ![t] = [task[t] EXCEPT !.pc = "commit", !.done = task[t].done]]
  BY PlaceMoved DEF Unlock
<1>5. task[t].done \in Nat /\ "commit" \in Steps \ {"idle", "claim"}
  BY <1>1 DEF TaskRecords, Steps
<1>6. /\ lock' \in [Names -> Tasks \cup {None}] /\ writer' = writer
      /\ writer' \in [Names -> Tasks \cup {None}]
  BY <1>1, <1>2, <1>3
<1>7. \A k : Moved(k, task[t], "commit", task[t].done) => Sound(k, t, mark, rows, writer')
  BY <1>1, <1>2, <1>6 DEF Sound, InPass, Inserted, Moved
<1> QED BY <1>1, <1>2, <1>4, <1>5, <1>6, <1>7, MoveInv

LEMMA RollbackInv == ASSUME IInv, NEW t \in Tasks, Rollback(t) PROVE IInv'
<1>1. /\ task[t].pc \in {"rollback", "commit"} /\ Proceed(t)
      /\ UNCHANGED <<closed, phase, cadence, since, mark, rows, lock>>
  BY DEF Rollback
<1>2. faults' \in 0..MaxFaults /\ lock' \in [Names -> Tasks \cup {None}]
  BY <1>1, TaskFacts DEF Rollback
<1>3. Claimed(t) /\ task[t].todo # <<>>
  BY <1>1, PassFacts
<1> QED BY <1>1, <1>2, <1>3, ProceedInv

LEMMA StatementFailsInv == ASSUME IInv, NEW t \in Tasks, StatementFails(t) PROVE IInv'
<1>1. /\ task[t].pc \in {"read", "insert", "write", "unlock"} /\ Proceed(t)
      /\ UNCHANGED <<closed, phase, cadence, since, mark, rows, lock>>
  BY DEF StatementFails
<1>2. faults' \in 0..MaxFaults /\ lock' \in [Names -> Tasks \cup {None}]
  BY <1>1, TaskFacts DEF StatementFails
<1>3. Claimed(t) /\ task[t].todo # <<>>
  BY <1>1, PassFacts
<1> QED BY <1>1, <1>2, <1>3, ProceedInv

\* The session of a task is gone, after its last console or in the middle of a pass.
LEMMA ClosedInv ==
  ASSUME IInv, NEW t \in Tasks, Closed(t), faults' \in 0..MaxFaults
  PROVE  IInv'
<1>1. lock \in [Names -> Tasks \cup {None}] /\ writer \in [Names -> Tasks \cup {None}]
  BY TaskFacts
<1>2. /\ task' = [task EXCEPT ![t] = NoTask]
      /\ UNCHANGED <<closed, phase, cadence, since, mark, rows>>
      /\ lock' = [c \in Names |-> IF lock[c] = t THEN None ELSE lock[c]]
      /\ writer' = [c \in Names |-> IF writer[c] = t THEN None ELSE writer[c]]
  BY DEF Closed
<1>3. /\ lock' \in [Names -> Tasks \cup {None}] /\ writer' \in [Names -> Tasks \cup {None}]
      /\ \A u \in Tasks \ {t} : \A c \in Names : writer[c] = u => writer'[c] = u
  BY <1>1, <1>2
<1>4. NoTask.pc = "idle"
  BY DEF NoTask
<1>5. Sound(NoTask, t, mark, rows, writer')
  BY <1>4, NoTaskType, RestSound
<1> QED BY <1>2, <1>3, <1>4, <1>5, NoTaskType, QuietInv

\* A commit appends to what is stored, or stores the first bucket.
LEMMA CommitInv == ASSUME IInv, NEW t \in Tasks, Commit(t) PROVE IInv'
<1> DEFINE c == Console(t)
           k == task[t]
           N == {k.window[i] : i \in 1..k.done}
<1>1. /\ k \in TaskRecords /\ Sound(k, t, mark, rows, writer)
      /\ mark \in [Names -> {Absent} \cup Buckets] /\ rows \in [Names -> SUBSET Buckets]
      /\ lock \in [Names -> Tasks \cup {None}] /\ faults \in 0..MaxFaults
  BY TaskFacts
<1>2. /\ k.pc = "commit" /\ Proceed(t)
      /\ UNCHANGED <<closed, phase, cadence, since, lock, faults>>
      /\ rows' = [rows EXCEPT ![c] = @ \cup N]
      /\ mark' = IF LastDone(t) = k.seen THEN mark ELSE [mark EXCEPT ![c] = LastDone(t)]
  BY DEF Commit
<1>3. Claimed(t) /\ k.todo # <<>> /\ c \in Names /\ c = Head(k.todo)
  BY <1>2, PassFacts
<1>4. /\ k.window \in Seq(Buckets) /\ Len(k.window) \in Nat /\ k.done \in Nat
      /\ k.done <= Len(k.window) /\ writer[c] = t /\ k.seen \in {Absent} \cup Buckets
      /\ \A i \in 1..k.done : k.window[i] \in Buckets
  <2>1. k.window \in Seq(Buckets) /\ k.done \in Nat /\ k.seen \in {Absent} \cup Buckets
    BY <1>1 DEF TaskRecords
  <2>2. k.done <= Len(k.window) /\ writer[c] = t
    BY <1>1, <1>2, <1>3 DEF Sound, InPass
  <2>3. Len(k.window) \in Nat /\ \A i \in 1..Len(k.window) : k.window[i] \in Buckets
    BY <2>1
  <2>4. \A i \in 1..k.done : i \in 1..Len(k.window)
    BY <2>1, <2>2, <2>3
  <2> QED BY <2>1, <2>2, <2>3, <2>4
<1>5. /\ N \subseteq Buckets /\ rows' \in [Names -> SUBSET Buckets] /\ rows'[c] = rows[c] \cup N
      /\ \A e \in Names \ {c} : rows'[e] = rows[e]
      /\ \A e \in Names : rows[e] \subseteq rows'[e]
  <2>1. N \subseteq Buckets
    BY <1>4
  <2> HIDE DEF N
  <2> QED BY <1>1, <1>2, <1>3, <2>1
<1>6. /\ LastDone(t) \in {Absent} \cup Buckets
      /\ k.done = 0 => LastDone(t) = k.seen
      /\ k.done # 0 => LastDone(t) = k.window[k.done] /\ LastDone(t) \in N
                       /\ LastDone(t) \in Buckets
  BY <1>4 DEF LastDone
<1>7. /\ mark' \in [Names -> {Absent} \cup Buckets]
      /\ \A e \in Names \ {c} : mark'[e] = mark[e]
      /\ mark'[c] = IF LastDone(t) = k.seen THEN mark[c] ELSE LastDone(t)
  BY <1>1, <1>2, <1>3, <1>6
<1>8. /\ IF mark'[c] = Absent THEN rows'[c] = {} ELSE mark'[c] \in rows'[c]
      /\ Unbroken(rows'[c])
  <2>0. /\ Unbroken(rows[c])
        /\ IF mark[c] = Absent THEN rows[c] = {} ELSE mark[c] \in rows[c]
    BY <1>3 DEF IInv, Anchored
  <2>1. CASE k.seen = Absent
    <3>1. mark[c] = Absent /\ Len(k.window) = 1 /\ rows[c] = {}
      BY <1>1, <1>2, <1>3, <2>0, <2>1 DEF Sound, InPass, Inserted
    <3>2. CASE k.done = 0
      <4>1. N = {}
        BY <3>2
      <4>2. rows'[c] = {} /\ mark'[c] = Absent
        BY <1>5, <1>6, <1>7, <3>1, <3>2, <4>1
      <4> QED BY <4>2 DEF Unbroken
    <3>3. CASE k.done # 0
      <4>1. k.done = 1
        BY <1>4, <3>1, <3>3
      <4>2. N = {k.window[1]}
        BY <4>1
      <4>3. LastDone(t) = k.window[1] /\ LastDone(t) \in Nat /\ LastDone(t) # Absent
        <5>1. LastDone(t) = k.window[1] /\ LastDone(t) \in Buckets
          BY <1>6, <3>3, <4>1
        <5> QED BY <5>1, Consts
      <4>4. rows'[c] = {LastDone(t)} /\ mark'[c] = LastDone(t)
        BY <1>5, <1>7, <2>1, <3>1, <4>2, <4>3
      <4>5. LastDone(t)..LastDone(t) \subseteq {LastDone(t)}
        BY <4>3
      <4> QED BY <4>3, <4>4, <4>5 DEF Unbroken
    <3> QED BY <3>2, <3>3
  <2>2. CASE k.seen # Absent
    <3>1. k.seen \in rows[c] /\ \A i \in 1..Len(k.window) : k.window[i] = k.seen + i
      BY <1>1, <1>2, <1>3, <2>2 DEF Sound, InPass
    <3>2. \A i \in 1..k.done : k.window[i] = k.seen + i
      BY <1>4, <3>1
    <3>3. N = {k.seen + i : i \in 1..k.done}
      BY <3>2
    <3>4. rows[c] \in SUBSET Buckets
      BY <1>1, <1>3
    <3>5. Unbroken(rows[c] \cup N)
      <4> HIDE DEF N
      <4> QED BY <1>4, <2>0, <3>1, <3>3, <3>4, UnbrokenGrows
    <3>6. k.seen \in Nat
      BY <1>4, <2>2, Consts
    <3>7. CASE k.done = 0
      <4>1. mark'[c] = mark[c] /\ mark[c] # Absent
        BY <1>6, <1>7, <2>0, <3>1, <3>7
      <4> QED BY <1>5, <2>0, <3>5, <4>1
    <3>8. CASE k.done # 0
      <4>1. LastDone(t) = k.seen + k.done
        BY <1>4, <1>6, <3>2, <3>8
      <4>2. LastDone(t) # k.seen /\ LastDone(t) # Absent
        <5>1. k.done \in Nat
          BY <1>4
        <5> HIDE DEF k
        <5> QED BY <3>6, <3>8, <4>1, <5>1 DEF Absent
      <4> QED BY <1>5, <1>6, <1>7, <3>5, <3>8, <4>2
    <3> QED BY <3>7, <3>8
  <2> QED BY <2>1, <2>2
<1> HIDE DEF N
<1>9. Anchored' /\ \A e \in Names : Unbroken(rows'[e])
  BY <1>3, <1>5, <1>7, <1>8 DEF IInv, Anchored
<1>10. PICK new \in TaskRecords :
           /\ task' = [task EXCEPT ![t] = new]
           /\ new.pc = "next" /\ new.slot = task[t].slot /\ new.done = 0 /\ Len(new.window) = 0
           /\ writer' \in [Names -> Tasks \cup {None}]
           /\ \A u \in Tasks \ {t} : \A e \in Names : writer[e] = u => writer'[e] = u
  BY <1>2, <1>3, ProceedFacts
<1>11. Sound(new, t, mark', rows', writer')
  BY <1>10, RestSound
<1>12. \A u \in Tasks \ {t} : \A e \in Names :
         writer[e] = u => writer'[e] = u /\ mark'[e] = mark[e]
  BY <1>4, <1>7, <1>10
<1>13. lock' \in [Names -> Tasks \cup {None}] /\ faults' \in 0..MaxFaults
  BY <1>1, <1>2
<1> QED BY <1>2, <1>3, <1>5, <1>7, <1>9, <1>10, <1>11, <1>12, <1>13, StepInv

LEMMA NextInv == ASSUME IInv, [Next]_vars PROVE IInv'
<1>1. CASE Tick
  BY <1>1, TickInv
<1>2. ASSUME NEW c \in Cadences, SetCadence(c) PROVE IInv'
  BY <1>2, SetCadenceInv
<1>3. ASSUME NEW t \in Tasks, ReadCadence(t) \/ Advance(t) \/ Crash(t) PROVE IInv'
  <2>1. CASE ReadCadence(t)
    BY <2>1, ReadCadenceInv
  <2>2. CASE Claim(t)
    BY <2>2, ClaimInv
  <2>15. CASE TakeTime(t)
    BY <2>15, TakeTimeInv
  <2>3. CASE TryLock(t)
    BY <2>3, TryLockInv
  <2>4. CASE Read(t)
    BY <2>4, ReadInv
  <2>5. CASE Insert(t)
    BY <2>5, InsertInv
  <2>6. CASE Search(t)
    BY <2>6, SearchInv
  <2>7. CASE SearchFails(t)
    BY <2>7, SearchFailsInv
  <2>8. CASE Write(t)
    BY <2>8, WriteInv
  <2>9. CASE Unlock(t)
    BY <2>9, UnlockInv
  <2>10. CASE Commit(t)
    BY <2>10, CommitInv
  <2>11. CASE Rollback(t)
    BY <2>11, RollbackInv
  <2>12. CASE StatementFails(t)
    BY <2>12, StatementFailsInv
  <2>13. CASE Finish(t)
    <3>1. Closed(t) /\ faults' \in 0..MaxFaults
      BY <2>13, TaskFacts DEF Finish
    <3> QED BY <3>1, ClosedInv
  <2>14. CASE Crash(t)
    <3>1. Closed(t) /\ faults' \in 0..MaxFaults
      BY <2>14, TaskFacts DEF Crash
    <3> QED BY <3>1, ClosedInv
  <2> QED BY <1>3, <2>1, <2>2, <2>3, <2>4, <2>5, <2>6, <2>7, <2>8, <2>9, <2>10, <2>11, <2>12,
             <2>13, <2>14, <2>15 DEF Advance
<1>4. CASE UNCHANGED vars
  BY <1>4 DEF vars, IInv, Typed, SlotsBehind, SlotOnce, Claimed, TasksSound, Anchored
<1> QED BY <1>1, <1>2, <1>3, <1>4 DEF Next

LEMMA Invariance == Spec => []IInv
<1> QED BY InitInv, NextInv, PTL DEF Spec

LEMMA InvNoHole == IInv => NoHole
<1> SUFFICES ASSUME IInv PROVE NoHole
  OBVIOUS
<1>1. ASSUME NEW t \in Tasks
      PROVE  /\ task[t].pc \in Steps /\ task[t].slot \in 0..Never
             /\ task[t].boundary \in 0..(Last + 1)
             /\ task[t].todo \in Seq(Names) /\ task[t].window \in Seq(Buckets)
             /\ task[t].seen \in {Absent} \cup Buckets
             /\ task[t].done \in 0..Len(task[t].window)
  <2>1. task[t] \in TaskRecords /\ Sound(task[t], t, mark, rows, writer)
    BY TaskFacts
  <2>2. /\ task[t].pc \in Steps /\ task[t].slot \in 0..Never
        /\ task[t].boundary \in 0..(Last + 1)
        /\ task[t].todo \in Seq(Names) /\ task[t].window \in Seq(Buckets)
        /\ task[t].seen \in {Absent} \cup Buckets /\ task[t].done \in Nat
    BY <2>1 DEF TaskRecords
  <2>3. task[t].done <= Len(task[t].window) /\ Len(task[t].window) \in Nat
    BY <2>1, <2>2 DEF Sound
  <2> QED BY <2>2, <2>3
<1>2. TypeOK
  BY <1>1 DEF IInv, Typed, TypeOK
<1> QED BY <1>2 DEF IInv, Anchored, Unbroken, NoHole

\* Whatever the tasks, the cadences, the cuts and the faults, no bucket between the
\* first one collected for a console and the last is left out, and its watermark
\* stands on a stored one (MetricCollector.collect, _get_or_create_watermark).
THEOREM NoHoleHolds == Spec => []NoHole
<1> QED BY Invariance, InvNoHole, PTL

\* No two tasks run the same slot, whenever the cadence changes (claim_slot).
THEOREM SlotOnceHolds == Spec => []SlotOnce
<1>1. IInv => SlotOnce
  BY DEF IInv
<1> QED BY <1>1, Invariance, PTL

=============================================================================
