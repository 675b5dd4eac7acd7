------------------------- MODULE CustomRulesProofs -------------------------
(***************************************************************************)
(* CustomRules: the stored breach is the replay of the verdicts, and a     *)
(* tick pages only for a live breach, for any thresholds, limits, ticks    *)
(* that overlap, edits, restarts and faults.                               *)
(*                                                                         *)
(* The argument: the verdicts stored so far, with those that a tick has    *)
(* read since, lead to that tick's memory (Replays): its counts are the    *)
(* runs at the end, and it has a live breach exactly when a run opened one *)
(* that no later run closed.  That breach is the row the rule points to,   *)
(* or one that the tick will insert once the old row is closed (Descends), *)
(* and the pointer names a live row or none (PointerInv).  An insert finds *)
(* a free id: breach rows never outnumber the judged buckets and the       *)
(* overlaps, which bound the ids (RoomInv).                                *)
(***************************************************************************)
EXTENDS CustomRules, FiniteSetTheorems, SequenceTheorems, WellFoundedInduction, TLAPS

Measured == Verdicts \ {"none"}

LiveBreaches == [id : Ids \cup {None}, state : Live]
EndedBreaches == [id : Ids \cup {None}, state : {"RESOLVED"}]

Folds ==
  [breaching : Nat, under : Nat, opens : BOOLEAN,
   breach : LiveBreaches \cup {None}, resolved : EndedBreaches \cup {None}]

TickRecords ==
  [pc : {"idle", "watermark", "metrics", "write"}, top : 0..LastBucket,
   rule : Rules \cup {None}, fold : Folds, through : (0..LastBucket) \cup {None},
   next : Nat, end : 0..LastBucket, judged : BOOLEAN, read : Seq(Measured)]

\* What a tick has made of the rule it read: nothing before its first bucket, and
\* every bucket it takes is past the last one of that rule.
Ordered(k) ==
  /\ k.pc \in {"watermark", "metrics"} => ~k.judged
  /\ ~k.judged => /\ k.read = <<>> /\ k.fold.resolved = None /\ ~k.fold.opens
                  /\ k.fold.breach # None => k.fold.breach.id \in Ids
  /\ (k.pc = "write" /\ k.next <= k.end) \/ k.judged => k.rule # None /\ k.rule.last < k.end
  /\ k.pc = "write" /\ k.next <= k.end => k.rule.last < k.next

TickInv == tick \in [Ticks -> TickRecords] /\ \A t \in Ticks : Ordered(tick[t])

\* The types of all else.
Typed ==
  /\ top \in 0..LastBucket
  /\ rule \in Rules \cup {None}
  /\ breaches \in [Ids -> BreachStates \cup {"unused"}]
  /\ through = None \/ through \in 0..LastBucket
  /\ alert \in BOOLEAN
  /\ settings \in [paging : BOOLEAN, collected : BOOLEAN]
  /\ \A t \in Ticks : tick[t].top \in 0..top /\ tick[t].end \in 0..top
  /\ hist \in Seq(Measured)
  /\ dropped \in BOOLEAN /\ overlaps \in 0..MaxOverlaps /\ events \in 0..MaxEvents

\* The pointer names a live row, or none.
PointerInv == rule # None /\ rule.active \in Ids => breaches[rule.active] \in Live

Running == {t \in Ticks : ~Idle(t)}
Used == {i \in Ids : breaches[i] # "unused"}

\* The breaches of the memory m that have a row are stored.
Stored(m) ==
  /\ m.breach # None /\ m.breach.id \in Ids => m.breach.id \in Used
  /\ m.resolved # None /\ m.resolved.id \in Ids => m.resolved.id \in Used

\* There are not more breach rows than buckets judged and overlaps.  What is stored and
\* what a running tick will store both leave room for a row of each of the other ticks.  The
\* rows that a tick remembers are stored ones.
RoomInv ==
  /\ IsFiniteSet(Running)
  /\ rule = None => Used = {}
  /\ rule # None =>
       /\ Cardinality(Used) <= rule.last + overlaps
       /\ Cardinality(Used) + Cardinality(Running) <= rule.last + overlaps + 1
       /\ \A t \in Running : tick[t].rule # None =>
            Cardinality(Used) + Cardinality(Running) <= tick[t].rule.last + overlaps + 1
       /\ \A t \in Running : Stored(tick[t].fold)

-----------------------------------------------------------------------------
(* The replay.                                                             *)

\* RunOf and ShouldBeLive over the verdicts h.
RunIn(h, v, n, i) == i >= n /\ \A j \in (i - n + 1)..i : h[j] = v

LiveAfter(h) ==
  \E i \in 1..Len(h) :
     /\ RunIn(h, "breach", Sustain, i)
     /\ \A j \in (i + 1)..Len(h) : ~RunIn(h, "under", Recovery, j)

\* Exactly the last n verdicts of h are v.
Trailing(h, v, n) ==
  /\ n <= Len(h) /\ \A j \in (Len(h) - n + 1)..Len(h) : h[j] = v
  /\ n < Len(h) => h[Len(h) - n] # v

\* The fold's memory m is what the verdicts h come to.
Replays(h, m) ==
  /\ Trailing(h, "breach", m.breaching)
  /\ m.breach = None => ~LiveAfter(h) /\ m.breaching < Sustain
  /\ m.breach # None =>
       /\ LiveAfter(h) /\ Trailing(h, "under", m.under) /\ m.under < Recovery
       /\ m.breach.state = "RECOVERING" <=> m.under > 0

\* The breaches of the memory m of a tick that read the pointer a: the first is the
\* one that a names, if it names one, and the later ones have no row.
Descends(m, a) ==
  /\ m.resolved = None =>
       /\ a \in Ids => m.breach # None /\ m.breach.id = a
       /\ a \notin Ids /\ m.breach # None => m.breach.id = None
  /\ m.resolved # None => /\ m.resolved.id # None => m.resolved.id = a
                          /\ m.breach # None => m.breach.id = None

ReplayInv ==
  /\ overlaps = 0 => \A t, u \in Running : t = u
  /\ Unmixed =>
       /\ Replays(hist, Memory)
       /\ \A i \in Ids : breaches[i] \in Live => rule.active = i
       /\ \A t \in Running :
            /\ tick[t].rule # None /\ tick[t].rule.active = rule.active
            /\ Replays(hist \o tick[t].read, tick[t].fold)
            /\ Descends(tick[t].fold, rule.active)

\* The inductive invariant.
IInv == Typed /\ TickInv /\ PointerInv /\ RoomInv /\ ReplayInv

LEMMA OneMore ==
  ASSUME NEW h \in Seq(Measured), NEW v \in Measured
  PROVE  /\ Append(h, v) \in Seq(Measured) /\ Len(h) \in Nat /\ Len(Append(h, v)) = Len(h) + 1
         /\ \A j \in 1..Len(h) : Append(h, v)[j] = h[j]
         /\ Append(h, v)[Len(h) + 1] = v
OBVIOUS

\* A verdict lengthens the run of its kind and ends the other.
LEMMA TrailingAppend ==
  ASSUME NEW h \in Seq(Measured), NEW v \in Measured, NEW w, NEW n \in Nat
  PROVE  /\ Trailing(h, v, n) => Trailing(Append(h, v), v, n + 1)
         /\ v # w => Trailing(Append(h, v), w, 0)
<1> DEFINE g == Append(h, v)
<1>1. /\ Len(h) \in Nat /\ Len(g) = Len(h) + 1 /\ g[Len(h) + 1] = v
      /\ \A j \in 1..Len(h) : g[j] = h[j]
  BY OneMore
<1> HIDE DEF g
<1>2. ASSUME Trailing(h, v, n) PROVE Trailing(g, v, n + 1)
  <2>1. n + 1 <= Len(g)
    BY <1>1, <1>2 DEF Trailing
  <2>2. \A j \in (Len(g) - (n + 1) + 1)..Len(g) : g[j] = v
    BY <1>1, <1>2 DEF Trailing
  <2>3. n + 1 < Len(g) => g[Len(g) - (n + 1)] # v
    BY <1>1, <1>2 DEF Trailing
  <2> QED BY <2>1, <2>2, <2>3 DEF Trailing
<1>3. ASSUME v # w PROVE Trailing(g, w, 0)
  BY <1>1, <1>3 DEF Trailing
<1> QED BY <1>2, <1>3 DEF g

\* A run up to a place is not changed by what comes after it.
LEMMA RunAppend ==
  ASSUME NEW h \in Seq(Measured), NEW v \in Measured, NEW w, NEW n \in Nat \ {0},
         NEW i \in 1..Len(h)
  PROVE  RunIn(Append(h, v), w, n, i) <=> RunIn(h, w, n, i)
<1>1. /\ Len(h) \in Nat /\ \A j \in 1..Len(h) : Append(h, v)[j] = h[j]
  BY OneMore
<1>2. i >= n => (i - n + 1)..i \subseteq 1..Len(h)
  BY <1>1
<1> QED BY <1>1, <1>2 DEF RunIn

\* Whether the last verdicts are a run of n.
LEMMA RunAtEnd ==
  ASSUME NEW h \in Seq(Measured), NEW v \in Measured, NEW w \in Measured, NEW n \in Nat \ {0},
         NEW k \in Nat, Trailing(h, w, k)
  PROVE  RunIn(Append(h, v), w, n, Len(h) + 1) <=> v = w /\ k + 1 >= n
<1> DEFINE g == Append(h, v)
<1>1. /\ Len(h) \in Nat /\ Len(g) = Len(h) + 1 /\ g[Len(h) + 1] = v
      /\ \A j \in 1..Len(h) : g[j] = h[j]
  BY OneMore
<1> HIDE DEF g
<1>2. ASSUME v = w, k + 1 >= n PROVE RunIn(g, w, n, Len(h) + 1)
  BY <1>1, <1>2 DEF RunIn, Trailing
<1>3. ASSUME RunIn(g, w, n, Len(h) + 1) PROVE v = w
  BY <1>1, <1>3 DEF RunIn
<1>4. ASSUME RunIn(g, w, n, Len(h) + 1), k + 1 < n PROVE FALSE
  <2>1. Len(h) + 1 >= n /\ \A j \in (Len(h) + 1 - n + 1)..(Len(h) + 1) : g[j] = w
    BY <1>4 DEF RunIn
  <2>2. k < Len(h) /\ h[Len(h) - k] # w
    BY <1>1, <1>4, <2>1 DEF Trailing
  <2>3. Len(h) - k \in (Len(h) + 1 - n + 1)..(Len(h) + 1) /\ Len(h) - k \in 1..Len(h)
    BY <1>1, <1>4, <2>1, <2>2
  <2> QED BY <1>1, <2>1, <2>2, <2>3
<1> QED BY <1>2, <1>3, <1>4 DEF g

\* What the next verdict makes of a breach.
LEMMA LiveAppend ==
  ASSUME NEW h \in Seq(Measured), NEW v \in Measured, NEW b \in Nat, Trailing(h, "breach", b)
  PROVE  /\ v = "breach" => (LiveAfter(Append(h, v)) <=> LiveAfter(h) \/ b + 1 >= Sustain)
         /\ v = "under" /\ ~LiveAfter(h) => ~LiveAfter(Append(h, v))
         /\ \A u \in Nat : v = "under" /\ LiveAfter(h) /\ Trailing(h, "under", u) =>
              (LiveAfter(Append(h, v)) <=> u + 1 < Recovery)
<1> DEFINE g == Append(h, v)
           n == Len(h) + 1
<1>0. Sustain \in Nat \ {0} /\ Recovery \in Nat \ {0} /\ {"breach", "under"} \subseteq Measured
  BY RuleAssumption DEF Measured, Verdicts
<1>1. Len(h) \in Nat /\ Len(g) = n
  BY OneMore
<1>2. \A i \in 1..Len(h) : /\ RunIn(g, "breach", Sustain, i) <=> RunIn(h, "breach", Sustain, i)
                           /\ RunIn(g, "under", Recovery, i) <=> RunIn(h, "under", Recovery, i)
  BY <1>0, RunAppend
<1>3. RunIn(g, "breach", Sustain, n) <=> v = "breach" /\ b + 1 >= Sustain
  BY <1>0, RunAtEnd
<1>4. \A u \in Nat : Trailing(h, "under", u) =>
        (RunIn(g, "under", Recovery, n) <=> v = "under" /\ u + 1 >= Recovery)
  BY <1>0, RunAtEnd
<1>5. v = "breach" => ~RunIn(g, "under", Recovery, n)
  <2>1. g[n] = v
    BY OneMore
  <2> QED BY <1>0, <1>1, <2>1 DEF RunIn
<1> HIDE DEF g
<1>6. LiveAfter(g) <=>
        \/ RunIn(g, "breach", Sustain, n)
        \/ LiveAfter(h) /\ ~RunIn(g, "under", Recovery, n)
  <2>1. ASSUME RunIn(g, "breach", Sustain, n) PROVE LiveAfter(g)
    BY <1>1, <2>1 DEF LiveAfter
  <2>2. ASSUME LiveAfter(h), ~RunIn(g, "under", Recovery, n) PROVE LiveAfter(g)
    BY <1>1, <1>2, <2>2 DEF LiveAfter
  <2>3. ASSUME LiveAfter(g), ~RunIn(g, "breach", Sustain, n)
        PROVE  LiveAfter(h) /\ ~RunIn(g, "under", Recovery, n)
    BY <1>1, <1>2, <2>3 DEF LiveAfter
  <2> QED BY <2>1, <2>2, <2>3
<1> HIDE DEF n
<1>7. v = "breach" => (LiveAfter(g) <=> LiveAfter(h) \/ b + 1 >= Sustain)
  BY <1>3, <1>5, <1>6
<1>8. v = "under" /\ ~LiveAfter(h) => ~LiveAfter(g)
  BY <1>3, <1>6
<1>9. ASSUME NEW u \in Nat, v = "under", LiveAfter(h), Trailing(h, "under", u)
      PROVE  LiveAfter(g) <=> u + 1 < Recovery
  BY <1>0, <1>3, <1>4, <1>6, <1>9
<1> QED BY <1>7, <1>8, <1>9 DEF g

-----------------------------------------------------------------------------
(* One bucket.                                                             *)

LEMMA NotNone ==
  /\ None \notin LiveBreaches /\ None \notin EndedBreaches
  /\ None \notin Ids /\ Gone \notin Ids
<1>1. LiveBreaches \subseteq Breaches
  BY DEF LiveBreaches, Breaches, BreachStates
<1>2. EndedBreaches \subseteq Breaches
  BY DEF EndedBreaches, Breaches, BreachStates
<1> QED BY <1>1, <1>2, NoRowAssumption, RuleAssumption DEF Ids

LEMMA FoldFields ==
  ASSUME NEW m \in Folds
  PROVE  /\ m.breaching \in Nat /\ m.under \in Nat /\ m.opens \in BOOLEAN
         /\ m.breach = None \/ m.breach \in LiveBreaches
         /\ m.resolved = None \/ m.resolved \in EndedBreaches
BY DEF Folds

LEMMA FoldOpens ==
  ASSUME NEW m \in Folds, NEW n \in Nat, NEW o \in BOOLEAN, NEW b \in LiveBreaches \cup {None}
  PROVE  [m EXCEPT !.breaching = n, !.under = 0, !.opens = o, !.breach = b] \in Folds
BY DEF Folds

LEMMA OnBreachIs ==
  ASSUME NEW m \in Folds
  PROVE  LET r == OnBreach(m) IN
         /\ r \in Folds /\ r.breaching = m.breaching + 1 /\ r.under = 0
         /\ r.resolved = m.resolved
         /\ r.breach # None <=> m.breach # None \/ m.breaching + 1 >= Sustain
         /\ r.breach # None => /\ r.breach.state = "OPEN"
                               /\ r.breach.id = IF m.breach = None THEN None ELSE m.breach.id
         /\ r.opens => r.breach # None \/ m.opens
<1> DEFINE opens == m.breach # None \/ m.breaching + 1 >= Sustain
           b == IF ~opens THEN None
                ELSE IF m.breach = None THEN [id |-> None, state |-> "OPEN"]
                ELSE [m.breach EXCEPT !.state = "OPEN"]
           o == m.opens \/ opens
<1>1. m.breach = None \/ m.breach \in LiveBreaches
  BY FoldFields
<1>2. ~opens => b = None
  OBVIOUS
<1>3. opens => b \in LiveBreaches /\ b.state = "OPEN"
                 /\ b.id = IF m.breach = None THEN None ELSE m.breach.id
  BY <1>1 DEF LiveBreaches, Live
<1>4. OnBreach(m) = [m EXCEPT !.breaching = m.breaching + 1, !.under = 0,
                              !.opens = o, !.breach = b]
  BY DEF OnBreach
<1>5. m.breaching + 1 \in Nat /\ opens \in BOOLEAN /\ o \in BOOLEAN
  BY FoldFields
<1>6. b # None <=> opens
  <2> HIDE DEF b, opens
  <2> QED BY <1>2, <1>3, <1>5, NotNone
<1>7. b \in LiveBreaches \cup {None}
  <2> HIDE DEF b, opens
  <2> QED BY <1>2, <1>3, <1>5
<1>8. /\ OnBreach(m) \in Folds
      /\ OnBreach(m).breaching = m.breaching + 1 /\ OnBreach(m).under = 0
      /\ OnBreach(m).resolved = m.resolved /\ OnBreach(m).breach = b
      /\ OnBreach(m).opens = o
  <2> DEFINE n == m.breaching + 1
  <2>1. n \in Nat /\ OnBreach(m) = [m EXCEPT !.breaching = n, !.under = 0, !.opens = o,
                                             !.breach = b]
    BY <1>4, <1>5
  <2>0. o \in BOOLEAN
    BY <1>5
  <2> HIDE DEF b, o, n
  <2>2. OnBreach(m) \in Folds
    <3>1. [m EXCEPT !.breaching = n, !.under = 0, !.opens = o, !.breach = b] \in Folds
      BY <1>7, <2>0, <2>1, FoldOpens
    <3> QED BY <2>1, <3>1
  <2>3. /\ OnBreach(m).breaching = n /\ OnBreach(m).under = 0
        /\ OnBreach(m).resolved = m.resolved /\ OnBreach(m).breach = b
    BY <2>1 DEF Folds
  <2>4. OnBreach(m).opens = o
    BY <2>1 DEF Folds
  <2> QED BY <2>2, <2>3, <2>4 DEF n
<1>9. o => b # None \/ m.opens
  BY <1>6
<1> HIDE DEF b, o
<1> QED BY <1>3, <1>6, <1>8, <1>9 DEF opens

LEMMA OnUnderIs ==
  ASSUME NEW m \in Folds
  PROVE  LET r == OnUnder(m) IN
         /\ r \in Folds /\ r.breaching = 0 /\ r.opens = m.opens
         /\ m.breach = None => r.breach = None /\ r.resolved = m.resolved
         /\ m.breach # None /\ m.under + 1 >= Recovery =>
              r.breach = None /\ r.resolved # None /\ r.resolved.id = m.breach.id
         /\ m.breach # None /\ m.under + 1 < Recovery =>
              /\ r.breach # None /\ r.breach.id = m.breach.id /\ r.breach.state = "RECOVERING"
              /\ r.under = m.under + 1 /\ r.resolved = m.resolved
<1> DEFINE r == OnUnder(m)
           n == m.under + 1
<1>0. /\ m.under \in Nat /\ n \in Nat /\ Recovery \in Nat
      /\ m.breach = None \/ m.breach \in LiveBreaches
  BY RuleAssumption, FoldFields
<1>1. CASE m.breach = None
  <2>1. r = [m EXCEPT !.breaching = 0, !.under = n]
    BY <1>1 DEF OnUnder
  <2> HIDE DEF r, n
  <2>2. /\ r \in Folds /\ r.breaching = 0 /\ r.opens = m.opens
        /\ r.breach = None /\ r.resolved = m.resolved
    BY <1>0, <1>1, <2>1 DEF Folds
  <2> QED BY <1>1, <2>2 DEF r
<1>2. CASE m.breach # None /\ n >= Recovery
  <2> DEFINE b == [m.breach EXCEPT !.state = "RESOLVED"]
  <2>1. r = [m EXCEPT !.breaching = 0, !.under = 0, !.breach = None, !.resolved = b]
    BY <1>2 DEF OnUnder
  <2>2. b \in EndedBreaches /\ b.id = m.breach.id
    BY <1>0, <1>2 DEF LiveBreaches, EndedBreaches
  <2> HIDE DEF b
  <2>3. b # None
    BY <2>2, NotNone
  <2> HIDE DEF r
  <2>4. /\ r \in Folds /\ r.breaching = 0 /\ r.opens = m.opens
        /\ r.breach = None /\ r.resolved = b
    BY <2>1, <2>2 DEF Folds
  <2> QED BY <1>0, <1>2, <2>2, <2>3, <2>4 DEF r
<1>3. CASE m.breach # None /\ n < Recovery
  <2> DEFINE b == [m.breach EXCEPT !.state = "RECOVERING"]
  <2>1. r = [m EXCEPT !.breaching = 0, !.under = n, !.breach = b]
    BY <1>0, <1>3 DEF OnUnder
  <2>2. b \in LiveBreaches /\ b.id = m.breach.id /\ b.state = "RECOVERING"
    BY <1>0, <1>3 DEF LiveBreaches, Live
  <2> HIDE DEF b
  <2>3. b # None
    BY <2>2, NotNone
  <2>4. /\ r \in Folds /\ r.breaching = 0 /\ r.opens = m.opens
        /\ r.breach = b /\ r.resolved = m.resolved /\ r.under = n
    <3> HIDE DEF r, n
    <3> QED BY <1>0, <2>1, <2>2 DEF Folds
  <2> HIDE DEF r
  <2> QED BY <1>0, <1>3, <2>2, <2>3, <2>4 DEF r
<1> QED BY <1>0, <1>1, <1>2, <1>3

\* A bucket keeps the memory the replay of what was measured.
LEMMA ConsumeReplays ==
  ASSUME NEW m \in Folds, NEW h \in Seq(Measured), NEW v \in Measured, Replays(h, m)
  PROVE  Replays(Append(h, v), Consume(m, v))
<1>0. v = "breach" \/ v = "under"
  BY DEF Measured, Verdicts
<1>1. m.breaching \in Nat /\ m.under \in Nat /\ Sustain \in Nat /\ Recovery \in Nat \ {0}
  BY RuleAssumption DEF Folds
<1>2. Trailing(h, "breach", m.breaching)
  BY DEF Replays
<1>3. CASE v = "breach"
  <2> DEFINE r == OnBreach(m)
  <2>1. Consume(m, v) = r
    BY <1>3 DEF Consume
  <2>2. /\ r.breaching = m.breaching + 1 /\ r.under = 0
        /\ r.breach # None <=> m.breach # None \/ m.breaching + 1 >= Sustain
        /\ r.breach # None => r.breach.state = "OPEN"
    BY OnBreachIs
  <2>3. /\ Trailing(Append(h, v), "breach", m.breaching + 1)
        /\ Trailing(Append(h, v), "under", 0)
    BY <1>1, <1>2, <1>3, TrailingAppend
  <2>4. LiveAfter(Append(h, v)) <=> LiveAfter(h) \/ m.breaching + 1 >= Sustain
    BY <1>1, <1>2, <1>3, LiveAppend
  <2>5. LiveAfter(h) <=> m.breach # None
    BY DEF Replays
  <2> HIDE DEF r
  <2> QED BY <1>1, <2>1, <2>2, <2>3, <2>4, <2>5 DEF Replays
<1>4. CASE v = "under"
  <2> DEFINE r == OnUnder(m)
  <2>1. Consume(m, v) = r
    BY <1>4 DEF Consume
  <2>2. /\ r.breaching = 0
        /\ m.breach = None => r.breach = None
        /\ m.breach # None /\ m.under + 1 >= Recovery => r.breach = None
        /\ m.breach # None /\ m.under + 1 < Recovery =>
             r.breach # None /\ r.breach.state = "RECOVERING" /\ r.under = m.under + 1
    BY OnUnderIs
  <2>3. /\ Trailing(Append(h, v), "breach", 0)
        /\ Trailing(h, "under", m.under) => Trailing(Append(h, v), "under", m.under + 1)
    BY <1>1, <1>4, TrailingAppend
  <2>4. /\ ~LiveAfter(h) => ~LiveAfter(Append(h, v))
        /\ LiveAfter(h) /\ Trailing(h, "under", m.under) =>
             (LiveAfter(Append(h, v)) <=> m.under + 1 < Recovery)
    BY <1>1, <1>2, <1>4, LiveAppend
  <2>5. /\ LiveAfter(h) <=> m.breach # None
        /\ m.breach # None => Trailing(h, "under", m.under)
    BY DEF Replays
  <2>6. Sustain > 0
    BY RuleAssumption
  <2> HIDE DEF r
  <2> QED BY <1>1, <2>1, <2>2, <2>3, <2>4, <2>5, <2>6 DEF Replays
<1> QED BY <1>0, <1>3, <1>4

LEMMA ConsumeFolds ==
  ASSUME NEW m \in Folds, NEW v \in Verdicts
  PROVE  Consume(m, v) \in Folds
<1>1. CASE v = "breach"
  BY <1>1, OnBreachIs DEF Consume
<1>2. CASE v = "under"
  BY <1>2, OnUnderIs DEF Consume
<1>3. CASE v = "none"
  BY <1>3 DEF Consume
<1> QED BY <1>1, <1>2, <1>3 DEF Verdicts

LEMMA ConsumeDescends ==
  ASSUME NEW m \in Folds, NEW v \in Verdicts, NEW a, Descends(m, a)
  PROVE  Descends(Consume(m, v), a)
<1>1. CASE v = "breach"
  BY <1>1, OnBreachIs, NotNone DEF Consume, Descends
<1>2. CASE v = "under"
  <2>1. m.under \in Nat /\ Recovery \in Nat
    BY RuleAssumption DEF Folds
  <2> QED BY <1>2, <2>1, OnUnderIs, NotNone DEF Consume, Descends
<1>3. CASE v = "none"
  BY <1>3 DEF Consume
<1> QED BY <1>1, <1>2, <1>3 DEF Verdicts

-----------------------------------------------------------------------------
(* The steps that leave the breach alone.                                  *)

LEMMA InvTyped == IInv => TypeOK
<1> SUFFICES ASSUME IInv PROVE TypeOK
  OBVIOUS
<1>1. Typed /\ tick \in [Ticks -> TickRecords]
  BY DEF IInv, TickInv
<1>2. ASSUME NEW t \in Ticks
      PROVE  /\ tick[t].pc \in {"idle", "watermark", "metrics", "write"}
             /\ tick[t].rule \in Rules \cup {None}
             /\ tick[t].fold.breach = None \/ tick[t].fold.breach.state \in Live
             /\ tick[t].fold.resolved = None \/ tick[t].fold.resolved.state = "RESOLVED"
  <2>1. /\ tick[t].pc \in {"idle", "watermark", "metrics", "write"}
        /\ tick[t].rule \in Rules \cup {None} /\ tick[t].fold \in Folds
    BY <1>1 DEF TickRecords
  <2> QED BY <2>1, FoldFields DEF LiveBreaches, EndedBreaches
<1> QED BY <1>1, <1>2 DEF Typed, TypeOK, Measured

LEMMA NoFoldTyped == NoFold \in Folds
BY DEF NoFold, Folds

LEMMA NoTickTyped == NoTick \in TickRecords /\ Ordered(NoTick) /\ NoTick.pc = "idle"
<1>1. NoTick.pc = "idle" /\ NoTick.fold = NoFold /\ NoTick.judged = FALSE /\ NoTick.read = <<>>
  BY DEF NoTick
<1>2. 0 \in 0..LastBucket /\ <<>> \in Seq(Measured)
  BY RuleAssumption
<1>3. NoTick \in TickRecords
  BY <1>2, NoFoldTyped DEF NoTick, TickRecords
<1> QED BY <1>1, <1>3 DEF Ordered, NoFold

\* The rule with its counters and its pointer as it was, no new tick, and every tick
\* with what it has made of the rule.
Quiet ==
  /\ UNCHANGED <<breaches, hist, dropped, overlaps>>
  /\ rule' = None <=> rule = None
  /\ rule # None => /\ rule'.breaching = rule.breaching /\ rule'.under = rule.under
                    /\ rule'.last = rule.last /\ rule'.active = rule.active
  /\ \A t \in Ticks : tick'[t].pc # "idle" =>
       /\ tick[t].pc # "idle" /\ tick'[t].rule = tick[t].rule
       /\ tick'[t].fold = tick[t].fold /\ tick'[t].read = tick[t].read

LEMMA QuietStep ==
  ASSUME IInv, Quiet
  PROVE  PointerInv' /\ RoomInv' /\ ReplayInv'
<1>0. PointerInv /\ RoomInv /\ ReplayInv
  BY DEF IInv
<1>1. Running' \subseteq Running /\ Used' = Used
  BY DEF Running, Used, Idle, Quiet
<1>2. \A t \in Running' : /\ t \in Running /\ tick'[t].rule = tick[t].rule
                          /\ tick'[t].fold = tick[t].fold /\ tick'[t].read = tick[t].read
  BY DEF Running, Idle, Quiet
<1>3. PointerInv'
  BY <1>0 DEF PointerInv, Quiet
<1>4. RoomInv'
  <2>1. IsFiniteSet(Running') /\ Cardinality(Running') <= Cardinality(Running)
    BY <1>0, <1>1, FS_Subset DEF RoomInv
  <2>2. Cardinality(Running') \in Nat /\ Cardinality(Running) \in Nat
    BY <1>0, <2>1, FS_CardinalityType DEF RoomInv
  <2>3. IsFiniteSet(Used) /\ Cardinality(Used) \in Nat
    <3>1. IsFiniteSet(Ids) /\ Used \subseteq Ids
      BY FS_Interval, RuleAssumption DEF Ids, Used
    <3> QED BY <3>1, FS_Subset, FS_CardinalityType
  <2>4. overlaps \in Nat /\ rule \in Rules \cup {None}
    BY RuleAssumption DEF IInv, Typed
  <2>5. rule # None => rule.last \in Nat
    BY <2>4, RuleAssumption DEF Rules
  <2>6. rule' = None => Used' = {}
    BY <1>0, <1>1 DEF RoomInv, Quiet
  <2>7. ASSUME rule' # None
        PROVE  /\ Cardinality(Used') <= rule'.last + overlaps'
               /\ Cardinality(Used') + Cardinality(Running') <= rule'.last + overlaps' + 1
    BY <1>0, <1>1, <2>2, <2>3, <2>4, <2>5, <2>1, <2>7 DEF RoomInv, Quiet
  <2>8. ASSUME rule' # None, NEW t \in Running', tick'[t].rule # None
        PROVE  Cardinality(Used') + Cardinality(Running') <= tick'[t].rule.last + overlaps' + 1
    <3>1. t \in Running /\ tick[t].rule # None /\ tick'[t].rule = tick[t].rule /\ rule # None
      BY <1>2, <2>8 DEF Quiet
    <3>2. Cardinality(Used) + Cardinality(Running) <= tick[t].rule.last + overlaps + 1
      BY <1>0, <2>8, <3>1 DEF RoomInv
    <3>3. tick[t].rule \in Rules \cup {None}
      BY <3>1 DEF IInv, TickInv, TickRecords, Running
    <3>4. tick[t].rule.last \in Nat
      BY <3>1, <3>3, RuleAssumption DEF Rules
    <3> QED BY <1>1, <2>1, <2>2, <2>3, <2>4, <3>1, <3>2, <3>4 DEF Quiet
  <2>9. ASSUME rule' # None, NEW t \in Running' PROVE Stored(tick[t].fold)'
    <3>1. t \in Running /\ tick'[t].fold = tick[t].fold /\ rule # None
      BY <1>2, <2>9 DEF Quiet
    <3>2. Stored(tick[t].fold)
      BY <1>0, <3>1 DEF RoomInv
    <3> QED BY <1>1, <3>1, <3>2 DEF Stored
  <2> QED BY <2>1, <2>6, <2>7, <2>8, <2>9 DEF RoomInv, Stored
<1>5. ReplayInv'
  <2>1. overlaps' = overlaps /\ (Unmixed' <=> Unmixed)
    BY DEF Unmixed, Quiet
  <2>2. rule # None => Memory' = Memory
    BY DEF Memory, Quiet
  <2>3. hist' = hist /\ breaches' = breaches /\ (rule # None => rule'.active = rule.active)
    BY DEF Quiet
  <2>4. Unmixed => rule # None
    BY DEF Unmixed
  <2>5. overlaps' = 0 => \A t, u \in Running' : t = u
    BY <1>0, <1>1, <2>1 DEF ReplayInv
  <2>6. ASSUME Unmixed'
        PROVE  /\ Replays(hist', Memory')
               /\ \A i \in Ids : breaches'[i] \in Live => rule'.active = i
               /\ \A t \in Running' :
                    /\ tick'[t].rule # None /\ tick'[t].rule.active = rule'.active
                    /\ Replays(hist' \o tick'[t].read, tick'[t].fold)
                    /\ Descends(tick'[t].fold, rule'.active)
    BY <1>0, <1>2, <2>1, <2>2, <2>3, <2>4, <2>6 DEF ReplayInv
  <2> QED BY <2>5, <2>6 DEF ReplayInv, Replays, Trailing, LiveAfter, RunIn, Descends
<1> QED BY <1>3, <1>4, <1>5

\* A tick that gets the record k.
LEMMA SetTick ==
  ASSUME TickInv, NEW t \in Ticks, NEW k \in TickRecords, Ordered(k),
         tick' = [tick EXCEPT ![t] = k]
  PROVE  /\ TickInv' /\ tick'[t] = k /\ \A u \in Ticks : u # t => tick'[u] = tick[u]
BY DEF TickInv

LEMMA TickFields ==
  ASSUME TickInv, NEW t \in Ticks
  PROVE  LET k == tick[t] IN
         /\ k \in TickRecords /\ Ordered(k)
         /\ k.pc \in {"idle", "watermark", "metrics", "write"} /\ k.top \in 0..LastBucket
         /\ k.rule \in Rules \cup {None} /\ k.fold \in Folds
         /\ k.through \in (0..LastBucket) \cup {None} /\ k.next \in Nat
         /\ k.end \in 0..LastBucket /\ k.judged \in BOOLEAN /\ k.read \in Seq(Measured)
BY DEF TickInv, TickRecords

\* A tick that ends writes nothing of the rule.
LEMMA EndQuiet ==
  ASSUME IInv, NEW t \in Ticks, Ends(t), UNCHANGED <<top, rule, breaches, hist, dropped, overlaps>>
  PROVE  /\ TickInv' /\ Quiet
         /\ \A u \in Ticks : tick'[u].top \in 0..top /\ tick'[u].end \in 0..top
<1>0. TickInv /\ Typed
  BY DEF IInv
<1>1. /\ TickInv' /\ tick'[t] = NoTick /\ \A u \in Ticks : u # t => tick'[u] = tick[u]
  BY <1>0, SetTick, NoTickTyped DEF Ends
<1>2. NoTick.pc = "idle" /\ NoTick.top = 0 /\ NoTick.end = 0
  BY DEF NoTick
<1>3. Quiet
  BY <1>1, <1>2 DEF Quiet
<1> QED BY <1>0, <1>1, <1>2, <1>3 DEF Typed

LEMMA WatermarkTyped ==
  ASSUME IInv, NEW t \in Ticks, NEW w \in WatermarkAfter(t)
  PROVE  w = None \/ w \in 0..LastBucket
BY RuleAssumption DEF IInv, Typed, WatermarkAfter, Seeds

LEMMA CollectInv == ASSUME IInv, Collect PROVE IInv'
<1>0. TickInv /\ Typed
  BY DEF IInv
<1>1. Quiet
  BY DEF Quiet, Collect
<1>2. TickInv'
  BY <1>0 DEF Collect, TickInv
<1>3. Typed'
  <2>1. top' = top + 1 /\ top' \in 0..LastBucket /\ \A x \in 0..top : x \in 0..top'
    BY <1>0, RuleAssumption DEF Collect, Typed
  <2> QED BY <1>0, <2>1 DEF Collect, Typed
<1> QED BY <1>1, <1>2, <1>3, QuietStep DEF IInv

LEMMA LoadWatermarksInv == ASSUME IInv, NEW t \in Ticks, LoadWatermarks(t) PROVE IInv'
<1>0. TickInv /\ Typed
  BY DEF IInv
<1> DEFINE k == [tick[t] EXCEPT !.pc = "metrics", !.through = through]
<1>1. /\ tick[t].pc = "watermark" /\ tick' = [tick EXCEPT ![t] = k]
      /\ UNCHANGED <<top, rule, breaches, through, alert, settings, hist, dropped, overlaps,
                     events>>
  BY <1>0 DEF LoadWatermarks, TickInv
<1>2. tick[t] \in TickRecords /\ Ordered(tick[t]) /\ through \in (0..LastBucket) \cup {None}
  BY <1>0, RuleAssumption DEF TickInv, Typed
<1>3. /\ k \in TickRecords /\ k.pc = "metrics" /\ k.rule = tick[t].rule /\ k.fold = tick[t].fold
      /\ k.read = tick[t].read /\ k.judged = tick[t].judged /\ k.top = tick[t].top
      /\ k.end = tick[t].end
  BY <1>2 DEF TickRecords
<1> HIDE DEF k
<1>4. Ordered(k)
  BY <1>1, <1>2, <1>3 DEF Ordered
<1>5. /\ TickInv' /\ tick'[t] = k /\ \A u \in Ticks : u # t => tick'[u] = tick[u]
  BY <1>0, <1>1, <1>3, <1>4, SetTick
<1>6. Quiet
  BY <1>1, <1>3, <1>5 DEF Quiet
<1>7. Typed'
  BY <1>0, <1>1, <1>3, <1>5 DEF Typed
<1> QED BY <1>5, <1>6, <1>7, QuietStep DEF IInv

LEMMA MinOfTwo ==
  ASSUME NEW a \in Int, NEW b \in Int
  PROVE  /\ Min({a, b}) \in {a, b} /\ Min({a, b}) <= a /\ Min({a, b}) <= b
         /\ Max({a, b}) \in {a, b} /\ Max({a, b}) >= a /\ Max({a, b}) >= b
<1>1. \E x \in {a, b} : \A y \in {a, b} : x <= y
  OBVIOUS
<1>2. \E x \in {a, b} : \A y \in {a, b} : x >= y
  OBVIOUS
<1> QED BY <1>1, <1>2 DEF Min, Max

LEMMA MaxOfNats ==
  ASSUME NEW a \in Nat, NEW b \in Nat
  PROVE  Max({a, b}) \in Nat /\ Max({a, b}) >= b
<1>1. a \in Int /\ b \in Int
  OBVIOUS
<1>2. Max({a, b}) \in {a, b} /\ Max({a, b}) >= b
  BY <1>1, MinOfTwo
<1> QED BY <1>2

LEMMA LoadMetricsInv == ASSUME IInv, NEW t \in Ticks, LoadMetrics(t) PROVE IInv'
<1>0. TickInv /\ Typed
  BY DEF IInv
<1>1. tick[t].pc = "metrics"
  BY DEF LoadMetrics
<1>2. PICK n \in IF tick[t].through = None \/ ~settings.collected THEN {0} ELSE WalkBuckets(t) :
       LET end == IF n = 0 THEN 0 ELSE tick[t].through + n
       IN  tick' = [tick EXCEPT ![t].pc = "write", ![t].end = end,
             ![t].next = IF n > 0 /\ Evaluable(tick[t].rule)
                         THEN Max({tick[t].through, tick[t].rule.last}) + 1 ELSE end + 1]
  BY DEF LoadMetrics
<1> DEFINE end == IF n = 0 THEN 0 ELSE tick[t].through + n
           next == IF n > 0 /\ Evaluable(tick[t].rule)
                   THEN Max({tick[t].through, tick[t].rule.last}) + 1 ELSE end + 1
           k == [tick[t] EXCEPT !.pc = "write", !.end = end, !.next = next]
<1>3. /\ tick[t] \in TickRecords /\ Ordered(tick[t]) /\ tick[t].top \in Nat
      /\ tick[t].through \in (0..LastBucket) \cup {None} /\ tick[t].rule \in Rules \cup {None}
  BY <1>0, TickFields
<1>4. top \in 0..LastBucket /\ tick[t].top \in 0..top /\ Limit \in Nat \ {0} /\ LastBucket \in Nat
  BY <1>0, RuleAssumption DEF Typed
<1>5. n \in Nat /\ end \in 0..top /\ (n > 0 => tick[t].through \in Nat)
  <2>1. CASE tick[t].through = None \/ ~settings.collected
    <3>1. n = 0
      BY <1>2, <2>1
    <3> QED BY <1>4, <3>1
  <2>2. CASE ~(tick[t].through = None \/ ~settings.collected)
    <3>1. n \in WalkBuckets(t)
      BY <1>2, <2>2
    <3>2. tick[t].through \in Nat
      BY <1>3, <1>4, <2>2
    <3>3. PICK b \in tick[t].top..top :
            n = IF b <= tick[t].through THEN 0 ELSE Min({Limit, b - tick[t].through})
      BY <3>1 DEF WalkBuckets, Closed
    <3>4. b \in Nat /\ b <= top
      BY <1>3, <1>4, <3>3
    <3>5. CASE b <= tick[t].through
      BY <1>4, <3>2, <3>3, <3>5
    <3>6. CASE ~(b <= tick[t].through)
      <4> DEFINE d == b - tick[t].through
      <4>0. d \in Int /\ Limit \in Int /\ n = Min({Limit, d})
        BY <1>4, <3>2, <3>3, <3>4, <3>6
      <4>1. n \in {Limit, d} /\ n <= d
        <5> HIDE DEF d
        <5> QED BY <4>0, MinOfTwo
      <4> QED BY <1>4, <3>2, <3>4, <3>6, <4>1
    <3> QED BY <3>5, <3>6
  <2> QED BY <2>1, <2>2
<1>6. next \in Nat /\ (next <= end => n > 0 /\ Evaluable(tick[t].rule))
  <2>1. CASE n > 0 /\ Evaluable(tick[t].rule)
    <3>1. tick[t].rule.last \in Nat /\ tick[t].through \in Nat
      BY <1>3, <1>4, <1>5, <2>1 DEF Evaluable, Rules
    <3>2. Max({tick[t].through, tick[t].rule.last}) \in Nat
      BY <3>1, MaxOfNats
    <3> QED BY <2>1, <3>2
  <2>2. CASE ~(n > 0 /\ Evaluable(tick[t].rule))
    <3>1. next = end + 1
      BY <2>2
    <3> QED BY <1>4, <1>5, <3>1
  <2> QED BY <2>1, <2>2
<1>7. next <= end => tick[t].rule # None /\ tick[t].rule.last < next
  <2> SUFFICES ASSUME next <= end PROVE tick[t].rule # None /\ tick[t].rule.last < next
    OBVIOUS
  <2>1. n > 0 /\ Evaluable(tick[t].rule)
    BY <1>6
  <2>2. tick[t].rule # None /\ tick[t].rule.last \in Nat /\ tick[t].through \in Nat
    BY <1>3, <1>4, <1>5, <2>1 DEF Evaluable, Rules
  <2>3. next = Max({tick[t].through, tick[t].rule.last}) + 1
    BY <2>1
  <2>4. /\ Max({tick[t].through, tick[t].rule.last}) \in Nat
        /\ Max({tick[t].through, tick[t].rule.last}) >= tick[t].rule.last
    BY <2>2, MaxOfNats
  <2> QED BY <2>2, <2>3, <2>4
<1>8. tick' = [tick EXCEPT ![t] = k]
  BY <1>0, <1>2 DEF TickInv
<1> HIDE DEF end, next
<1>9. /\ k \in TickRecords /\ k.pc = "write" /\ k.rule = tick[t].rule /\ k.fold = tick[t].fold
      /\ k.read = tick[t].read /\ k.judged = tick[t].judged /\ k.top = tick[t].top
      /\ k.end = end /\ k.next = next
  <2>1. end \in 0..LastBucket
    BY <1>4, <1>5
  <2> QED BY <1>3, <1>6, <2>1 DEF TickRecords
<1> HIDE DEF k
<1>10. Ordered(k)
  <2>1. ~k.judged
    BY <1>1, <1>3, <1>9 DEF Ordered
  <2>2. k.next <= k.end => k.rule # None /\ k.rule.last < k.next
    BY <1>7, <1>9
  <2>3. k.next <= k.end => k.rule.last < k.end
    <3> SUFFICES ASSUME k.next <= k.end PROVE k.rule.last < k.end
      OBVIOUS
    <3>1. k.rule.last \in Nat /\ k.next \in Nat /\ k.end \in Nat
      BY <1>3, <1>4, <1>5, <1>6, <1>9, <2>2 DEF Rules
    <3> QED BY <2>2, <3>1
  <2> QED BY <1>3, <1>9, <2>1, <2>2, <2>3 DEF Ordered
<1>11. /\ TickInv' /\ tick'[t] = k /\ \A u \in Ticks : u # t => tick'[u] = tick[u]
  BY <1>0, <1>8, <1>9, <1>10, SetTick
<1>12. UNCHANGED <<top, rule, breaches, through, alert, settings, hist, dropped, overlaps, events>>
  BY DEF LoadMetrics
<1>13. Quiet
  BY <1>1, <1>9, <1>11, <1>12 DEF Quiet
<1>14. Typed'
  BY <1>0, <1>5, <1>9, <1>11, <1>12 DEF Typed
<1> QED BY <1>11, <1>13, <1>14, QuietStep DEF IInv

\* A tick that ends without a word of the rule: Abort, Die, WriteDeleted, WriteOthers.
LEMMA EndInv ==
  ASSUME IInv, NEW t \in Ticks, Ends(t),
         UNCHANGED <<top, rule, breaches, settings, hist, dropped, overlaps>>,
         alert' \in BOOLEAN, through' = None \/ through' \in 0..LastBucket, events' \in 0..MaxEvents
  PROVE  IInv'
<1>1. /\ TickInv' /\ Quiet
      /\ \A u \in Ticks : tick'[u].top \in 0..top /\ tick'[u].end \in 0..top
  BY EndQuiet
<1>2. Typed'
  BY <1>1 DEF IInv, Typed
<1> QED BY <1>1, <1>2, QuietStep DEF IInv

LEMMA RestartInv ==
  ASSUME IInv, NEW s \in [paging : BOOLEAN, collected : BOOLEAN], Restart(s)
  PROVE  IInv'
<1>0. Typed
  BY DEF IInv
<1>1. /\ \A u \in Ticks : tick'[u] = NoTick
      /\ UNCHANGED <<top, rule, breaches, through, alert, hist, dropped, overlaps>>
      /\ settings' = s
  BY DEF Restart
<1>2. NoTick.pc = "idle" /\ NoTick.top = 0 /\ NoTick.end = 0
  BY DEF NoTick
<1>3. TickInv'
  BY NoTickTyped DEF Restart, TickInv
<1>4. Quiet
  BY <1>1, <1>2 DEF Quiet
<1>5. Typed'
  <2>1. events' \in 0..MaxEvents
    BY <1>0, RuleAssumption DEF Restart, Happens, Typed
  <2>2. 0 \in 0..top
    BY <1>0 DEF Typed
  <2> QED BY <1>0, <1>1, <1>2, <2>1, <2>2 DEF Typed
<1> QED BY <1>3, <1>4, <1>5, QuietStep DEF IInv

\* PATCH, a retired subject and a resolved alert.
LEMMA EditInv ==
  ASSUME IInv, UpdateRule \/ RetireSubject \/ ResolveAlert
  PROVE  IInv'
<1>0. Typed /\ TickInv
  BY DEF IInv
<1>1. /\ UNCHANGED <<top, breaches, through, settings, tick, hist, dropped, overlaps>>
      /\ alert' \in {alert, FALSE}
  BY DEF UpdateRule, RetireSubject, ResolveAlert
<1>2. events' \in 0..MaxEvents
  BY <1>0, RuleAssumption DEF UpdateRule, RetireSubject, ResolveAlert, Happens, Typed
<1>3. CASE rule' = rule
  <2>1. Quiet
    BY <1>1, <1>3 DEF Quiet
  <2>2. Typed' /\ TickInv'
    BY <1>0, <1>1, <1>2, <1>3 DEF Typed, TickInv
  <2> QED BY <2>1, <2>2, QuietStep DEF IInv
<1>4. CASE /\ rule # None
           /\ \/ rule' = [rule EXCEPT !.enabled = ~@]
              \/ rule' = [rule EXCEPT !.retired = ~@]
  <2>1. rule \in Rules
    BY <1>0, <1>4 DEF Typed
  <2>2. rule.enabled \in BOOLEAN /\ rule.retired \in BOOLEAN
    BY <2>1 DEF Rules
  <2>3. /\ rule' \in Rules
        /\ rule'.breaching = rule.breaching /\ rule'.under = rule.under
        /\ rule'.last = rule.last /\ rule'.active = rule.active
    BY <1>4, <2>1, <2>2 DEF Rules
  <2>4. rule' # None
    BY <2>3, NoRowAssumption
  <2>5. Quiet
    BY <1>1, <1>4, <2>3, <2>4 DEF Quiet
  <2>6. Typed' /\ TickInv'
    BY <1>0, <1>1, <1>2, <2>3 DEF Typed, TickInv
  <2> QED BY <2>5, <2>6, QuietStep DEF IInv
<1> QED BY <1>3, <1>4 DEF UpdateRule, RetireSubject, ResolveAlert

\* The rule goes with all its breaches.
LEMMA DeleteInv ==
  ASSUME IInv, DeleteRule \/ DeleteSubject
  PROVE  IInv'
<1>0. Typed /\ TickInv /\ RoomInv /\ ReplayInv
  BY DEF IInv
<1>1. /\ UNCHANGED <<top, through, settings, tick, hist, dropped, overlaps>>
      /\ alert' \in {alert, FALSE} /\ rule' = None /\ breaches' = [i \in Ids |-> "unused"]
  BY DEF DeleteRule, DeleteSubject
<1>2. events' \in 0..MaxEvents
  BY <1>0, RuleAssumption DEF DeleteRule, DeleteSubject, Happens, Typed
<1>3. Typed'
  BY <1>0, <1>1, <1>2 DEF Typed
<1>4. TickInv' /\ PointerInv'
  BY <1>0, <1>1 DEF TickInv, PointerInv
<1>5. Used' = {} /\ Running' = Running
  BY <1>1 DEF Used, Running, Idle
<1>6. RoomInv'
  <2>1. IsFiniteSet(Running') /\ rule' = None /\ Used' = {}
    BY <1>0, <1>1, <1>5 DEF RoomInv
  <2> QED BY <2>1 DEF RoomInv
<1>7. ReplayInv'
  BY <1>0, <1>1, <1>5 DEF ReplayInv, Unmixed
<1> QED BY <1>3, <1>4, <1>6, <1>7 DEF IInv

-----------------------------------------------------------------------------
(* The tick.                                                               *)

LEMMA MemoryTyped ==
  ASSUME Typed, PointerInv
  PROVE  /\ Memory \in Folds /\ Memory.resolved = None /\ ~Memory.opens
         /\ Memory.breach # None => Memory.breach.id \in Ids
         /\ rule # None => /\ Descends(Memory, rule.active)
                           /\ Memory.breaching = rule.breaching /\ Memory.under = rule.under
<1>1. CASE rule = None
  <2>1. Memory = NoFold
    BY <1>1 DEF Memory
  <2> QED BY <1>1, <2>1, NoFoldTyped DEF NoFold
<1>2. CASE rule # None
  <2> DEFINE b == IF rule.active \notin Ids THEN None
                  ELSE [id |-> rule.active, state |-> breaches[rule.active]]
  <2>1. /\ rule \in Rules /\ rule.breaching \in Nat /\ rule.under \in Nat
    BY <1>2 DEF Typed, Rules
  <2>2. Memory = [NoFold EXCEPT !.breaching = rule.breaching, !.under = rule.under, !.breach = b]
    BY <1>2 DEF Memory
  <2>3. rule.active \in Ids => b \in LiveBreaches /\ b.id = rule.active
    BY <1>2 DEF PointerInv, LiveBreaches
  <2>4. rule.active \notin Ids => b = None
    OBVIOUS
  <2> HIDE DEF b
  <2>5. /\ Memory.breaching = rule.breaching /\ Memory.under = rule.under /\ Memory.breach = b
        /\ Memory.resolved = None /\ ~Memory.opens
    BY <2>2 DEF NoFold
  <2>6. Memory \in Folds
    BY <2>1, <2>2, <2>3, <2>4 DEF NoFold, Folds
  <2>7. rule.active \in Ids => b # None
    BY <2>3, NotNone
  <2> QED BY <2>3, <2>4, <2>5, <2>6, <2>7 DEF Descends
<1> QED BY <1>1, <1>2

LEMMA LoadRulesInv ==
  ASSUME IInv, NEW t \in Ticks, LoadRules(t)
  PROVE  IInv'
<1>0. Typed /\ TickInv /\ PointerInv /\ RoomInv /\ ReplayInv
  BY DEF IInv
<1> DEFINE k == [NoTick EXCEPT !.pc = "watermark", !.top = top, !.rule = rule, !.fold = Memory]
<1>1. /\ tick[t].pc = "idle" /\ tick' = [tick EXCEPT ![t] = k]
      /\ UNCHANGED <<top, rule, breaches, through, alert, settings, dropped, events>>
      /\ hist' = IF overlaps' > 0 THEN <<>> ELSE hist
      /\ overlaps' = IF Running = {} THEN overlaps ELSE overlaps + 1
      /\ Running = {} \/ overlaps < MaxOverlaps
  BY DEF LoadRules, Idle, Running
<1>2. overlaps \in 0..MaxOverlaps /\ overlaps' \in 0..MaxOverlaps /\ MaxOverlaps \in Nat
  BY <1>0, <1>1, RuleAssumption DEF Typed
<1>3. /\ k \in TickRecords /\ k.pc = "watermark" /\ k.rule = rule /\ k.fold = Memory
      /\ k.read = <<>> /\ k.judged = FALSE /\ k.top = top /\ k.end = 0
  <2>1. top \in 0..LastBucket /\ rule \in Rules \cup {None} /\ Memory \in Folds
    BY <1>0, MemoryTyped DEF Typed
  <2>2. NoTick \in TickRecords
    BY NoTickTyped
  <2>3. NoTick.read = <<>> /\ NoTick.judged = FALSE /\ NoTick.end = 0
    BY DEF NoTick
  <2> QED BY <2>1, <2>2, <2>3 DEF TickRecords
<1> HIDE DEF k
<1>4. Ordered(k)
  BY <1>0, <1>3, MemoryTyped DEF Ordered
<1>5. /\ TickInv' /\ tick'[t] = k /\ \A u \in Ticks : u # t => tick'[u] = tick[u]
  BY <1>0, <1>1, <1>3, <1>4, SetTick
<1>6. Typed'
  <2>1. top \in 0..top /\ 0 \in 0..top
    BY <1>0 DEF Typed
  <2>2. hist' \in Seq(Measured)
    BY <1>0, <1>1 DEF Typed
  <2> QED BY <1>0, <1>1, <1>2, <1>3, <1>5, <2>1, <2>2 DEF Typed
<1>7. PointerInv'
  BY <1>0, <1>1 DEF PointerInv
<1>8. Running' = Running \cup {t} /\ t \notin Running /\ Used' = Used
  BY <1>1, <1>3, <1>5 DEF Running, Idle, Used
<1>9. RoomInv'
  <2>1. IsFiniteSet(Running') /\ Cardinality(Running') = Cardinality(Running) + 1
    BY <1>0, <1>8, FS_AddElement DEF RoomInv
  <2>2. Cardinality(Running) \in Nat
    BY <1>0, FS_CardinalityType DEF RoomInv
  <2>3. IsFiniteSet(Used) /\ Cardinality(Used) \in Nat
    <3>1. IsFiniteSet(Ids) /\ Used \subseteq Ids
      BY FS_Interval, RuleAssumption DEF Ids, Used
    <3> QED BY <3>1, FS_Subset, FS_CardinalityType
  <2>4. Running = {} => Cardinality(Running) = 0
    BY FS_EmptySet
  <2>5. rule' = None => Used' = {}
    BY <1>0, <1>1, <1>8 DEF RoomInv
  <2>6. ASSUME rule # None
        PROVE  /\ Cardinality(Used) <= rule.last + overlaps'
               /\ Cardinality(Used) + Cardinality(Running) + 1 <= rule.last + overlaps' + 1
    <3>1. rule.last \in Nat
      BY <1>0, <2>6, RuleAssumption DEF Typed, Rules
    <3>2. /\ Cardinality(Used) <= rule.last + overlaps
          /\ Cardinality(Used) + Cardinality(Running) <= rule.last + overlaps + 1
      BY <1>0, <2>6 DEF RoomInv
    <3> QED BY <1>1, <1>2, <2>2, <2>3, <2>4, <3>1, <3>2
  <2>7. ASSUME rule # None, NEW u \in Running, u # t, tick[u].rule # None
        PROVE  Cardinality(Used) + Cardinality(Running) + 1 <= tick[u].rule.last + overlaps' + 1
    <3>1. Running # {} /\ overlaps' = overlaps + 1
      BY <1>1, <2>7
    <3>2. Cardinality(Used) + Cardinality(Running) <= tick[u].rule.last + overlaps + 1
      BY <1>0, <2>7 DEF RoomInv
    <3>3. tick[u].rule.last \in Nat
      BY <1>0, <2>7, RuleAssumption DEF TickInv, TickRecords, Rules, Running
    <3> QED BY <1>2, <2>2, <2>3, <3>1, <3>2, <3>3
  <2>8. ASSUME rule' # None, NEW u \in Running', tick'[u].rule # None
        PROVE  Cardinality(Used') + Cardinality(Running') <= tick'[u].rule.last + overlaps' + 1
    <3>1. CASE u = t
      <4>1. tick'[u].rule = rule /\ rule # None
        BY <1>1, <1>3, <1>5, <2>8, <3>1
      <4>2. rule.last \in Nat
        BY <1>0, <4>1, RuleAssumption DEF Typed, Rules
      <4> QED BY <1>2, <1>8, <2>1, <2>2, <2>3, <2>6, <4>1, <4>2
    <3>2. CASE u # t
      <4>1. u \in Running /\ tick'[u] = tick[u]
        BY <1>5, <1>8, <2>8, <3>2 DEF Running
      <4>2. tick[u].rule.last \in Nat
        BY <1>0, <2>8, <4>1, RuleAssumption DEF TickInv, TickRecords, Rules, Running
      <4>3. rule # None
        BY <1>1, <2>8
      <4> QED BY <1>2, <1>8, <2>1, <2>2, <2>3, <2>7, <2>8, <3>2, <4>1, <4>2, <4>3
    <3> QED BY <3>1, <3>2
  <2>9. ASSUME rule' # None
        PROVE  /\ Cardinality(Used') <= rule'.last + overlaps'
               /\ Cardinality(Used') + Cardinality(Running') <= rule'.last + overlaps' + 1
    <3>1. rule' = rule /\ rule # None
      BY <1>1, <2>9
    <3>2. rule.last \in Nat
      BY <1>0, <3>1, RuleAssumption DEF Typed, Rules
    <3> QED BY <1>2, <1>8, <2>1, <2>2, <2>3, <2>6, <3>1, <3>2
  <2>10. Used' = Used /\ \A u \in Running' : rule' # None => Stored(tick'[u].fold)
    <3> SUFFICES ASSUME NEW u \in Running', rule' # None PROVE Stored(tick'[u].fold)
      BY <1>8
    <3>1. CASE u = t
      <4>1. tick'[u].fold = Memory /\ Memory.resolved = None
        BY <1>0, <1>3, <1>5, <3>1, MemoryTyped
      <4>2. rule # None
        BY <1>1
      <4>3. rule.active \in Ids => rule.active \in Used
        BY <1>0, <4>2 DEF PointerInv, Used, Live
      <4>4. Descends(Memory, rule.active)
        BY <1>0, <4>2, MemoryTyped
      <4>5. Memory.breach # None => Memory.breach.id = rule.active
        BY <1>0, <4>1, <4>4, MemoryTyped, NotNone DEF Descends
      <4> QED BY <4>1, <4>3, <4>5 DEF Stored
    <3>2. CASE u # t
      <4>1. u \in Running /\ tick'[u] = tick[u] /\ rule # None
        BY <1>1, <1>5, <1>8, <3>2 DEF Running
      <4> QED BY <1>0, <4>1 DEF RoomInv
    <3> QED BY <3>1, <3>2
  <2> QED BY <2>1, <2>5, <2>8, <2>9, <2>10 DEF RoomInv, Stored
<1>10. ReplayInv'
  <2>1. overlaps' = 0 => overlaps = 0 /\ Running = {} /\ hist' = hist
    BY <1>1, <1>2
  <2>2. overlaps' = 0 => \A u, v \in Running' : u = v
    BY <1>8, <2>1
  <2>3. ASSUME Unmixed'
        PROVE  /\ Replays(hist', Memory')
               /\ \A i \in Ids : breaches'[i] \in Live => rule'.active = i
               /\ \A u \in Running' :
                    /\ tick'[u].rule # None /\ tick'[u].rule.active = rule'.active
                    /\ Replays(hist' \o tick'[u].read, tick'[u].fold)
                    /\ Descends(tick'[u].fold, rule'.active)
    <3>1. Unmixed /\ rule # None /\ overlaps' = 0
      BY <1>1, <2>1, <2>3 DEF Unmixed
    <3>2. Memory' = Memory
      BY <1>1 DEF Memory
    <3>3. Replays(hist, Memory) /\ \A i \in Ids : breaches[i] \in Live => rule.active = i
      BY <1>0, <3>1 DEF ReplayInv
    <3>4. hist \o <<>> = hist
      BY <1>0 DEF Typed
    <3>5. \A u \in Running' : u = t
      BY <1>8, <2>1, <3>1
    <3>6. Descends(Memory, rule.active)
      BY <1>0, <3>1, MemoryTyped
    <3> QED BY <1>1, <1>3, <1>5, <2>1, <3>1, <3>2, <3>3, <3>4, <3>5, <3>6
  <2> QED BY <2>2, <2>3 DEF ReplayInv, Replays, Trailing, LiveAfter, RunIn, Descends
<1> QED BY <1>5, <1>6, <1>7, <1>9, <1>10 DEF IInv
LEMMA ConsumeStored ==
  ASSUME NEW m \in Folds, NEW v \in Verdicts, Stored(m)
  PROVE  Stored(Consume(m, v))
<1>1. CASE v = "breach"
  BY <1>1, OnBreachIs, NotNone DEF Consume, Stored
<1>2. CASE v = "under"
  <2>1. m.under \in Nat /\ Recovery \in Nat
    BY RuleAssumption DEF Folds
  <2> QED BY <1>2, <2>1, OnUnderIs, NotNone DEF Consume, Stored
<1>3. CASE v = "none"
  BY <1>3 DEF Consume
<1> QED BY <1>1, <1>2, <1>3 DEF Verdicts

LEMMA ConcatAppend ==
  ASSUME NEW h \in Seq(Measured), NEW s \in Seq(Measured), NEW v \in Measured
  PROVE  h \o s \in Seq(Measured) /\ h \o Append(s, v) = Append(h \o s, v)
OBVIOUS

LEMMA JudgeInv ==
  ASSUME IInv, NEW t \in Ticks, NEW v \in Verdicts, Judge(t, v)
  PROVE  IInv'
<1>0. Typed /\ TickInv /\ PointerInv /\ RoomInv /\ ReplayInv
  BY DEF IInv
<1> DEFINE m == Consume(tick[t].fold, v)
           n == tick[t].next + 1
           s == IF v = "none" \/ overlaps > 0 THEN tick[t].read ELSE Append(tick[t].read, v)
           k == [tick[t] EXCEPT !.fold = m, !.next = n, !.judged = TRUE, !.read = s]
<1>1. /\ tick[t].pc = "write" /\ tick[t].next <= tick[t].end
      /\ tick' = [tick EXCEPT ![t] = k]
      /\ UNCHANGED <<top, rule, breaches, through, alert, settings, hist, dropped, overlaps,
                     events>>
  BY <1>0 DEF Judge, Judging, TickInv
<1>2. /\ tick[t] \in TickRecords /\ Ordered(tick[t]) /\ tick[t].fold \in Folds
      /\ tick[t].next \in Nat /\ tick[t].end \in 0..LastBucket /\ tick[t].read \in Seq(Measured)
      /\ tick[t].rule \in Rules \cup {None}
  BY <1>0, TickFields
<1>3. tick[t].rule # None /\ tick[t].rule.last < tick[t].end /\ tick[t].rule.last < tick[t].next
  BY <1>1, <1>2 DEF Ordered
<1>4. m \in Folds /\ n \in Nat /\ s \in Seq(Measured)
  <2>1. v # "none" => v \in Measured
    BY DEF Measured
  <2> QED BY <1>2, <2>1, ConsumeFolds
<1>5. /\ k \in TickRecords /\ k.pc = "write" /\ k.rule = tick[t].rule /\ k.fold = m
      /\ k.read = s /\ k.judged = TRUE /\ k.top = tick[t].top /\ k.end = tick[t].end /\ k.next = n
  <2> HIDE DEF m, n, s
  <2> QED BY <1>1, <1>2, <1>4 DEF TickRecords
<1>6. tick[t].rule.last < n
  <2>1. tick[t].rule.last \in Nat
    BY <1>2, <1>3, RuleAssumption DEF Rules
  <2> QED BY <1>2, <1>3, <2>1
<1> HIDE DEF k, n
<1>7. Ordered(k)
  BY <1>3, <1>5, <1>6 DEF Ordered
<1>8. /\ TickInv' /\ tick'[t] = k /\ \A u \in Ticks : u # t => tick'[u] = tick[u]
  BY <1>0, <1>1, <1>5, <1>7, SetTick
<1>9. Typed'
  BY <1>0, <1>1, <1>5, <1>8 DEF Typed
<1>10. PointerInv'
  BY <1>0, <1>1 DEF PointerInv
<1>11. /\ Running' = Running /\ Used' = Used /\ t \in Running
       /\ \A u \in Ticks : tick'[u].rule = tick[u].rule
  BY <1>1, <1>5, <1>8 DEF Running, Idle, Used
<1>12. RoomInv'
  <2>1. \A u \in Running : u \in Ticks
    BY DEF Running
  <2>2. ASSUME rule # None, NEW u \in Running PROVE Stored(tick'[u].fold)
    <3>1. Stored(tick[u].fold)
      BY <1>0, <2>2 DEF RoomInv
    <3>2. CASE u = t
      <4>1. Stored(m)
        BY <1>2, <3>1, <3>2, ConsumeStored
      <4> QED BY <1>5, <1>8, <3>2, <4>1
    <3>3. CASE u # t
      BY <1>8, <2>1, <3>1, <3>3
    <3> QED BY <3>2, <3>3
  <2>3. rule # None =>
          /\ Cardinality(Used) <= rule.last + overlaps
          /\ Cardinality(Used) + Cardinality(Running) <= rule.last + overlaps + 1
          /\ \A u \in Running : tick'[u].rule # None =>
               Cardinality(Used) + Cardinality(Running) <= tick'[u].rule.last + overlaps + 1
    BY <1>0, <1>11, <2>1 DEF RoomInv
  <2>4. IsFiniteSet(Running) /\ (rule = None => Used = {})
    BY <1>0 DEF RoomInv
  <2> QED BY <1>1, <1>11, <2>2, <2>3, <2>4 DEF RoomInv, Stored
<1>13. ReplayInv'
  <2>1. overlaps' = 0 => \A u, w \in Running' : u = w
    BY <1>0, <1>1, <1>11 DEF ReplayInv
  <2>2. ASSUME Unmixed'
        PROVE  /\ Replays(hist', Memory')
               /\ \A i \in Ids : breaches'[i] \in Live => rule'.active = i
               /\ \A u \in Running' :
                    /\ tick'[u].rule # None /\ tick'[u].rule.active = rule'.active
                    /\ Replays(hist' \o tick'[u].read, tick'[u].fold)
                    /\ Descends(tick'[u].fold, rule'.active)
    <3>1. Unmixed /\ overlaps = 0
      BY <1>1, <2>2 DEF Unmixed
    <3>2. Memory' = Memory
      BY <1>1 DEF Memory
    <3>3. /\ Replays(hist, Memory) /\ \A i \in Ids : breaches[i] \in Live => rule.active = i
          /\ tick[t].rule.active = rule.active
          /\ Replays(hist \o tick[t].read, tick[t].fold) /\ Descends(tick[t].fold, rule.active)
          /\ \A u \in Running : u = t
      BY <1>0, <1>11, <3>1 DEF ReplayInv
    <3>4. Descends(m, rule.active)
      BY <1>2, <3>3, ConsumeDescends
    <3>5. Replays(hist \o s, m)
      <4>1. CASE v = "none"
        <5>1. m = tick[t].fold /\ s = tick[t].read
          BY <4>1 DEF Consume
        <5> QED BY <3>3, <5>1
      <4>2. CASE v # "none"
        <5>1. v \in Measured /\ s = Append(tick[t].read, v) /\ hist \in Seq(Measured)
          BY <1>0, <3>1, <4>2 DEF Measured, Typed
        <5> DEFINE h == hist \o tick[t].read
        <5>2. h \in Seq(Measured) /\ hist \o s = Append(h, v) /\ Replays(h, tick[t].fold)
          <6> DEFINE d == tick[t].read
          <6>1. d \in Seq(Measured) /\ s = Append(d, v) /\ h = hist \o d
            BY <1>2, <5>1
          <6> HIDE DEF d, s, h
          <6>2. hist \o d \in Seq(Measured) /\ hist \o Append(d, v) = Append(hist \o d, v)
            BY <5>1, <6>1, ConcatAppend
          <6> QED BY <3>3, <6>1, <6>2 DEF h
        <5> HIDE DEF h
        <5>3. Replays(Append(h, v), m)
          BY <1>2, <5>1, <5>2, ConsumeReplays
        <5> QED BY <5>2, <5>3
      <4> QED BY <4>1, <4>2
    <3> HIDE DEF m, s
    <3>6. tick'[t].read = s /\ tick'[t].fold = m /\ tick'[t].rule = tick[t].rule
      BY <1>5, <1>8
    <3>7. \A u \in Running' : u = t
      BY <1>11, <3>3
    <3> QED BY <1>1, <1>3, <3>2, <3>3, <3>4, <3>5, <3>6, <3>7
  <2> QED BY <2>1, <2>2 DEF ReplayInv, Replays, Trailing, LiveAfter, RunIn, Descends
<1> QED BY <1>8, <1>9, <1>10, <1>12, <1>13 DEF IInv

LEMMA InitInv == ASSUME Init PROVE IInv
<1>1. rule = NewRule /\ rule \in Rules /\ rule # None /\ rule.last = 0 /\ rule.active = None
      /\ rule.breaching = 0 /\ rule.under = 0
  <2>1. NewRule \in Rules
    BY RuleAssumption DEF NewRule, Rules, Statuses
  <2>2. NewRule.last = 0 /\ NewRule.active = None /\ NewRule.breaching = 0 /\ NewRule.under = 0
    BY DEF NewRule
  <2> QED BY <2>1, <2>2, NoRowAssumption DEF Init
<1>2. \A t \in Ticks : tick[t] = NoTick
  BY DEF Init
<1>3. NoTick.pc = "idle" /\ NoTick.top = 0 /\ NoTick.end = 0
  BY DEF NoTick
<1>4. TickInv
  BY NoTickTyped DEF Init, TickInv
<1>5. Typed
  <2>1. top \in 0..LastBucket /\ 0 \in 0..top /\ overlaps \in 0..MaxOverlaps
        /\ events \in 0..MaxEvents
    BY RuleAssumption DEF Init
  <2>2. hist \in Seq(Measured) /\ breaches \in [Ids -> BreachStates \cup {"unused"}]
    BY DEF Init
  <2>3. settings \in [paging : BOOLEAN, collected : BOOLEAN]
    BY DEF Init
  <2>4. alert \in BOOLEAN /\ dropped \in BOOLEAN /\ through = None
    BY DEF Init
  <2> QED BY <1>1, <1>2, <1>3, <2>1, <2>2, <2>3, <2>4 DEF Typed
<1>6. PointerInv
  BY <1>1, NotNone DEF PointerInv
<1>7. Running = {} /\ Used = {}
  BY <1>2, <1>3 DEF Running, Idle, Used, Init
<1>8. RoomInv
  <2>1. IsFiniteSet({}) /\ Cardinality({}) = 0
    BY FS_EmptySet
  <2>2. overlaps = 0
    BY DEF Init
  <2> QED BY <1>1, <1>7, <2>1, <2>2 DEF RoomInv
<1>9. ReplayInv
  <2>1. Memory.breach = None /\ Memory.breaching = 0
    BY <1>1, NotNone DEF Memory, NoFold
  <2>2. hist = <<>> /\ Len(hist) = 0
    BY DEF Init
  <2>3. Replays(hist, Memory)
    BY <2>1, <2>2, RuleAssumption DEF Replays, Trailing, LiveAfter
  <2>4. \A i \in Ids : breaches[i] \notin Live
    BY DEF Init, Live
  <2> QED BY <1>7, <2>3, <2>4 DEF ReplayInv
<1> QED BY <1>4, <1>5, <1>6, <1>8, <1>9 DEF IInv
-----------------------------------------------------------------------------
(* The commit.                                                             *)

LEMMA LeastElement ==
  ASSUME NEW T, T \subseteq Nat, T # {}
  PROVE  Min(T) \in T
<1>1. PICK m \in T : \A k \in T : <<k, m>> \notin OpToRel(<, Nat)
  BY NatLessThanWellFounded, WFMin
<1>2. \A k \in T : ~(k < m)
  BY <1>1 DEF OpToRel
<1>3. \A k \in T : m <= k
  BY <1>2
<1> QED BY <1>3 DEF Min

LEMMA UsedFinite ==
  /\ IsFiniteSet(Used) /\ Cardinality(Used) \in Nat /\ Used \subseteq Ids
  /\ IsFiniteSet(Ids) /\ Cardinality(Ids) = LastBucket + MaxOverlaps
<1> DEFINE n == LastBucket + MaxOverlaps
<1>1. n \in Nat /\ Ids = 1..n
  BY RuleAssumption DEF Ids
<1> HIDE DEF n
<1>2. IsFiniteSet(Ids) /\ Cardinality(Ids) = n
  BY <1>1, FS_Interval
<1>3. Used \subseteq Ids
  BY DEF Used
<1> QED BY <1>2, <1>3, FS_Subset, FS_CardinalityType DEF n

\* A tick that inserts has judged, so a row is free.
LEMMA RowFree ==
  ASSUME IInv, NEW t \in Ticks, tick[t].pc = "write", tick[t].rule # None, rule # None,
         Inserts(tick[t].fold)
  PROVE  /\ tick[t].judged /\ tick[t].rule.last < tick[t].end
         /\ Fresh \in Ids /\ Fresh \notin Used
<1> DEFINE m == tick[t].fold
<1>1. /\ Ordered(tick[t]) /\ m \in Folds /\ tick[t].end \in 0..LastBucket
      /\ tick[t].rule \in Rules \cup {None}
  BY TickFields DEF IInv
<1>2. tick[t].judged /\ tick[t].rule.last < tick[t].end
  BY <1>1, NotNone DEF Inserts, Record, Ordered
<1>3. t \in Running /\ RoomInv
  BY DEF Running, Idle, IInv
<1>4. Cardinality(Running) \in Nat /\ Cardinality(Running) >= 1
  <2>1. IsFiniteSet(Running) /\ Running # {}
    BY <1>3 DEF RoomInv
  <2>2. Cardinality(Running) \in Nat /\ Cardinality(Running) # 0
    BY <2>1, FS_CardinalityType, FS_EmptySet
  <2> QED BY <2>2
<1>5. Cardinality(Used) + Cardinality(Running) <= tick[t].rule.last + overlaps + 1
  BY <1>3 DEF RoomInv
<1>6. /\ tick[t].rule.last \in Nat /\ overlaps \in Nat /\ overlaps <= MaxOverlaps
      /\ LastBucket \in Nat /\ MaxOverlaps \in Nat
  BY <1>1, RuleAssumption DEF IInv, Typed, Rules
<1>7. Used # Ids
  <2>1. Cardinality(Used) < Cardinality(Ids)
    BY <1>1, <1>2, <1>4, <1>5, <1>6, UsedFinite
  <2> QED BY <2>1, UsedFinite
<1> DEFINE T == {i \in Ids : breaches[i] = "unused"}
<1>8. T # {} /\ T \subseteq Nat /\ Fresh = Min(T)
  BY <1>7 DEF Used, Ids, Fresh
<1>9. Fresh \in T
  <2> HIDE DEF T
  <2> QED BY <1>8, LeastElement
<1> QED BY <1>2, <1>9 DEF Used

\* The row a tick writes, and what is in it then.
LEMMA RowWritten ==
  ASSUME IInv, NEW t \in Ticks, tick[t].pc = "write", tick[t].rule # None, rule # None
  PROVE  LET m == tick[t].fold
             b == SaveBreach(m)
         IN  /\ Record(m) = None => b = breaches
             /\ Record(m) # None => /\ RowOf(m) \in Ids /\ Record(m).state \in BreachStates
                                    /\ b = [breaches EXCEPT ![RowOf(m)] = Record(m).state]
             /\ ~Inserts(m) /\ Record(m) # None => RowOf(m) = Record(m).id /\ RowOf(m) \in Used
             /\ Inserts(m) => RowOf(m) \notin Used
             /\ b \in [Ids -> BreachStates \cup {"unused"}]
<1> DEFINE m == tick[t].fold
           b == SaveBreach(m)
<1>1. /\ m \in Folds /\ breaches \in [Ids -> BreachStates \cup {"unused"}] /\ RoomInv
  BY TickFields DEF IInv, Typed
<1>2. Record(m) = None \/ Record(m) \in LiveBreaches \/ Record(m) \in EndedBreaches
  BY <1>1, FoldFields DEF Record
<1>3. Record(m) # None =>
        Record(m).id \in Ids \cup {None} /\ Record(m).state \in BreachStates
  BY <1>2 DEF LiveBreaches, EndedBreaches, BreachStates
<1>4. Stored(m)
  BY <1>1 DEF RoomInv, Running, Idle
<1>5. ASSUME ~Inserts(m), Record(m) # None
      PROVE  RowOf(m) = Record(m).id /\ RowOf(m) \in Used /\ RowOf(m) \in Ids
  <2>1. RowOf(m) = Record(m).id /\ Record(m).id \in Ids
    BY <1>3, <1>5 DEF RowOf, Inserts
  <2> QED BY <1>4, <1>5, <2>1 DEF Record, Stored
<1>6. ASSUME Inserts(m) PROVE RowOf(m) \in Ids /\ RowOf(m) \notin Used
  BY <1>6, RowFree DEF RowOf
<1>7. Record(m) = None => b = breaches
  BY DEF SaveBreach
<1>8. Record(m) # None => b = [breaches EXCEPT ![RowOf(m)] = Record(m).state]
  BY DEF SaveBreach
<1> HIDE DEF b, m
<1>9. b \in [Ids -> BreachStates \cup {"unused"}]
  BY <1>1, <1>3, <1>7, <1>8
<1>10. Record(m) # None => RowOf(m) \in Ids
  BY <1>5, <1>6
<1> QED BY <1>3, <1>5, <1>6, <1>7, <1>8, <1>9, <1>10 DEF b, m

LEMMA PointerIs ==
  ASSUME IInv, NEW t \in Ticks, tick[t].pc = "write", tick[t].rule # None, rule # None
  PROVE  LET m == tick[t].fold
         IN  /\ Pointer(m) \in Ids \cup {None, Gone}
             /\ Pointer(m) \in Ids => m.breach # None /\ m.resolved = None
             /\ m.breach # None /\ m.resolved = None =>
                  /\ Pointer(m) = RowOf(m) /\ RowOf(m) \in Ids /\ Record(m) = m.breach
                  /\ m.breach.state \in Live /\ SaveBreach(m)[RowOf(m)] = m.breach.state
<1> DEFINE m == tick[t].fold
<1>1. m \in Folds /\ breaches \in [Ids -> BreachStates \cup {"unused"}]
  BY TickFields DEF IInv, Typed
<1>2. ASSUME m.breach # None, m.resolved = None
      PROVE  /\ Pointer(m) = RowOf(m) /\ RowOf(m) \in Ids /\ Record(m) = m.breach
             /\ m.breach.state \in Live /\ SaveBreach(m)[RowOf(m)] = m.breach.state
  <2>1. Pointer(m) = RowOf(m) /\ Record(m) = m.breach
    BY <1>2 DEF Pointer, Record
  <2>2. m.breach.state \in Live
    BY <1>1, <1>2, FoldFields DEF LiveBreaches
  <2>3. /\ RowOf(m) \in Ids /\ SaveBreach(m) = [breaches EXCEPT ![RowOf(m)] = Record(m).state]
    BY <1>2, <2>1, RowWritten
  <2> QED BY <1>1, <2>1, <2>2, <2>3
<1>3. m.breach = None => Pointer(m) = None
  BY DEF Pointer
<1>4. m.breach # None /\ m.resolved # None => Pointer(m) = Gone
  BY DEF Pointer
<1> QED BY <1>2, <1>3, <1>4, NotNone
LEMMA ReplaysSame ==
  ASSUME NEW h, NEW m, NEW w, Replays(h, m), w.breaching = m.breaching, w.under = m.under,
         w.breach = None <=> m.breach = None,
         w.breach # None => w.breach.state = m.breach.state
  PROVE  Replays(h, w)
BY DEF Replays

LEMMA WriteRuleInv ==
  ASSUME IInv, NEW t \in Ticks, tick[t].pc = "write", tick[t].rule # None, rule # None,
         WriteRule(t)
  PROVE  IInv'
<1>0. Typed /\ TickInv /\ PointerInv /\ RoomInv /\ ReplayInv
  BY DEF IInv
<1> DEFINE m == tick[t].fold
           r == tick[t].rule
           b == SaveBreach(m)
           last == IF tick[t].judged THEN tick[t].end ELSE r.last
<1>1. PICK status \in Statused(t) :
        /\ rule' = [rule EXCEPT !.breaching = m.breaching, !.under = m.under,
                                !.active = Pointer(m), !.last = last, !.status = status]
        /\ alert' = AlertAfter(status, m)
        /\ breaches' = b
        /\ dropped' = (dropped \/ (m.resolved # None /\ m.breach # None)
                               \/ (Inserts(m) /\ r.active \in Ids))
        /\ hist' = IF dropped' \/ overlaps > 0 THEN <<>> ELSE hist \o tick[t].read
        /\ through' \in WatermarkAfter(t)
        /\ Ends(t)
        /\ UNCHANGED <<top, settings, overlaps, events>>
  BY DEF WriteRule
<1>2. /\ Ordered(tick[t]) /\ m \in Folds /\ tick[t].end \in 0..LastBucket /\ r \in Rules
      /\ tick[t].judged \in BOOLEAN /\ tick[t].read \in Seq(Measured) /\ rule \in Rules
      /\ m.breaching \in Nat /\ m.under \in Nat
  BY <1>0, TickFields, FoldFields DEF Typed
<1>3. status \in Statuses
  <2>1. r.status \in Statuses
    BY <1>2 DEF Rules
  <2> QED BY <2>1 DEF Statused, Statuses
<1>4. /\ last \in 0..LastBucket /\ last >= r.last /\ r.last \in Nat
      /\ Inserts(m) => last >= r.last + 1
  <2>1. r.last \in 0..LastBucket /\ LastBucket \in Nat
    BY <1>2, RuleAssumption DEF Rules
  <2>2. tick[t].judged => r.last < tick[t].end
    BY <1>2 DEF Ordered
  <2>3. Inserts(m) => tick[t].judged
    BY RowFree
  <2> QED BY <1>2, <2>1, <2>2, <2>3
<1>5. Pointer(m) \in Ids \cup {None, Gone}
  BY PointerIs
<1> HIDE DEF last
<1>6. /\ rule' \in Rules /\ rule' # None /\ rule'.breaching = m.breaching
      /\ rule'.under = m.under /\ rule'.active = Pointer(m) /\ rule'.last = last
  <2> DEFINE p == Pointer(m)
             x == m.breaching
             y == m.under
  <2>1. /\ rule' = [rule EXCEPT !.breaching = x, !.under = y, !.active = p, !.last = last,
                                !.status = status]
        /\ x \in Nat /\ y \in Nat /\ p \in Ids \cup {None, Gone}
    BY <1>1, <1>2, <1>5
  <2> HIDE DEF p, x, y
  <2>2. /\ rule' \in Rules /\ rule'.breaching = x
        /\ rule'.under = y /\ rule'.active = p /\ rule'.last = last
    BY <1>2, <1>3, <1>4, <2>1 DEF Rules
  <2> QED BY <2>2, NoRowAssumption DEF p, x, y
<1>7. /\ TickInv' /\ tick'[t] = NoTick /\ \A u \in Ticks : u # t => tick'[u] = tick[u]
  BY <1>0, <1>1, SetTick, NoTickTyped DEF Ends
<1>8. NoTick.pc = "idle" /\ NoTick.top = 0 /\ NoTick.end = 0
  BY DEF NoTick
<1>9. breaches' \in [Ids -> BreachStates \cup {"unused"}]
  BY <1>1, RowWritten
<1>10. Typed'
  <2>1. alert' \in BOOLEAN
    BY <1>0, <1>1 DEF AlertAfter, Typed
  <2>2. dropped' \in BOOLEAN
    BY <1>0, <1>1 DEF Typed
  <2>3. hist' \in Seq(Measured)
    <3>1. hist \o tick[t].read \in Seq(Measured) /\ <<>> \in Seq(Measured)
      BY <1>0, <1>2 DEF Typed
    <3> QED BY <1>1, <3>1
  <2>4. through' = None \/ through' \in 0..LastBucket
    BY <1>1, WatermarkTyped
  <2>5. \A u \in Ticks : tick'[u].top \in 0..top /\ tick'[u].end \in 0..top
    BY <1>0, <1>7, <1>8 DEF Typed
  <2> QED BY <1>0, <1>1, <1>6, <1>9, <2>1, <2>2, <2>3, <2>4, <2>5 DEF Typed
<1>11. PointerInv'
  <2>1. ASSUME Pointer(m) \in Ids PROVE breaches'[Pointer(m)] \in Live
    BY <1>1, <2>1, PointerIs
  <2> QED BY <1>6, <2>1 DEF PointerInv
<1>12. Running' = Running \ {t} /\ t \in Running /\ \A u \in Running' : tick'[u] = tick[u]
  BY <1>7, <1>8 DEF Running, Idle
<1>13. RoomInv'
  <2>1. IsFiniteSet(Running') /\ Cardinality(Running') = Cardinality(Running) - 1
        /\ Cardinality(Running) \in Nat
    BY <1>0, <1>12, FS_RemoveElement, FS_CardinalityType DEF RoomInv
  <2>2. Used \subseteq Used' /\ Used' \subseteq Used \cup (IF Inserts(m) THEN {RowOf(m)} ELSE {})
    <3>1. CASE Record(m) = None
      BY <1>1, <3>1, RowWritten DEF Used
    <3>2. CASE Record(m) # None
      <4>1. /\ b = [breaches EXCEPT ![RowOf(m)] = Record(m).state]
            /\ Record(m).state \in BreachStates /\ RowOf(m) \in Ids
            /\ ~Inserts(m) => RowOf(m) \in Used
        BY <3>2, RowWritten
      <4>2. \A i \in Ids : i # RowOf(m) => breaches'[i] = breaches[i]
        BY <1>0, <1>1, <4>1 DEF Typed
      <4>3. breaches'[RowOf(m)] # "unused"
        BY <1>0, <1>1, <4>1 DEF Typed, BreachStates, Live
      <4> QED BY <4>1, <4>2, <4>3 DEF Used
    <3> QED BY <3>1, <3>2
  <2>3. /\ Cardinality(Used') \in Nat /\ Cardinality(Used) \in Nat
        /\ Cardinality(Used') <= Cardinality(Used) + (IF Inserts(m) THEN 1 ELSE 0)
    <3>1. IsFiniteSet(Used) /\ Cardinality(Used) \in Nat
      BY UsedFinite
    <3>2. CASE ~Inserts(m)
      <4>1. Used' = Used
        BY <2>2, <3>2
      <4> QED BY <3>1, <3>2, <4>1
    <3>3. CASE Inserts(m)
      <4>1. RowOf(m) \notin Used
        BY <3>3, RowWritten
      <4>2. /\ IsFiniteSet(Used \cup {RowOf(m)})
            /\ Cardinality(Used \cup {RowOf(m)}) = Cardinality(Used) + 1
        BY <3>1, <4>1, FS_AddElement
      <4>3. Used' \subseteq Used \cup {RowOf(m)}
        BY <2>2, <3>3
      <4>4. IsFiniteSet(Used') /\ Cardinality(Used') <= Cardinality(Used \cup {RowOf(m)})
        BY <4>2, <4>3, FS_Subset
      <4>5. Cardinality(Used') \in Nat
        BY <4>4, FS_CardinalityType
      <4> QED BY <3>1, <3>3, <4>2, <4>4, <4>5
    <3> QED BY <3>2, <3>3
  <2>4. overlaps' = overlaps /\ overlaps \in Nat
    BY <1>0, <1>1, RuleAssumption DEF Typed
  <2>5. Cardinality(Used) + Cardinality(Running) <= r.last + overlaps + 1
    BY <1>0, <1>12 DEF RoomInv
  <2>6. Cardinality(Running) >= 1
    <3>1. Cardinality(Running') \in Nat
      BY <2>1, FS_CardinalityType
    <3> QED BY <2>1, <3>1
  <2>7. /\ Cardinality(Used') <= last + overlaps
        /\ Cardinality(Used') + Cardinality(Running') <= last + overlaps + 1
        /\ Cardinality(Used') + Cardinality(Running') <= Cardinality(Used) + Cardinality(Running)
    <3>1. last \in Nat
      BY <1>4, RuleAssumption
    <3>2. CASE Inserts(m)
      BY <1>4, <2>1, <2>3, <2>4, <2>5, <2>6, <3>1, <3>2
    <3>3. CASE ~Inserts(m)
      BY <1>4, <2>1, <2>3, <2>4, <2>5, <2>6, <3>1, <3>3
    <3> QED BY <3>2, <3>3
  <2>8. ASSUME NEW u \in Running', tick'[u].rule # None
        PROVE  Cardinality(Used') + Cardinality(Running') <= tick'[u].rule.last + overlaps' + 1
    <3>1. u \in Running /\ tick'[u] = tick[u] /\ tick[u].rule # None /\ u \in Ticks
      BY <1>12, <2>8 DEF Running
    <3>2. Cardinality(Used) + Cardinality(Running) <= tick[u].rule.last + overlaps + 1
      BY <1>0, <3>1 DEF RoomInv
    <3>3. tick[u].rule \in Rules
      BY <1>0, <3>1, TickFields
    <3>4. tick[u].rule.last \in Nat
      BY <3>3, RuleAssumption DEF Rules
    <3>5. Cardinality(Running') \in Nat
      BY <2>1, FS_CardinalityType
    <3> QED BY <2>1, <2>3, <2>4, <2>7, <3>1, <3>2, <3>4, <3>5
  <2>9. ASSUME NEW u \in Running' PROVE Stored(tick[u].fold)'
    <3>1. Stored(tick[u].fold) /\ tick'[u].fold = tick[u].fold
      BY <1>0, <1>12 DEF RoomInv
    <3> QED BY <2>2, <3>1 DEF Stored
  <2> QED BY <1>6, <2>1, <2>4, <2>7, <2>8, <2>9 DEF RoomInv, Stored
<1>14. ReplayInv'
  <2>1. overlaps' = 0 => Running' = {}
    BY <1>0, <1>1, <1>12 DEF ReplayInv
  <2>2. ASSUME Unmixed'
        PROVE  /\ Replays(hist', Memory')
               /\ \A i \in Ids : breaches'[i] \in Live => rule'.active = i
    <3>1. /\ overlaps = 0 /\ Unmixed /\ hist' = hist \o tick[t].read
          /\ ~(m.resolved # None /\ m.breach # None) /\ ~(Inserts(m) /\ r.active \in Ids)
      <4>1. ~dropped' /\ overlaps' = 0
        BY <2>2 DEF Unmixed
      <4>2. ~(dropped \/ (m.resolved # None /\ m.breach # None) \/ (Inserts(m) /\ r.active \in Ids))
        BY <1>1, <4>1
      <4>3. overlaps = 0 /\ ~(overlaps > 0)
        BY <1>1, <4>1
      <4>4. hist' = hist \o tick[t].read
        BY <1>1, <4>1, <4>3
      <4> QED BY <4>2, <4>3, <4>4 DEF Unmixed
    <3>2. /\ \A i \in Ids : breaches[i] \in Live => rule.active = i
          /\ r.active = rule.active
          /\ Replays(hist', m) /\ Descends(m, rule.active)
      BY <1>0, <1>12, <3>1 DEF ReplayInv
    <3>3. CASE m.breach # None
      <4>1. m.resolved = None
        BY <3>1, <3>3
      <4>2. /\ rule'.active = RowOf(m) /\ RowOf(m) \in Ids /\ Record(m) = m.breach
            /\ m.breach.state \in Live /\ breaches'[RowOf(m)] = m.breach.state
        BY <1>1, <1>6, <3>3, <4>1, PointerIs
      <4>3. Memory'.breaching = m.breaching /\ Memory'.under = m.under
            /\ Memory'.breach = [id |-> RowOf(m), state |-> m.breach.state]
        <5>1. Memory' = [NoFold EXCEPT !.breaching = rule'.breaching, !.under = rule'.under,
                           !.breach = [id |-> RowOf(m), state |-> m.breach.state]]
          BY <1>6, <4>2 DEF Memory
        <5> QED BY <1>6, <5>1 DEF NoFold
      <4>4. Memory'.breach # None /\ Memory'.breach.state = m.breach.state
        <5>1. Memory'.breach \in LiveBreaches
          BY <4>2, <4>3 DEF LiveBreaches
        <5> QED BY <4>3, <5>1, NotNone
      <4>5. Replays(hist', Memory')
        BY <3>2, <3>3, <4>3, <4>4, ReplaysSame
      <4>6. ASSUME NEW i \in Ids, breaches'[i] \in Live, i # RowOf(m) PROVE FALSE
        <5>1. b = [breaches EXCEPT ![RowOf(m)] = Record(m).state]
          BY <3>3, <4>2, RowWritten
        <5>2. breaches[i] \in Live
          BY <1>0, <1>1, <4>6, <5>1 DEF Typed
        <5>3. rule.active = i /\ m.breach.id = i
          BY <3>2, <4>1, <4>6, <5>2 DEF Descends
        <5>4. ~Inserts(m)
          BY <4>2, <4>6, <5>3, NotNone DEF Inserts
        <5> QED BY <3>3, <4>2, <4>6, <5>3, <5>4, RowWritten
      <4> QED BY <4>2, <4>5, <4>6
    <3>4. CASE m.breach = None
      <4>1. rule'.active = None
        BY <1>6, <3>4 DEF Pointer
      <4>2. Memory'.breach = None /\ Memory'.breaching = m.breaching /\ Memory'.under = m.under
        <5>1. Memory' = [NoFold EXCEPT !.breaching = rule'.breaching, !.under = rule'.under,
                                       !.breach = None]
          BY <1>6, <4>1, NotNone DEF Memory
        <5> QED BY <1>6, <5>1 DEF NoFold
      <4>3. Replays(hist', Memory')
        BY <3>2, <3>4, <4>2, ReplaysSame
      <4>4. ASSUME NEW i \in Ids, breaches'[i] \in Live PROVE FALSE
        <5>1. CASE m.resolved = None
          <6>1. breaches' = breaches
            BY <1>1, <3>4, <5>1, RowWritten DEF Record
          <6> QED BY <3>2, <3>4, <4>4, <5>1, <6>1 DEF Descends
        <5>2. CASE m.resolved # None
          <6>1. Record(m) = m.resolved /\ m.resolved \in EndedBreaches
            BY <1>2, <5>2, FoldFields DEF Record
          <6>2. RowOf(m) \in Ids /\ b = [breaches EXCEPT ![RowOf(m)] = "RESOLVED"]
            BY <5>2, <6>1, RowWritten DEF EndedBreaches
          <6>3. i # RowOf(m) /\ breaches[i] \in Live
            BY <1>0, <1>1, <4>4, <6>2 DEF Typed, Live
          <6>4. rule.active = i /\ ~Inserts(m)
            BY <3>1, <3>2, <6>3
          <6>5. RowOf(m) = m.resolved.id /\ m.resolved.id # None
            BY <5>2, <6>1, <6>4 DEF RowOf, Inserts
          <6> QED BY <3>2, <5>2, <6>3, <6>4, <6>5 DEF Descends
        <5> QED BY <5>1, <5>2
      <4> QED BY <4>3, <4>4
    <3> QED BY <3>3, <3>4
  <2> QED BY <1>1, <2>1, <2>2 DEF ReplayInv, Unmixed, Replays, Trailing, LiveAfter, RunIn
<1> QED BY <1>7, <1>10, <1>11, <1>13, <1>14 DEF IInv
LEMMA WriteInv ==
  ASSUME IInv, NEW t \in Ticks, Write(t)
  PROVE  IInv'
<1>0. Typed
  BY DEF IInv
<1>1. alert \in BOOLEAN /\ events \in 0..MaxEvents /\ (through = None \/ through \in 0..LastBucket)
  BY <1>0 DEF Typed
<1>2. CASE tick[t].rule # None /\ rule # None /\ WriteRule(t)
  BY <1>2, WriteRuleInv DEF Write
<1>3. CASE WriteDeleted(t)
  <2>1. alert' \in BOOLEAN
    BY <1>1, <1>3 DEF WriteDeleted, AlertAfter
  <2>2. through' = None \/ through' \in 0..LastBucket
    BY <1>3, WatermarkTyped DEF WriteDeleted
  <2> QED BY <1>1, <1>3, <2>1, <2>2, EndInv DEF WriteDeleted
<1>4. CASE WriteOthers(t)
  <2>1. alert' \in BOOLEAN
    BY <1>4 DEF WriteOthers
  <2>2. through' = None \/ through' \in 0..LastBucket
    BY <1>4, WatermarkTyped DEF WriteOthers
  <2> QED BY <1>1, <1>4, <2>1, <2>2, EndInv DEF WriteOthers
<1>5. CASE Abort(t)
  BY <1>1, <1>5, EndInv DEF Abort
<1> QED BY <1>2, <1>3, <1>4, <1>5 DEF Write

LEMMA DieInv ==
  ASSUME IInv, NEW t \in Ticks, Die(t)
  PROVE  IInv'
<1>1. /\ alert \in BOOLEAN /\ events \in 0..MaxEvents /\ MaxEvents \in Nat
      /\ through = None \/ through \in 0..LastBucket
  BY RuleAssumption DEF IInv, Typed
<1>2. events' \in 0..MaxEvents
  BY <1>1 DEF Die, Happens
<1> QED BY <1>1, <1>2, EndInv DEF Die

LEMMA NextInv == ASSUME IInv, [Next]_vars PROVE IInv'
<1>1. ASSUME NEW t \in Ticks, NEW v \in Verdicts, Judge(t, v) PROVE IInv'
  BY <1>1, JudgeInv
<1>2. CASE Collect
  BY <1>2, CollectInv
<1>3. ASSUME NEW t \in Ticks, Works(t) PROVE IInv'
  BY <1>3, LoadRulesInv, LoadWatermarksInv, LoadMetricsInv, WriteInv DEF Works
<1>4. ASSUME NEW t \in Ticks, Die(t) PROVE IInv'
  BY <1>4, DieInv
<1>5. CASE UpdateRule \/ RetireSubject \/ ResolveAlert
  BY <1>5, EditInv
<1>6. CASE DeleteRule \/ DeleteSubject
  BY <1>6, DeleteInv
<1>7. ASSUME NEW s \in [paging : BOOLEAN, collected : BOOLEAN], Restart(s) PROVE IInv'
  BY <1>7, RestartInv
<1>8. CASE UNCHANGED vars
  <2>1. UNCHANGED <<top, rule, breaches, through, alert, settings, tick, hist, dropped, overlaps,
                    events>>
    BY <1>8 DEF vars
  <2>2. Quiet
    BY <2>1 DEF Quiet
  <2>3. Typed' /\ TickInv'
    BY <2>1 DEF IInv, Typed, TickInv
  <2> QED BY <2>2, <2>3, QuietStep DEF IInv
<1> QED BY <1>1, <1>2, <1>3, <1>4, <1>5, <1>6, <1>7, <1>8 DEF Next

LEMMA Invariance == Spec => []IInv
<1>1. Init => IInv
  BY InitInv
<1>2. IInv /\ [Next]_vars => IInv'
  BY NextInv
<1> QED BY <1>1, <1>2, PTL DEF Spec

-----------------------------------------------------------------------------

LEMMA ReplayRead == IInv => StateIsReplay
<1> SUFFICES ASSUME IInv, Unmixed
             PROVE  /\ IsLive <=> ShouldBeLive
                    /\ ShouldBeLive =>
                         (breaches[rule.active] = "RECOVERING" <=> hist[Len(hist)] = "under")
                    /\ \A i \in Ids : breaches[i] \in Live => rule.active = i
  BY InvTyped DEF StateIsReplay
<1>1. Typed /\ PointerInv /\ ReplayInv /\ rule # None
  BY DEF IInv, Unmixed
<1>2. Replays(hist, Memory) /\ \A i \in Ids : breaches[i] \in Live => rule.active = i
  BY <1>1 DEF ReplayInv
<1>3. ShouldBeLive <=> LiveAfter(hist)
  BY DEF ShouldBeLive, LiveAfter, RunOf, RunIn
<1>4. IsLive <=> rule.active \in Ids
  BY <1>1 DEF IsLive, PointerInv
<1>5. /\ Memory.breach # None <=> rule.active \in Ids
      /\ rule.active \in Ids => Memory.breach.state = breaches[rule.active]
      /\ Memory.under \in Nat
  <2>1. Memory \in Folds /\ Memory.resolved = None /\ Descends(Memory, rule.active)
        /\ (Memory.breach # None => Memory.breach.id \in Ids)
    BY <1>1, MemoryTyped
  <2>2. Memory.breach # None <=> rule.active \in Ids
    BY <2>1, NotNone DEF Descends
  <2>3. ASSUME rule.active \in Ids PROVE Memory.breach.state = breaches[rule.active]
    BY <1>1, <2>3 DEF Memory, NoFold
  <2> QED BY <2>1, <2>2, <2>3, FoldFields
<1>6. IsLive <=> ShouldBeLive
  BY <1>2, <1>3, <1>4, <1>5 DEF Replays
<1>7. ASSUME ShouldBeLive
      PROVE  breaches[rule.active] = "RECOVERING" <=> hist[Len(hist)] = "under"
  <2>1. /\ Trailing(hist, "under", Memory.under)
        /\ breaches[rule.active] = "RECOVERING" <=> Memory.under > 0
    BY <1>2, <1>4, <1>5, <1>6, <1>7 DEF Replays
  <2>2. Len(hist) \in Nat /\ Len(hist) > 0
    <3>1. Len(hist) \in Nat
      BY <1>1 DEF Typed
    <3>2. \E i \in 1..Len(hist) : TRUE
      BY <1>7 DEF ShouldBeLive
    <3> QED BY <3>1, <3>2
  <2>3. Memory.under > 0 <=> hist[Len(hist)] = "under"
    BY <1>5, <2>1, <2>2 DEF Trailing
  <2> QED BY <2>1, <2>3
<1> QED BY <1>2, <1>6, <1>7

\* A breach of the rule is stored as live exactly when the verdicts it was judged on
\* replay to one, and as recovering exactly when the last was under, however they were
\* cut into ticks (fold_rule, _persist).
THEOREM StateIsReplayHolds == Spec => []StateIsReplay
BY Invariance, ReplayRead, PTL

LEMMA PagesLive ==
  ASSUME IInv, [Next]_vars, ~alert, alert', rule' # None
  PROVE  IsLive'
<1>1. \/ \E t \in Ticks : Write(t) /\ tick[t].rule # None /\ rule # None /\ WriteRule(t)
      \/ alert' = alert
      \/ alert' = FALSE
      \/ alert' = (alert /\ ~settings.paging)
      \/ rule' = None
  <2>1. CASE \E t \in Ticks, v \in Verdicts : Judge(t, v)
    BY <2>1 DEF Judge
  <2>2. CASE \E t \in Ticks : Works(t)
    <3>1. PICK t \in Ticks : Works(t)
      BY <2>2
    <3>2. CASE LoadRules(t) \/ LoadWatermarks(t) \/ LoadMetrics(t)
      BY <3>2 DEF LoadRules, LoadWatermarks, LoadMetrics
    <3>3. CASE Write(t)
      BY <3>3 DEF Write, WriteDeleted, WriteOthers, Abort
    <3> QED BY <3>1, <3>2, <3>3 DEF Works
  <2>3. CASE \E t \in Ticks : Die(t)
    BY <2>3 DEF Die
  <2>4. CASE Collect
    BY <2>4 DEF Collect
  <2>5. CASE UpdateRule \/ DeleteRule \/ DeleteSubject \/ RetireSubject \/ ResolveAlert
    BY <2>5 DEF UpdateRule, DeleteRule, DeleteSubject, RetireSubject, ResolveAlert
  <2>6. CASE \E s \in [paging : BOOLEAN, collected : BOOLEAN] : Restart(s)
    BY <2>6 DEF Restart
  <2>7. CASE UNCHANGED vars
    BY <2>7 DEF vars
  <2> QED BY <2>1, <2>2, <2>3, <2>4, <2>5, <2>6, <2>7 DEF Next
<1>2. PICK t \in Ticks : Write(t) /\ tick[t].rule # None /\ rule # None /\ WriteRule(t)
  BY <1>1
<1> DEFINE m == tick[t].fold
<1>3. PICK status \in Statused(t) :
        alert' = AlertAfter(status, m) /\ breaches' = SaveBreach(m)
  BY <1>2 DEF WriteRule
<1>4. m.resolved = None /\ m.breach # None
  BY <1>3 DEF AlertAfter, HaltsPage
<1>5. rule'.active = Pointer(m)
  <2>1. rule \in Rules
    BY <1>2 DEF IInv, Typed
  <2> QED BY <1>2, <2>1 DEF WriteRule, Rules
<1>6. tick[t].pc = "write"
  BY <1>2 DEF Write
<1> QED BY <1>2, <1>3, <1>4, <1>5, <1>6, PointerIs DEF IsLive

\* A tick raises the alert only for a breach that is live in the rows it commits, or for
\* a rule that is not there any more, also when ticks overlap (compile_batch).
THEOREM PagedIsLiveHolds == Spec => PagedIsLive
<1>1. IInv /\ [Next]_vars => [~alert /\ alert' => rule' = None \/ IsLive']_vars
  BY PagesLive
<1> QED BY <1>1, Invariance, PTL DEF Spec, PagedIsLive

=============================================================================
