------------------------ MODULE SearchSchedulerProofs ------------------------
(***************************************************************************)
(* Proofs about SearchScheduler, for any number of searches, workers and   *)
(* manual requests, any periods, timeouts and faults.                      *)
(***************************************************************************)
EXTENDS SearchScheduler, FiniteSetTheorems, TLAPS

\* A worker on a run has a search, whose next_run_at is past the tick it runs:
\* the claim moved it.  Its cycle still had room for the run.
RunInv ==
  \A w \in Workers : OnRun(w) =>
    /\ job[w].search \in Searches
    /\ nextRun[job[w].search] # None
    /\ nextRun[job[w].search] > job[w].tick
    /\ cycle[w].sent < MaxDispatch

\* A manual request that is under way has a search.
ManualInv ==
  \A m \in Manuals : job[m] # NoJob => job[m].search \in Searches

IInv == TypeOK /\ RunInv /\ ManualInv /\ TickRunsOnce

-----------------------------------------------------------------------------
(* The operators.                                                          *)

\* next_fire_time never goes back, and with `after` it moves strictly on.
LEMMA NextFire ==
  ASSUME NEW s \in Searches, NEW t \in Nat
  PROVE  /\ FireFrom(s, t) \in Nat /\ FireFrom(s, t) >= t
         /\ FireAfter(s, t) \in Nat /\ FireAfter(s, t) > t
<1> DEFINE P == Period[s]
<1>1. P \in Nat /\ P > 0
  BY SchedulerAssumption
<1>2. ASSUME NEW x \in Int PROVE x % P \in Int /\ x % P >= 0
  BY <1>1, Z3
<1>3. ASSUME NEW u \in Nat PROVE u + ((-u) % P) \in Nat /\ u + ((-u) % P) >= u
  <2>1. -u \in Int
    OBVIOUS
  <2>2. (-u) % P \in Int /\ (-u) % P >= 0
    BY <1>2, <2>1
  <2> DEFINE r == (-u) % P
  <2> HIDE DEF r
  <2>3. u + r \in Nat /\ u + r >= u
    BY <2>2 DEF r
  <2> QED BY <2>3 DEF r
<1>4. t + 1 \in Nat
  OBVIOUS
<1> QED BY <1>3, <1>4 DEF FireFrom, FireAfter

\* A listing of candidates is a sequence of searches.
LEMMA ListingsType ==
  ASSUME NEW S \in SUBSET Searches, NEW q \in Listings(S)
  PROVE  q \in Seq(Searches)
<1>1. Cardinality(S) \in Nat
  BY SchedulerAssumption, FS_Subset, FS_CardinalityType
<1>2. q \in [1..Cardinality(S) -> S]
  BY DEF Listings, SetToSeqs
<1> QED BY <1>1, <1>2

\* The empty values of the tables have their types.
LEMMA EmptyTypes == NoRow \in Row /\ NoCycle \in Cycle /\ NoJob \in Job
<1>1. 0 \in Ticks /\ 0 \in 0..MaxDispatch /\ 0 \in 0..(MaxAttempts - 1)
  BY SchedulerAssumption DEF Ticks
<1>2. <<>> \in Seq(Searches)
  OBVIOUS
<1> QED BY <1>1, <1>2 DEF NoRow, NoCycle, NoJob, Row, Cycle, Job, Statuses

\* One fault more stays within the bound.
LEMMA FaultType == ASSUME IInv, Fault PROVE faults' \in 0..MaxFaults
BY SchedulerAssumption DEF IInv, TypeOK, Fault

\* The alert conditions and the ghost keep their types.
LEMMA AlertTypes ==
  ASSUME IInv, NEW s \in Searches, NEW o, NEW count
  PROVE  /\ EvaluateThreshold(s, o) => breachAlert' \in [Searches -> BOOLEAN]
         /\ EvaluateFailure(s, o, count) => failAlert' \in [Searches -> BOOLEAN]
         /\ CountRun(s, o) => /\ streak' \in [Searches -> 0..AlertAfter]
                              /\ dismissed' \in [Searches -> BOOLEAN]
<1>1. ASSUME EvaluateThreshold(s, o) PROVE breachAlert' \in [Searches -> BOOLEAN]
  BY <1>1 DEF EvaluateThreshold, IInv, TypeOK
<1>2. ASSUME EvaluateFailure(s, o, count) PROVE failAlert' \in [Searches -> BOOLEAN]
  <2> DEFINE up == IF o \in Successes THEN FALSE ELSE failAlert[s] \/ count >= AlertAfter
  <2>1. failAlert \in [Searches -> BOOLEAN]
    BY DEF IInv, TypeOK
  <2>2. failAlert' = [failAlert EXCEPT ![s] = up]
    BY <1>2 DEF EvaluateFailure
  <2>3. up \in BOOLEAN
    OBVIOUS
  <2> HIDE DEF up
  <2> QED BY <2>1, <2>2, <2>3
<1>3. ASSUME CountRun(s, o)
      PROVE  streak' \in [Searches -> 0..AlertAfter] /\ dismissed' \in [Searches -> BOOLEAN]
  BY <1>3, SchedulerAssumption DEF CountRun, IInv, TypeOK
<1> QED BY <1>1, <1>2, <1>3

-----------------------------------------------------------------------------

LEMMA InitInv == Init => IInv
<1> SUFFICES ASSUME Init PROVE IInv
  OBVIOUS
<1>1. 0 \in Ticks /\ 0 \in 0..MaxFaults /\ 0 \in 0..AlertAfter
  BY SchedulerAssumption DEF Ticks
<1>2. TypeOK
  BY <1>1, EmptyTypes DEF Init, TypeOK
<1>3. \A w \in Workers : ~OnRun(w)
  BY DEF Init, OnRun
<1>4. ManualInv
  BY DEF ManualInv, Init
<1> QED BY <1>2, <1>3, <1>4 DEF IInv, RunInv, TickRunsOnce

\* A step that leaves the workers' runs and next_run_at alone keeps the run
\* invariants.
LEMMA RunsUntouched ==
  ASSUME IInv, UNCHANGED <<nextRun, pc, cycle>>, \A w \in Workers : job'[w] = job[w]
  PROVE  RunInv' /\ TickRunsOnce'
BY DEF IInv, RunInv, TickRunsOnce, OnRun

\* A step of worker w that takes no new run keeps them, too.
LEMMA RunGoesOn ==
  ASSUME IInv, NEW w \in Workers, UNCHANGED nextRun,
         \A v \in Workers \ {w} : pc'[v] = pc[v] /\ cycle'[v] = cycle[v] /\ job'[v] = job[v],
         \A m \in Manuals : job'[m] = job[m],
         OnRun(w)' => /\ OnRun(w)
                      /\ cycle'[w].sent = cycle[w].sent
                      /\ job'[w].search = job[w].search
                      /\ job'[w].tick = job[w].tick
  PROVE  RunInv' /\ ManualInv' /\ TickRunsOnce'
<1>1. \A v \in Workers : OnRun(v)' =>
        /\ OnRun(v)
        /\ cycle'[v].sent = cycle[v].sent
        /\ job'[v].search = job[v].search
        /\ job'[v].tick = job[v].tick
  BY DEF OnRun
<1>2. ManualInv'
  BY DEF ManualInv, IInv
<1> QED BY <1>1, <1>2 DEF IInv, RunInv, TickRunsOnce

LEMMA TickInv == IInv /\ Tick => IInv'
<1> SUFFICES ASSUME IInv, Tick PROVE IInv'
  OBVIOUS
<1>1. now' \in Ticks
  BY SchedulerAssumption DEF IInv, TypeOK, Tick, Ticks
<1>2. TypeOK'
  BY <1>1 DEF IInv, TypeOK, Tick, tableVars, ghostVars
<1> QED BY <1>2, RunsUntouched DEF IInv, ManualInv, Tick, tableVars, ghostVars

LEMMA ToggleInv == ASSUME IInv, NEW s \in Operated, Toggle(s) PROVE IInv'
<1>1. TypeOK'
  BY SchedulerAssumption DEF IInv, TypeOK, Toggle, ghostVars
<1> QED BY <1>1, RunsUntouched DEF IInv, ManualInv, Toggle

LEMMA ResolveInv == ASSUME IInv, NEW s \in Operated, ResolveAlert(s) PROVE IInv'
<1>1. TypeOK'
  BY SchedulerAssumption DEF IInv, TypeOK, ResolveAlert
<1> QED BY <1>1, RunsUntouched DEF IInv, ManualInv, ResolveAlert

LEMMA LoseLockInv == IInv /\ LoseLock => IInv'
<1> SUFFICES ASSUME IInv, LoseLock PROVE IInv'
  OBVIOUS
<1>1. TypeOK'
  BY FaultType DEF IInv, TypeOK, LoseLock, tableVars, ghostVars
<1> QED BY <1>1, RunsUntouched DEF IInv, ManualInv, LoseLock, tableVars, ghostVars

LEMMA StartCycleInv == ASSUME IInv, NEW w \in Workers, StartCycle(w) PROVE IInv'
<1>1. PICK q \in Listings({s \in Searches : enabled[s]}) :
        cycle' = [cycle EXCEPT ![w] = [now |-> now, queue |-> q, sent |-> 0]]
  BY DEF StartCycle
<1>2. q \in Seq(Searches)
  BY <1>1, ListingsType
<1>3. 0 \in 0..MaxDispatch
  BY SchedulerAssumption
<1>4. [now |-> now, queue |-> q, sent |-> 0] \in Cycle
  BY <1>2, <1>3 DEF IInv, TypeOK, Cycle
<1>5. TypeOK'
  BY <1>1, <1>4 DEF IInv, TypeOK, StartCycle, tableVars, ghostVars
<1>6. ~OnRun(w)'
  BY DEF StartCycle, IInv, TypeOK, OnRun
<1> QED BY <1>1, <1>5, <1>6, RunGoesOn DEF IInv, TypeOK, StartCycle, tableVars, ghostVars

LEMMA EndCycleInv == ASSUME IInv, NEW w \in Workers, EndCycle(w) PROVE IInv'
<1>1. TypeOK'
  BY EmptyTypes DEF IInv, TypeOK, EndCycle, Unlocked, tableVars, ghostVars
<1>2. ~OnRun(w)'
  BY DEF EndCycle, IInv, TypeOK, OnRun
<1> QED BY <1>1, <1>2, RunGoesOn DEF IInv, TypeOK, EndCycle, tableVars, ghostVars

LEMMA CrashInv == ASSUME IInv, NEW w \in Workers, Crash(w) PROVE IInv'
<1>1. TypeOK'
  BY EmptyTypes, FaultType DEF IInv, TypeOK, Crash, Unlocked, tableVars, ghostVars
<1>2. ~OnRun(w)'
  BY DEF Crash, IInv, TypeOK, OnRun
<1>3. \A a \in (Workers \cup Manuals) \ {w} : job'[a] = job[a]
  BY DEF Crash, IInv, TypeOK
<1>4. \A m \in Manuals : job'[m] = job[m]
  BY <1>3, SchedulerAssumption
<1> QED BY <1>1, <1>2, <1>3, <1>4, RunGoesOn DEF IInv, TypeOK, Crash, tableVars, ghostVars

-----------------------------------------------------------------------------
(* The claim: next_run_at moves past the tick that the worker takes.       *)

\* Another worker on a run of the same search runs an earlier tick: next_run_at
\* is past it, and the new tick is next_run_at itself.
LEMMA ClaimInv ==
  ASSUME IInv, NEW w \in Workers, NEW s \in Searches,
         Claimable(s, cycle[w].now), Claim(w, s), ~OnRun(w), cycle[w].sent < MaxDispatch,
         cycle' = [cycle EXCEPT ![w].queue = Tail(@)]
  PROVE  /\ nextRun' \in [Searches -> Nat \cup {None}]
         /\ rows' \in [Searches -> [Ticks -> Row]] 
         /\ job' \in [Workers \cup Manuals -> Job]
         /\ pc' \in [Workers -> {"idle", "next", "execute", "running", "record", "write"}]
         /\ RunInv' /\ ManualInv' /\ TickRunsOnce'
<1> DEFINE tick == nextRun[s]
           t == cycle[w].now
           later == Rescheduled(s, t)
           new == [NoJob EXCEPT !.search = s, !.tick = tick]
           row == [status |-> "PENDING", created |-> now, started |-> None, asOf |-> t]
<1>1. t \in Ticks /\ t \in Nat /\ now \in Ticks
  BY SchedulerAssumption DEF IInv, TypeOK, Cycle, Ticks
<1>2. tick \in Nat /\ tick <= t /\ tick \in Ticks
  <2>1. tick \in Nat
    BY DEF Claimable, IInv, TypeOK
  <2>2. tick <= t
    BY DEF Claimable
  <2> QED BY <1>1, <2>1, <2>2, SchedulerAssumption DEF Ticks
<1>3. later \in Nat /\ later > tick
  <2>1. later \in Nat /\ later > t
    BY <1>1, NextFire DEF Rescheduled
  <2> HIDE DEF later, tick, t
  <2> QED BY <2>1, <1>1, <1>2
<1>4. nextRun' = [nextRun EXCEPT ![s] = later] /\ job' = [job EXCEPT ![w] = new]
      /\ pc' = [pc EXCEPT ![w] = "execute"]
  BY DEF Claim
<1>5. new \in Job /\ new.search = s /\ new.tick = tick
  <2> HIDE DEF tick
  <2> QED BY <1>2, EmptyTypes DEF Job
<1>6. row \in Row
  BY <1>1 DEF Row, Statuses
<1>7. rows' \in [Searches -> [Ticks -> Row]]
  <2>1. rows \in [Searches -> [Ticks -> Row]]
    BY DEF IInv, TypeOK
  <2>2. rows' = rows \/ rows' = [rows EXCEPT ![s][tick] = row]
    BY DEF Claim
  <2> HIDE DEF tick, row
  <2> QED BY <1>2, <1>6, <2>1, <2>2
<1> HIDE DEF tick, t, later, new, row
<1>8. nextRun' \in [Searches -> Nat \cup {None}]
  BY <1>3, <1>4 DEF IInv, TypeOK
<1>9. job' \in [Workers \cup Manuals -> Job]
  BY <1>4, <1>5 DEF IInv, TypeOK
<1>10. pc' \in [Workers -> {"idle", "next", "execute", "running", "record", "write"}]
  BY <1>4 DEF IInv, TypeOK
<1>11. \A v \in Workers \ {w} : pc'[v] = pc[v] /\ job'[v] = job[v] /\ cycle'[v] = cycle[v]
  BY <1>4 DEF IInv, TypeOK
<1>12. cycle'[w].sent = cycle[w].sent /\ job'[w] = new
  BY <1>4 DEF IInv, TypeOK, Cycle
<1>13. nextRun'[s] = later /\ \A r \in Searches \ {s} : nextRun'[r] = nextRun[r]
  BY <1>4 DEF IInv, TypeOK
<1>14. \A v \in Workers \ {w} : OnRun(v)' => OnRun(v)
  BY <1>11 DEF OnRun
<1>15. \A v \in Workers : OnRun(v) => job[v].tick \in Nat
  BY SchedulerAssumption DEF IInv, TypeOK, Job, Ticks
<1>16. \A v \in Workers \ {w} : OnRun(v) /\ job[v].search = s => job[v].tick < tick
  BY DEF IInv, RunInv, tick
<1>17. None \notin Nat
  BY SchedulerAssumption
<1>18. RunInv'
  <2> SUFFICES ASSUME NEW v \in Workers, OnRun(v)'
               PROVE  /\ job'[v].search \in Searches
                      /\ nextRun'[job'[v].search] # None
                      /\ nextRun'[job'[v].search] > job'[v].tick
                      /\ cycle'[v].sent < MaxDispatch
    BY DEF RunInv
  <2>1. CASE v = w
    BY <2>1, <1>3, <1>5, <1>12, <1>13, <1>17
  <2>2. CASE v # w /\ job[v].search = s
    BY <2>2, <1>2, <1>3, <1>11, <1>13, <1>14, <1>15, <1>16, <1>17 DEF IInv, RunInv
  <2>3. CASE v # w /\ job[v].search # s
    BY <2>3, <1>11, <1>13, <1>14 DEF IInv, RunInv
  <2> QED BY <2>1, <2>2, <2>3
<1>19. TickRunsOnce'
  <2> SUFFICES ASSUME NEW u \in Workers, NEW v \in Workers, u # v, OnRun(u)', OnRun(v)',
                      job'[u].search = job'[v].search
               PROVE  job'[u].tick # job'[v].tick
    BY DEF TickRunsOnce
  <2>1. CASE u = w
    BY <2>1, <1>2, <1>5, <1>11, <1>12, <1>14, <1>15, <1>16
  <2>2. CASE v = w
    BY <2>2, <1>2, <1>5, <1>11, <1>12, <1>14, <1>15, <1>16
  <2>3. CASE u # w /\ v # w
    BY <2>3, <1>11, <1>14 DEF IInv, TickRunsOnce
  <2> QED BY <2>1, <2>2, <2>3
<1>20. ManualInv'
  <2>1. \A a \in (Workers \cup Manuals) \ {w} : job'[a] = job[a]
    BY <1>4 DEF IInv, TypeOK
  <2>2. \A m \in Manuals : job'[m] = job[m]
    BY <2>1, SchedulerAssumption
  <2> QED BY <2>2 DEF ManualInv, IInv
<1> QED BY <1>7, <1>8, <1>9, <1>10, <1>18, <1>19, <1>20

\* The first sight of a search moves next_run_at from None, so no worker runs it.
LEMMA SeedInv ==
  ASSUME IInv, NEW w \in Workers, NEW s \in Searches, nextRun[s] = None, Seed(s, cycle[w].now),
         cycle' = [cycle EXCEPT ![w].queue = Tail(@)]
  PROVE  nextRun' \in [Searches -> Nat \cup {None}] /\ RunInv' /\ ManualInv' /\ TickRunsOnce'
<1>1. FireFrom(s, cycle[w].now) \in Nat
  <2>1. cycle[w].now \in Nat
    BY SchedulerAssumption DEF IInv, TypeOK, Cycle, Ticks
  <2> QED BY <2>1, NextFire
<1>2. nextRun' \in [Searches -> Nat \cup {None}]
  BY <1>1 DEF Seed, IInv, TypeOK
<1>3. \A r \in Searches \ {s} : nextRun'[r] = nextRun[r]
  BY DEF Seed, IInv, TypeOK
<1>4. \A v \in Workers : cycle'[v].sent = cycle[v].sent
  BY DEF IInv, TypeOK, Cycle
<1>5. \A v \in Workers : OnRun(v) => job[v].search # s
  BY DEF IInv, RunInv
<1>6. RunInv'
  BY <1>3, <1>4, <1>5 DEF IInv, RunInv, OnRun, Seed
<1> QED BY <1>2, <1>6 DEF IInv, ManualInv, TickRunsOnce, OnRun, Seed

LEMMA TailType ==
  ASSUME IInv, NEW w \in Workers, cycle[w].queue # <<>>,
         cycle' = [cycle EXCEPT ![w].queue = Tail(@)]
  PROVE  cycle' \in [Workers -> Cycle] /\ \A v \in Workers : cycle'[v].sent = cycle[v].sent
<1>1. cycle[w] \in Cycle
  BY DEF IInv, TypeOK
<1>2. Tail(cycle[w].queue) \in Seq(Searches)
  BY <1>1 DEF Cycle
<1>3. [cycle[w] EXCEPT !.queue = Tail(@)] \in Cycle
  BY <1>1, <1>2 DEF Cycle
<1>4. cycle' = [cycle EXCEPT ![w] = [cycle[w] EXCEPT !.queue = Tail(@)]]
  OBVIOUS
<1>5. cycle' \in [Workers -> Cycle]
  BY <1>3, <1>4 DEF IInv, TypeOK
<1> QED BY <1>5 DEF IInv, TypeOK, Cycle

LEMMA SkipLockedInv == ASSUME IInv, NEW w \in Workers, SkipLocked(w) PROVE IInv'
<1>1. cycle' \in [Workers -> Cycle] /\ \A v \in Workers : cycle'[v].sent = cycle[v].sent
  BY TailType DEF SkipLocked
<1>2. TypeOK'
  BY <1>1, FaultType DEF SkipLocked, IInv, TypeOK, tableVars, ghostVars
<1> QED BY <1>1, <1>2 DEF IInv, RunInv, ManualInv, TickRunsOnce, OnRun, SkipLocked, tableVars, ghostVars

LEMMA ProcessInv == ASSUME IInv, NEW w \in Workers, Process(w) PROVE IInv'
<1> DEFINE s == Head(cycle[w].queue)
           seedable == enabled[s] /\ s \notin BadCron /\ nextRun[s] = None
           claimable == Claimable(s, cycle[w].now)
<1>1. s \in Searches
  BY DEF Process, IInv, TypeOK, Cycle
<1>2. cycle' = [cycle EXCEPT ![w].queue = Tail(@)] /\ cycle[w].sent < MaxDispatch /\ ~OnRun(w)
  BY DEF Process, OnRun
<1>3. cycle' \in [Workers -> Cycle] /\ \A v \in Workers : cycle'[v].sent = cycle[v].sent
  BY TailType DEF Process
<1>4. UNCHANGED <<now, faults, lock, enabled, failures, failAlert, breachAlert,
                  streak, dismissed>>
      /\ contended' \in [Searches -> BOOLEAN]
  <2> DEFINE met == contended[s] \/ (claimable /\ UnderWay(s) # {})
  <2>1. contended' = [contended EXCEPT ![s] = met]
    BY DEF Process
  <2>2. met \in BOOLEAN /\ contended \in [Searches -> BOOLEAN]
    BY <1>1 DEF IInv, TypeOK
  <2>3. contended' \in [Searches -> BOOLEAN]
    <3> HIDE DEF met, s
    <3> QED BY <1>1, <2>1, <2>2
  <2> QED BY <2>3 DEF Process
<1>5. \/ claimable /\ Claim(w, s)
      \/ seedable /\ Seed(s, cycle[w].now)
      \/ UNCHANGED <<nextRun, rows, job, pc>>
  BY DEF Process
<1> HIDE DEF s
<1>6. CASE claimable /\ Claim(w, s)
  <2>1. /\ nextRun' \in [Searches -> Nat \cup {None}]
        /\ rows' \in [Searches -> [Ticks -> Row]]
        /\ job' \in [Workers \cup Manuals -> Job]
        /\ pc' \in [Workers -> {"idle", "next", "execute", "running", "record", "write"}]
        /\ RunInv' /\ ManualInv' /\ TickRunsOnce'
    BY <1>1, <1>2, <1>6, ClaimInv
  <2> QED BY <1>3, <1>4, <2>1 DEF IInv, TypeOK
<1>7. CASE seedable /\ Seed(s, cycle[w].now)
  <2>1. nextRun' \in [Searches -> Nat \cup {None}] /\ RunInv' /\ ManualInv' /\ TickRunsOnce'
    BY <1>1, <1>2, <1>7, SeedInv
  <2>2. UNCHANGED <<rows, job, pc>>
    BY <1>7 DEF Seed
  <2> QED BY <1>3, <1>4, <2>1, <2>2 DEF IInv, TypeOK
<1>8. CASE UNCHANGED <<nextRun, rows, job, pc>>
  <2>1. TypeOK'
    BY <1>3, <1>4, <1>8 DEF IInv, TypeOK
  <2>2. RunInv' /\ ManualInv' /\ TickRunsOnce'
    BY <1>3, <1>8 DEF IInv, RunInv, ManualInv, TickRunsOnce, OnRun
  <2> QED BY <2>1, <2>2 DEF IInv
<1> QED BY <1>5, <1>6, <1>7, <1>8

-----------------------------------------------------------------------------
(* The run and its record.                                                 *)

LEMMA ExecuteInv == ASSUME IInv, NEW w \in Workers, Execute(w) PROVE IInv'
<1> DEFINE s == job[w].search
           k == job[w].tick
<1>1. OnRun(w) /\ s \in Searches /\ k \in Ticks /\ job[w] \in Job
  BY DEF Execute, OnRun, IInv, RunInv, TypeOK, Job
<1>2. UNCHANGED <<now, faults, lock, enabled, nextRun, failures, failAlert, breachAlert,
                  cycle, ghostVars>>
  BY DEF Execute
<1>3. CASE /\ pc' = [pc EXCEPT ![w] = "record"] /\ UNCHANGED rows
           /\ \E o \in KnownOutcomes(w) : job' = [job EXCEPT ![w].outcome = o]
  <2>1. PICK o \in Successes \cup Failures : job' = [job EXCEPT ![w].outcome = o]
    BY <1>3 DEF KnownOutcomes, Failures
  <2>2. pc' = [pc EXCEPT ![w] = "record"] /\ UNCHANGED rows
    BY <1>3
  <2> DEFINE new == [job[w] EXCEPT !.outcome = o]
  <2>3. new \in Job /\ new.search = s /\ new.tick = k
    BY <1>1, <2>1 DEF Job
  <2>4. job' = [job EXCEPT ![w] = new]
    BY <2>1
  <2> HIDE DEF new
  <2>5. TypeOK'
    BY <1>2, <2>2, <2>3, <2>4 DEF IInv, TypeOK, ghostVars
  <2>6. \A a \in (Workers \cup Manuals) \ {w} : job'[a] = job[a]
    BY <2>4 DEF IInv, TypeOK
  <2>7. \A m \in Manuals : job'[m] = job[m]
    BY <2>6, SchedulerAssumption
  <2>8. job'[w].search = s /\ job'[w].tick = k
    BY <2>3, <2>4 DEF IInv, TypeOK
  <2>9. \A v \in Workers \ {w} : pc'[v] = pc[v]
    BY <2>2 DEF IInv, TypeOK
  <2> QED BY <1>1, <1>2, <2>5, <2>6, <2>7, <2>8, <2>9, RunGoesOn DEF IInv
<1>4. CASE /\ pc' = [pc EXCEPT ![w] = "running"] /\ UNCHANGED job
           /\ rows' = [rows EXCEPT ![s][k].status = "RUNNING",
                                   ![s][k].started = IF @ = None THEN now ELSE @]
  <2> DEFINE since == IF rows[s][k].started = None THEN now ELSE rows[s][k].started
             row == [rows[s][k] EXCEPT !.status = "RUNNING", !.started = since]
  <2>1. pc' = [pc EXCEPT ![w] = "running"] /\ UNCHANGED job
    BY <1>4
  <2>2. rows' = [rows EXCEPT ![s][k].status = "RUNNING",
                             ![s][k].started = IF @ = None THEN now ELSE @]
    BY <1>4
  <2>3. rows \in [Searches -> [Ticks -> Row]] /\ now \in Ticks
    BY DEF IInv, TypeOK
  <2>4. row \in Row
    <3>1. rows[s][k] \in Row
      BY <1>1, <2>3
    <3>2. since \in Ticks \cup {None}
      BY <2>3, <3>1 DEF Row
    <3> HIDE DEF since, s, k
    <3> QED BY <3>1, <3>2 DEF Row, Statuses
  <2>5. rows' = [rows EXCEPT ![s][k] = row]
    BY <1>1, <2>2, <2>3
  <2> HIDE DEF row
  <2>6. rows' \in [Searches -> [Ticks -> Row]]
    BY <1>1, <2>3, <2>4, <2>5
  <2>7. TypeOK'
    BY <1>2, <2>1, <2>6 DEF IInv, TypeOK, ghostVars
  <2>8. \A v \in Workers \ {w} : pc'[v] = pc[v]
    BY <2>1 DEF IInv, TypeOK
  <2> QED BY <1>1, <1>2, <2>1, <2>7, <2>8, RunGoesOn DEF IInv
<1> QED BY <1>3, <1>4 DEF Execute

LEMMA FinishInv == ASSUME IInv, NEW w \in Workers, Finish(w) PROVE IInv'
<1>1. OnRun(w) /\ job[w] \in Job
  BY DEF Finish, OnRun, IInv, TypeOK
<1>2. UNCHANGED <<now, faults, lock, tableVars, cycle, ghostVars>>
  BY DEF Finish
<1>3. PICK new \in Job, p \in {"execute", "record"} :
        /\ new.search = job[w].search
        /\ new.tick = job[w].tick
        /\ job' = [job EXCEPT ![w] = new]
        /\ pc' = [pc EXCEPT ![w] = p]
  <2>1. PICK o \in Outcomes :
          IF o = "retryable" /\ AttemptsLeft(job[w].attempt)
          THEN /\ job' = [job EXCEPT ![w].attempt = @ + 1]
               /\ pc' = [pc EXCEPT ![w] = "execute"]
          ELSE /\ job' = [job EXCEPT ![w].outcome = o]
               /\ pc' = [pc EXCEPT ![w] = "record"]
    BY DEF Finish
  <2>2. CASE o = "retryable" /\ AttemptsLeft(job[w].attempt)
    <3> DEFINE new == [job[w] EXCEPT !.attempt = @ + 1]
    <3>1. job[w].attempt + 1 \in 0..(MaxAttempts - 1)
      BY <1>1, <2>2, SchedulerAssumption DEF Job, AttemptsLeft
    <3>2. new \in Job /\ new.search = job[w].search /\ new.tick = job[w].tick
      BY <1>1, <3>1 DEF Job
    <3>3. job' = [job EXCEPT ![w] = new] /\ pc' = [pc EXCEPT ![w] = "execute"]
      BY <2>1, <2>2
    <3> QED BY <3>2, <3>3
  <2>3. CASE ~(o = "retryable" /\ AttemptsLeft(job[w].attempt))
    <3> DEFINE new == [job[w] EXCEPT !.outcome = o]
    <3>1. o \in Successes \cup Failures
      BY SchedulerAssumption DEF Successes, Failures
    <3>2. new \in Job /\ new.search = job[w].search /\ new.tick = job[w].tick
      BY <1>1, <3>1 DEF Job
    <3>3. job' = [job EXCEPT ![w] = new] /\ pc' = [pc EXCEPT ![w] = "record"]
      BY <2>1, <2>3
    <3> QED BY <3>2, <3>3
  <2> QED BY <2>2, <2>3
<1>4. TypeOK'
  BY <1>2, <1>3 DEF IInv, TypeOK, tableVars, ghostVars
<1>5. \A a \in (Workers \cup Manuals) \ {w} : job'[a] = job[a]
  BY <1>3 DEF IInv, TypeOK
<1>6. \A m \in Manuals : job'[m] = job[m]
  BY <1>5, SchedulerAssumption
<1>7. job'[w].search = job[w].search /\ job'[w].tick = job[w].tick
  BY <1>3 DEF IInv, TypeOK
<1>8. \A v \in Workers \ {w} : pc'[v] = pc[v]
  BY <1>3 DEF IInv, TypeOK
<1> QED BY <1>1, <1>2, <1>4, <1>5, <1>6, <1>7, <1>8, RunGoesOn DEF IInv, tableVars, ghostVars

\* The end of a run, recorded or not.
LEMMA NextCandidateType ==
  ASSUME IInv, NEW w \in Workers, OnRun(w), NextCandidate(w)
  PROVE  /\ pc' \in [Workers -> {"idle", "next", "execute", "running", "record", "write"}]
         /\ cycle' \in [Workers -> Cycle]
         /\ job' \in [Workers \cup Manuals -> Job]
         /\ ~OnRun(w)'
         /\ \A v \in Workers \ {w} : pc'[v] = pc[v] /\ cycle'[v] = cycle[v] /\ job'[v] = job[v]
         /\ \A m \in Manuals : job'[m] = job[m]
<1> DEFINE sent == cycle[w].sent + 1
           queue == IF job[w].outcome = "capacity" THEN <<>> ELSE cycle[w].queue
           new == [cycle[w] EXCEPT !.sent = sent, !.queue = queue]
<1>1. cycle[w] \in Cycle
  BY DEF IInv, TypeOK
<1>2. sent \in 0..MaxDispatch
  <2>1. cycle[w].sent \in 0..MaxDispatch /\ cycle[w].sent < MaxDispatch
    BY <1>1 DEF Cycle, IInv, RunInv
  <2> QED BY <2>1, SchedulerAssumption
<1>3. queue \in Seq(Searches)
  BY <1>1 DEF Cycle
<1>4. cycle' = [cycle EXCEPT ![w] = new]
  BY DEF NextCandidate, IInv, TypeOK
<1>5. new \in Cycle
  <2> HIDE DEF sent, queue
  <2> QED BY <1>1, <1>2, <1>3 DEF Cycle
<1> HIDE DEF new
<1>6. cycle' \in [Workers -> Cycle] /\ \A v \in Workers \ {w} : cycle'[v] = cycle[v]
  BY <1>4, <1>5 DEF IInv, TypeOK
<1>7. job' \in [Workers \cup Manuals -> Job]
      /\ \A a \in (Workers \cup Manuals) \ {w} : job'[a] = job[a]
  BY EmptyTypes DEF NextCandidate, IInv, TypeOK
<1>8. \A m \in Manuals : job'[m] = job[m]
  BY <1>7, SchedulerAssumption
<1> QED BY <1>6, <1>7, <1>8 DEF IInv, TypeOK, NextCandidate, OnRun

LEMMA RecordInv == ASSUME IInv, NEW w \in Workers, Record(w) PROVE IInv'
<1> DEFINE s == job[w].search
           k == job[w].tick
           o == job[w].outcome
           count == Counted(o, job[w].seen)
           final == IF o \in Successes THEN "COMPLETED" ELSE "FAILED"
           row == [rows[s][k] EXCEPT !.status = final]
<1>1. OnRun(w) /\ s \in Searches /\ k \in Ticks
  BY DEF Record, OnRun, IInv, RunInv, TypeOK, Job
<1>2. breachAlert' \in [Searches -> BOOLEAN] /\ failAlert' \in [Searches -> BOOLEAN]
      /\ streak' \in [Searches -> 0..AlertAfter] /\ dismissed' \in [Searches -> BOOLEAN]
  BY <1>1, AlertTypes DEF Record
<1>3. rows' \in [Searches -> [Ticks -> Row]]
  <2>1. rows \in [Searches -> [Ticks -> Row]] /\ final \in Statuses
    BY DEF IInv, TypeOK, Statuses
  <2>2. rows' = [rows EXCEPT ![s][k] = row]
    BY <1>1, <2>1 DEF Record
  <2>3. row \in Row
    BY <1>1, <2>1 DEF Row
  <2> HIDE DEF row
  <2> QED BY <1>1, <2>1, <2>2, <2>3
<1>4. failures' \in [Searches -> Nat] /\ contended' \in [Searches -> BOOLEAN]
  <2>1. count \in Nat /\ failures \in [Searches -> Nat] /\ contended \in [Searches -> BOOLEAN]
    BY DEF Counted, IInv, TypeOK, Job
  <2> DEFINE new == IF count = job[w].seen THEN failures[s] ELSE count
             left == contended[s] /\ ~(/\ o \in Successes
                                       /\ UnderWay(s) = {w}
                                       /\ job[w].seen = failures[s])
  <2>2. failures' = [failures EXCEPT ![s] = new] /\ contended' = [contended EXCEPT ![s] = left]
    BY DEF Record
  <2>3. new \in Nat /\ left \in BOOLEAN
    BY <1>1, <2>1
  <2> HIDE DEF new, left
  <2> QED BY <1>1, <2>1, <2>2, <2>3
<1>5. NextCandidate(w)
  BY DEF Record
<1>6. TypeOK'
  BY <1>1, <1>2, <1>3, <1>4, <1>5, NextCandidateType DEF Record, IInv, TypeOK
<1> QED BY <1>1, <1>5, <1>6, NextCandidateType, RunGoesOn DEF Record, IInv

\* The search is read again: only the worker's own state changes.
LEMMA RecordReadsInv == ASSUME IInv, NEW w \in Workers, RecordReads(w) PROVE IInv'
<1> DEFINE seen == failures[job[w].search]
           new == [job[w] EXCEPT !.seen = seen]
<1>1. OnRun(w) /\ job[w].search \in Searches /\ job[w] \in Job
  BY DEF RecordReads, OnRun, IInv, RunInv, TypeOK
<1>2. seen \in Nat
  BY <1>1 DEF IInv, TypeOK
<1>3. job' = [job EXCEPT ![w] = new]
  BY DEF RecordReads
<1>4. new \in Job /\ new.search = job[w].search /\ new.tick = job[w].tick
  <2> HIDE DEF seen
  <2> QED BY <1>1, <1>2 DEF Job
<1> HIDE DEF new
<1>5. TypeOK'
  BY <1>3, <1>4 DEF RecordReads, IInv, TypeOK, tableVars, ghostVars
<1>6. \A a \in (Workers \cup Manuals) \ {w} : job'[a] = job[a]
  BY <1>3 DEF IInv, TypeOK
<1>7. \A m \in Manuals : job'[m] = job[m]
  BY <1>6, SchedulerAssumption
<1>8. job'[w].search = job[w].search /\ job'[w].tick = job[w].tick
  BY <1>3, <1>4 DEF IInv, TypeOK
<1>9. \A v \in Workers \ {w} : pc'[v] = pc[v] /\ cycle'[v] = cycle[v]
  BY DEF RecordReads, IInv, TypeOK
<1> QED BY <1>1, <1>5, <1>6, <1>7, <1>8, <1>9, RunGoesOn DEF RecordReads, IInv, tableVars

LEMMA RecordFailsInv == ASSUME IInv, NEW w \in Workers, RecordFails(w) PROVE IInv'
<1>1. OnRun(w) /\ NextCandidate(w)
  BY DEF RecordFails, OnRun
<1>2. TypeOK'
  BY <1>1, NextCandidateType, FaultType DEF RecordFails, IInv, TypeOK, tableVars, ghostVars
<1> QED BY <1>1, <1>2, NextCandidateType, RunGoesOn DEF RecordFails, IInv, tableVars, ghostVars

-----------------------------------------------------------------------------
(* The manual run: it takes no tick and moves no next_run_at.              *)

LEMMA ManualStartInv ==
  ASSUME IInv, NEW m \in Manuals, NEW s \in Searches, ManualStart(m, s) PROVE IInv'
<1> DEFINE new == [NoJob EXCEPT !.search = s, !.seen = failures[s]]
<1>1. failures[s] \in Nat
  BY DEF IInv, TypeOK
<1>2. new \in Job /\ new.search = s
  BY <1>1, EmptyTypes DEF Job
<1>3. job' = [job EXCEPT ![m] = new]
  BY DEF ManualStart
<1> HIDE DEF new
<1>4. TypeOK'
  BY <1>2, <1>3 DEF IInv, TypeOK, ManualStart, tableVars, ghostVars
<1>5. \A a \in (Workers \cup Manuals) \ {m} : job'[a] = job[a]
  BY <1>3 DEF IInv, TypeOK
<1>6. \A w \in Workers : job'[w] = job[w]
  BY <1>5, SchedulerAssumption
<1>7. ManualInv'
  BY <1>2, <1>3, <1>5 DEF IInv, TypeOK, ManualInv
<1> QED BY <1>4, <1>6, <1>7, RunsUntouched DEF IInv, ManualStart, tableVars, ghostVars

LEMMA ManualEndInv == ASSUME IInv, NEW m \in Manuals, ManualEnd(m) PROVE IInv'
<1>1. job[m].search \in Searches
  BY DEF ManualEnd, IInv, ManualInv
<1>2. breachAlert' \in [Searches -> BOOLEAN] /\ failAlert' \in [Searches -> BOOLEAN]
      /\ streak' \in [Searches -> 0..AlertAfter] /\ dismissed' \in [Searches -> BOOLEAN]
  BY <1>1, AlertTypes DEF ManualEnd
<1>3. TypeOK'
  BY <1>2, EmptyTypes DEF IInv, TypeOK, ManualEnd
<1>4. job'[m] = NoJob /\ \A a \in (Workers \cup Manuals) \ {m} : job'[a] = job[a]
  BY DEF ManualEnd, IInv, TypeOK
<1>5. \A w \in Workers : job'[w] = job[w]
  BY <1>4, SchedulerAssumption
<1>6. ManualInv'
  BY <1>4 DEF IInv, ManualInv
<1> QED BY <1>3, <1>5, <1>6, RunsUntouched DEF IInv, ManualEnd

-----------------------------------------------------------------------------

LEMMA NextInv == IInv /\ [Next]_vars => IInv'
<1> SUFFICES ASSUME IInv, [Next]_vars PROVE IInv'
  OBVIOUS
<1>1. CASE UNCHANGED vars
  BY <1>1 DEF IInv, TypeOK, RunInv, ManualInv, TickRunsOnce, OnRun, vars, tableVars, ghostVars
<1>2. CASE Tick
  BY <1>2, TickInv
<1>3. CASE LoseLock
  BY <1>3, LoseLockInv
<1>4. CASE \E s \in Operated : Toggle(s) \/ ResolveAlert(s)
  BY <1>4, ToggleInv, ResolveInv
<1>5. ASSUME NEW w \in Workers,
             StartCycle(w) \/ WorkerStep(w) \/ SkipLocked(w) \/ RecordFails(w) \/ Crash(w)
      PROVE  IInv'
  BY <1>5, StartCycleInv, EndCycleInv, ProcessInv, SkipLockedInv, ExecuteInv, FinishInv,
     RecordReadsInv, RecordInv, RecordFailsInv, CrashInv DEF WorkerStep
<1>6. ASSUME NEW m \in Manuals, ManualEnd(m) \/ \E s \in Searches : ManualStart(m, s)
      PROVE  IInv'
  BY <1>6, ManualEndInv, ManualStartInv
<1> QED BY <1>1, <1>2, <1>3, <1>4, <1>5, <1>6 DEF Next

\* The inductive invariant holds in every behaviour of the scheduler.
THEOREM Invariance == Spec => []IInv
BY InitInv, NextInv, PTL DEF Spec

\* Every column and every worker keeps its type: in particular no cycle sends
\* more than search_max_dispatch_per_cycle runs, and no run is retried more
\* than ariel_max_retries times.
THEOREM TypeOKHolds == Spec => []TypeOK
<1>1. IInv => TypeOK
  BY DEF IInv
<1> QED BY <1>1, Invariance, PTL

\* However many cycles overlap because their lock connections were cut, and
\* whatever dies, no two workers ever run the same tick of the same search.
THEOREM TickRunsOnceHolds == Spec => []TickRunsOnce
<1>1. IInv => TickRunsOnce
  BY DEF IInv
<1> QED BY <1>1, Invariance, PTL

-----------------------------------------------------------------------------
(* The rows of a search.  IInv says who runs what; what follows says what  *)
(* the committed rows tell about it.                                       *)

\* next_run_at is past every run key that has a row and past the `now` of the
\* cycle that claimed it.
RowsBehind ==
  \A s \in Searches : \A k \in Ticks : rows[s][k].status # "none" =>
    nextRun[s] # None /\ k < nextRun[s] /\ rows[s][k].asOf < nextRun[s]

\* A row was created before it started, and both are in the past.
RowTimes ==
  \A s \in Searches : \A k \in Ticks :
    /\ rows[s][k].created <= now
    /\ rows[s][k].started # None => rows[s][k].created <= rows[s][k].started

\* The row of a run that is under way says so: nobody else writes it.
RunRow ==
  \A w \in Workers : OnRun(w) =>
    rows[job[w].search][job[w].tick].status \in {"PENDING", "RUNNING"}

\* A cycle works with a `now` that has passed.
CycleTimes == \A w \in Workers : cycle[w].now <= now

RowInv ==
  RowsBehind /\ RowTimes /\ RunRow /\ CycleTimes /\ BacklogCoalesces /\ OverlapOnlyWhenStale

\* The runs that are under way after a step were so before.
RunsKept ==
  \A w \in Workers : OnRun(w)' =>
    OnRun(w) /\ job'[w].search = job[w].search /\ job'[w].tick = job[w].tick

CyclesKept == \A w \in Workers : cycle'[w].now \in {cycle[w].now, now, 0}

\* No row appears; a row's claim stays as it is, and it starts at most now.
ClaimsKept ==
  \A s \in Searches : \A k \in Ticks :
    /\ rows'[s][k].status # "none" => rows[s][k].status # "none"
    /\ rows'[s][k].created = rows[s][k].created /\ rows'[s][k].asOf = rows[s][k].asOf
    /\ rows'[s][k].started \in {rows[s][k].started, now}

\* What all steps but the claim and the seed have in common.
Kept ==
  /\ RunsKept /\ CyclesKept /\ ClaimsKept
  /\ nextRun' = nextRun /\ now' \in {now, now + 1}

LEMMA ClocksInNat ==
  ASSUME TypeOK
  PROVE  /\ now \in Nat /\ Timeout \in Nat /\ \A w \in Workers : cycle[w].now \in Nat
         /\ \A s \in Searches : \A k \in Ticks :
              /\ rows[s][k].created \in Nat /\ rows[s][k].asOf \in Nat
              /\ rows[s][k].started \in Nat \cup {None} /\ k \in Nat
         /\ None \notin Nat
         /\ \A s \in Searches : nextRun[s] \in Nat \cup {None}
<1>1. Ticks \subseteq Nat /\ None \notin Nat /\ Timeout \in Nat
  BY SchedulerAssumption DEF Ticks
<1>2. now \in Nat /\ \A w \in Workers : cycle[w].now \in Nat
  BY <1>1 DEF TypeOK, Cycle
<1>3. ASSUME NEW s \in Searches, NEW k \in Ticks
      PROVE  /\ rows[s][k].created \in Nat /\ rows[s][k].asOf \in Nat
             /\ rows[s][k].started \in Nat \cup {None} /\ k \in Nat
  <2>1. rows[s][k] \in Row
    BY DEF TypeOK
  <2> QED BY <1>1, <2>1 DEF Row
<1>4. \A s \in Searches : nextRun[s] \in Nat \cup {None}
  BY DEF TypeOK
<1> QED BY <1>1, <1>2, <1>3, <1>4

LEMMA RunTypes ==
  ASSUME IInv, NEW w \in Workers, OnRun(w)
  PROVE  job[w].search \in Searches /\ job[w].tick \in Ticks /\ job[w] \in Job
BY DEF IInv, TypeOK, RunInv, Job

LEMMA InitRows == Init => RowInv
<1> SUFFICES ASSUME Init PROVE RowInv
  OBVIOUS
<1>1. \A w \in Workers : ~OnRun(w)
  BY DEF Init, OnRun
<1>2. \A s \in Searches : \A k \in Ticks : rows[s][k] = NoRow
  BY DEF Init
<1>3. RowsBehind /\ RowTimes /\ BacklogCoalesces
  BY <1>2 DEF Init, NoRow, RowsBehind, RowTimes, BacklogCoalesces
<1>4. CycleTimes
  BY DEF Init, NoCycle, CycleTimes
<1> QED BY <1>1, <1>3, <1>4 DEF RowInv, RunRow, OverlapOnlyWhenStale

LEMMA KeptRows ==
  ASSUME IInv, IInv', RowInv, Kept, RunRow'
  PROVE  RowInv'
<1>1. TypeOK /\ TypeOK'
  BY DEF IInv
<1>2. now \in Nat /\ now' \in Nat /\ now <= now'
  BY <1>1, ClocksInNat DEF Kept
<1>3. RowsBehind'
  <2> SUFFICES ASSUME NEW s \in Searches, NEW k \in Ticks, rows'[s][k].status # "none"
               PROVE  nextRun'[s] # None /\ k < nextRun'[s] /\ rows'[s][k].asOf < nextRun'[s]
    BY DEF RowsBehind
  <2>1. rows[s][k].status # "none" /\ rows'[s][k].asOf = rows[s][k].asOf /\ nextRun'[s] = nextRun[s]
    BY DEF Kept, ClaimsKept
  <2> QED BY <2>1 DEF RowInv, RowsBehind
<1>4. RowTimes'
  <2> SUFFICES ASSUME NEW s \in Searches, NEW k \in Ticks
               PROVE  /\ rows'[s][k].created <= now'
                      /\ rows'[s][k].started # None => rows'[s][k].created <= rows'[s][k].started
    BY DEF RowTimes
  <2>1. /\ rows[s][k].created <= now
        /\ rows[s][k].started # None => rows[s][k].created <= rows[s][k].started
        /\ rows[s][k].created \in Nat
    BY <1>1, ClocksInNat DEF RowInv, RowTimes
  <2>2. /\ rows'[s][k].created = rows[s][k].created
        /\ rows'[s][k].started = rows[s][k].started \/ rows'[s][k].started = now
    BY DEF Kept, ClaimsKept
  <2> QED BY <1>2, <2>1, <2>2
<1>5. CycleTimes'
  <2> SUFFICES ASSUME NEW w \in Workers PROVE cycle'[w].now <= now'
    BY DEF CycleTimes
  <2>1. cycle[w].now <= now /\ cycle[w].now \in Nat
    BY <1>1, ClocksInNat DEF RowInv, CycleTimes
  <2>2. cycle'[w].now \in {cycle[w].now, now, 0}
    BY DEF Kept, CyclesKept
  <2> QED BY <1>2, <2>1, <2>2
<1>6. BacklogCoalesces'
  <2> SUFFICES ASSUME NEW s \in Searches, NEW j \in Ticks, NEW k \in Ticks, j < k,
                      rows'[s][j].status # "none", rows'[s][k].status # "none"
               PROVE  rows'[s][j].asOf < k
    BY DEF BacklogCoalesces
  <2>1. /\ rows[s][j].status # "none" /\ rows[s][k].status # "none"
        /\ rows'[s][j].asOf = rows[s][j].asOf
    BY DEF Kept, ClaimsKept
  <2> QED BY <2>1 DEF RowInv, BacklogCoalesces
<1>7. OverlapOnlyWhenStale'
  <2> SUFFICES ASSUME NEW v \in Workers, NEW w \in Workers, v # w, OnRun(v)', OnRun(w)',
                      job'[v].search = job'[w].search
               PROVE  \E a \in {v, w} :
                        rows'[job'[a].search][job'[a].tick].created + 2 * Timeout <= now'
    BY DEF OverlapOnlyWhenStale
  <2>1. /\ OnRun(v) /\ job'[v].search = job[v].search /\ job'[v].tick = job[v].tick
        /\ OnRun(w) /\ job'[w].search = job[w].search /\ job'[w].tick = job[w].tick
    BY DEF Kept, RunsKept
  <2>2. PICK a \in {v, w} : rows[job[a].search][job[a].tick].created + 2 * Timeout <= now
    BY <2>1 DEF RowInv, OverlapOnlyWhenStale
  <2>3. job[a].search \in Searches /\ job[a].tick \in Ticks
    BY <2>1, RunTypes
  <2>4. /\ rows'[job'[a].search][job'[a].tick].created = rows[job[a].search][job[a].tick].created
        /\ rows[job[a].search][job[a].tick].created \in Nat /\ Timeout \in Nat
    <3>1. job'[a].search = job[a].search /\ job'[a].tick = job[a].tick
      BY <2>1
    <3>2. rows'[job[a].search][job[a].tick].created = rows[job[a].search][job[a].tick].created
      BY <2>3 DEF Kept, ClaimsKept
    <3> QED BY <1>1, <2>3, <3>1, <3>2, ClocksInNat
  <2>5. rows'[job'[a].search][job'[a].tick].created + 2 * Timeout <= now'
    BY <1>2, <2>2, <2>4
  <2> QED BY <2>5
<1> QED BY <1>3, <1>4, <1>5, <1>6, <1>7 DEF RowInv

\* A step that writes no row and no next_run_at.
LEMMA QuietRows ==
  ASSUME IInv, IInv', RowInv, RunsKept, CyclesKept, UNCHANGED <<rows, nextRun>>,
         now' \in {now, now + 1}
  PROVE  RowInv'
<1>1. ClaimsKept
  BY DEF ClaimsKept
<1>2. RunRow'
  BY DEF RunRow, RowInv, RunsKept
<1> QED BY <1>1, <1>2, KeptRows DEF Kept

\* The steps of the clock, the operator and the requests, and the loss of the lock.
LEMMA OutsideRows ==
  ASSUME IInv, IInv', RowInv,
         \/ Tick \/ LoseLock \/ UNCHANGED vars
         \/ \E s \in Operated : Toggle(s) \/ ResolveAlert(s)
         \/ \E m \in Manuals : ManualEnd(m) \/ \E s \in Searches : ManualStart(m, s)
  PROVE  RowInv'
<1>1. UNCHANGED <<rows, nextRun, pc, cycle>> /\ now' \in {now, now + 1}
  BY DEF Tick, LoseLock, Toggle, ResolveAlert, ManualEnd, ManualStart, vars, tableVars, ghostVars
<1>2. \A w \in Workers : job'[w] = job[w]
  <2>1. CASE UNCHANGED job
    BY <2>1
  <2>2. ASSUME NEW m \in Manuals, ManualEnd(m) \/ \E s \in Searches : ManualStart(m, s)
        PROVE  \A w \in Workers : job'[w] = job[w]
    <3>1. \A a \in (Workers \cup Manuals) \ {m} : job'[a] = job[a]
      BY <2>2 DEF ManualEnd, ManualStart, IInv, TypeOK
    <3> QED BY <3>1, SchedulerAssumption
  <2> QED BY <2>1, <2>2 DEF Tick, LoseLock, Toggle, ResolveAlert, vars, tableVars, ghostVars
<1>3. RunsKept /\ CyclesKept
  BY <1>1, <1>2 DEF RunsKept, CyclesKept, OnRun
<1> QED BY <1>1, <1>3, QuietRows

\* The steps of a worker that write no row.
LEMMA WorkerRows ==
  ASSUME IInv, IInv', RowInv, NEW w \in Workers,
         StartCycle(w) \/ EndCycle(w) \/ SkipLocked(w) \/ Finish(w)
           \/ RecordReads(w) \/ RecordFails(w) \/ Crash(w)
  PROVE  RowInv'
<1>1. UNCHANGED <<rows, nextRun, now>>
  BY DEF StartCycle, EndCycle, SkipLocked, Finish, RecordReads, RecordFails, Crash, tableVars, ghostVars
<1>2. TypeOK
  BY DEF IInv
<1>3. \A v \in Workers \ {w} : pc'[v] = pc[v] /\ cycle'[v] = cycle[v] /\ job'[v] = job[v]
  BY <1>2 DEF StartCycle, EndCycle, SkipLocked, Finish, RecordReads, RecordFails, NextCandidate, Crash,
       TypeOK, tableVars, ghostVars
<1>4. cycle'[w].now \in {cycle[w].now, now, 0}
  <2>1. cycle[w] \in Cycle
    BY <1>2 DEF TypeOK
  <2>2. CASE EndCycle(w) \/ Crash(w)
    BY <1>2, <2>2 DEF EndCycle, Crash, TypeOK, NoCycle
  <2>3. CASE StartCycle(w)
    BY <1>2, <2>3 DEF StartCycle, TypeOK
  <2>4. CASE SkipLocked(w) \/ Finish(w) \/ RecordReads(w)
    BY <1>2, <2>1, <2>4 DEF SkipLocked, Finish, RecordReads, TypeOK, Cycle
  <2>5. CASE RecordFails(w)
    BY <1>2, <2>1, <2>5 DEF RecordFails, NextCandidate, TypeOK, Cycle
  <2> QED BY <2>2, <2>3, <2>4, <2>5
<1>5. OnRun(w)' => OnRun(w) /\ job'[w].search = job[w].search /\ job'[w].tick = job[w].tick
  <2>1. CASE Finish(w) \/ RecordReads(w)
    <3>1. OnRun(w) /\ job[w] \in Job
      BY <1>2, <2>1 DEF Finish, RecordReads, OnRun, TypeOK
    <3> QED BY <1>2, <2>1, <3>1 DEF Finish, RecordReads, TypeOK, Job
  <2>2. CASE SkipLocked(w)
    BY <1>2, <2>2 DEF SkipLocked, OnRun, TypeOK
  <2>3. CASE StartCycle(w) \/ EndCycle(w) \/ RecordFails(w) \/ Crash(w)
    <3>1. pc'[w] \in {"idle", "next"}
      BY <1>2, <2>3 DEF StartCycle, EndCycle, RecordFails, NextCandidate, Crash, TypeOK
    <3> QED BY <3>1 DEF OnRun
  <2> QED BY <2>1, <2>2, <2>3
<1>6. RunsKept /\ CyclesKept
  BY <1>3, <1>4, <1>5 DEF RunsKept, CyclesKept, OnRun
<1> QED BY <1>1, <1>6, QuietRows

\* The run starts, or its outcome is known.  Only its own row is written.
LEMMA ExecuteRows ==
  ASSUME IInv, IInv', RowInv, NEW w \in Workers, Execute(w)
  PROVE  RowInv'
<1> DEFINE s == job[w].search
           k == job[w].tick
<1>1. OnRun(w) /\ TypeOK /\ UNCHANGED <<nextRun, now, cycle>>
  BY DEF Execute, OnRun, IInv
<1>2. s \in Searches /\ k \in Ticks /\ job[w] \in Job
  BY <1>1, RunTypes
<1>3. \A v \in Workers \ {w} : pc'[v] = pc[v] /\ job'[v] = job[v]
  BY <1>1 DEF Execute, TypeOK
<1>4. job'[w].search = s /\ job'[w].tick = k
  BY <1>1, <1>2 DEF Execute, TypeOK, Job
<1>5. RunsKept /\ CyclesKept
  BY <1>1, <1>3, <1>4 DEF RunsKept, CyclesKept, OnRun
<1>6. CASE UNCHANGED rows
  BY <1>1, <1>5, <1>6, QuietRows
<1>7. CASE rows' = [rows EXCEPT ![s][k].status = "RUNNING",
                                ![s][k].started = IF @ = None THEN now ELSE @]
  <2>1. rows \in [Searches -> [Ticks -> Row]] /\ rows[s][k] \in Row
    BY <1>1, <1>2 DEF TypeOK
  <2>2. \A r \in Searches : \A j \in Ticks : r # s \/ j # k => rows'[r][j] = rows[r][j]
    BY <1>2, <1>7, <2>1
  <2>3. rows'[s][k] = [rows[s][k] EXCEPT !.status = "RUNNING",
                          !.started = IF rows[s][k].started = None THEN now ELSE rows[s][k].started]
    BY <1>2, <1>7, <2>1
  <2>4. /\ rows'[s][k].status = "RUNNING" /\ rows'[s][k].created = rows[s][k].created
        /\ rows'[s][k].asOf = rows[s][k].asOf
        /\ rows'[s][k].started \in {rows[s][k].started, now}
    <3> HIDE DEF s, k
    <3> QED BY <2>1, <2>3 DEF Row
  <2>5. rows[s][k].status # "none"
    BY <1>1 DEF RowInv, RunRow
  <2> HIDE DEF s, k
  <2>6. ClaimsKept
    <3> SUFFICES ASSUME NEW r \in Searches, NEW j \in Ticks
                 PROVE  /\ rows'[r][j].status # "none" => rows[r][j].status # "none"
                        /\ rows'[r][j].created = rows[r][j].created
                        /\ rows'[r][j].asOf = rows[r][j].asOf
                        /\ rows'[r][j].started \in {rows[r][j].started, now}
      BY DEF ClaimsKept
    <3>1. CASE r = s /\ j = k
      BY <2>4, <2>5, <3>1
    <3>2. CASE r # s \/ j # k
      BY <2>2, <3>2
    <3> QED BY <3>1, <3>2
  <2>7. RunRow'
    <3> SUFFICES ASSUME NEW v \in Workers, OnRun(v)'
                 PROVE  rows'[job'[v].search][job'[v].tick].status \in {"PENDING", "RUNNING"}
      BY DEF RunRow
    <3>1. /\ OnRun(v) /\ job'[v].search = job[v].search /\ job'[v].tick = job[v].tick
          /\ job[v].search \in Searches /\ job[v].tick \in Ticks
      BY <1>5, RunTypes DEF RunsKept
    <3>2. rows[job[v].search][job[v].tick].status \in {"PENDING", "RUNNING"}
      BY <3>1 DEF RowInv, RunRow
    <3>3. CASE job[v].search = s /\ job[v].tick = k
      BY <2>4, <3>1, <3>3
    <3>4. CASE job[v].search # s \/ job[v].tick # k
      BY <2>2, <3>1, <3>2, <3>4
    <3> QED BY <3>3, <3>4
  <2> QED BY <1>1, <1>5, <2>6, <2>7, KeptRows DEF Kept
<1> QED BY <1>6, <1>7 DEF Execute

\* The record closes the row of a run that is then over; no other run has that row.
LEMMA RecordRows ==
  ASSUME IInv, IInv', RowInv, NEW w \in Workers, Record(w)
  PROVE  RowInv'
<1> DEFINE s == job[w].search
           k == job[w].tick
           final == IF job[w].outcome \in Successes THEN "COMPLETED" ELSE "FAILED"
<1>1. OnRun(w) /\ TypeOK /\ UNCHANGED <<nextRun, now>> /\ NextCandidate(w)
  BY DEF Record, OnRun, IInv
<1>2. s \in Searches /\ k \in Ticks
  BY <1>1, RunTypes
<1>3. /\ ~OnRun(w)'
      /\ \A v \in Workers \ {w} : pc'[v] = pc[v] /\ cycle'[v] = cycle[v] /\ job'[v] = job[v]
  BY <1>1, NextCandidateType
<1>4. cycle'[w].now = cycle[w].now
  BY <1>1 DEF NextCandidate, TypeOK, Cycle
<1>5. RunsKept /\ CyclesKept
  BY <1>3, <1>4 DEF RunsKept, CyclesKept, OnRun
<1>6. rows' = [rows EXCEPT ![s][k].status = final]
  BY DEF Record
<1>7. rows \in [Searches -> [Ticks -> Row]] /\ rows[s][k] \in Row
  BY <1>1, <1>2 DEF TypeOK
<1> HIDE DEF final
<1>8. \A r \in Searches : \A j \in Ticks : r # s \/ j # k => rows'[r][j] = rows[r][j]
  BY <1>2, <1>6, <1>7
<1>9. rows'[s][k] = [rows[s][k] EXCEPT !.status = final]
  BY <1>2, <1>6, <1>7
<1>10. rows[s][k].status # "none"
  BY <1>1 DEF RowInv, RunRow
<1> HIDE DEF s, k
<1>11. /\ rows'[s][k].created = rows[s][k].created /\ rows'[s][k].asOf = rows[s][k].asOf
       /\ rows'[s][k].started = rows[s][k].started
  BY <1>7, <1>9 DEF Row
<1>12. ClaimsKept
  <2> SUFFICES ASSUME NEW r \in Searches, NEW j \in Ticks
               PROVE  /\ rows'[r][j].status # "none" => rows[r][j].status # "none"
                      /\ rows'[r][j].created = rows[r][j].created
                      /\ rows'[r][j].asOf = rows[r][j].asOf
                      /\ rows'[r][j].started \in {rows[r][j].started, now}
    BY DEF ClaimsKept
  <2>1. CASE r = s /\ j = k
    BY <1>10, <1>11, <2>1
  <2>2. CASE r # s \/ j # k
    BY <1>8, <2>2
  <2> QED BY <2>1, <2>2
<1>13. RunRow'
  <2> SUFFICES ASSUME NEW v \in Workers, OnRun(v)'
               PROVE  rows'[job'[v].search][job'[v].tick].status \in {"PENDING", "RUNNING"}
    BY DEF RunRow
  <2>1. /\ OnRun(v) /\ job'[v].search = job[v].search /\ job'[v].tick = job[v].tick
        /\ job[v].search \in Searches /\ job[v].tick \in Ticks
    BY <1>5, RunTypes DEF RunsKept
  <2>2. rows[job[v].search][job[v].tick].status \in {"PENDING", "RUNNING"}
    BY <2>1 DEF RowInv, RunRow
  <2>3. job[v].search # s \/ job[v].tick # k
    BY <1>1, <1>3, <2>1 DEF IInv, TickRunsOnce, s, k
  <2> QED BY <1>8, <2>1, <2>2, <2>3
<1> QED BY <1>1, <1>5, <1>12, <1>13, KeptRows DEF Kept

\* A search that gets its first next_run_at has no row.
LEMMA SeedRows ==
  ASSUME IInv, IInv', RowInv, NEW w \in Workers, NEW s \in Searches, nextRun[s] = None,
         Seed(s, cycle[w].now), cycle' = [cycle EXCEPT ![w].queue = Tail(@)], UNCHANGED now
  PROVE  RowInv'
<1>1. UNCHANGED <<rows, job, pc>> /\ TypeOK
  BY DEF Seed, IInv
<1>2. \A r \in Searches \ {s} : nextRun'[r] = nextRun[r]
  BY <1>1 DEF Seed, TypeOK
<1>3. \A v \in Workers : cycle'[v].now = cycle[v].now
  BY <1>1 DEF TypeOK, Cycle
<1>4. \A k \in Ticks : rows[s][k].status = "none"
  BY DEF RowInv, RowsBehind
<1>5. RowsBehind'
  BY <1>1, <1>2, <1>4 DEF RowInv, RowsBehind
<1>6. RowTimes' /\ RunRow' /\ CycleTimes' /\ BacklogCoalesces' /\ OverlapOnlyWhenStale'
  BY <1>1, <1>3 DEF RowInv, RowTimes, RunRow, CycleTimes, BacklogCoalesces,
       OverlapOnlyWhenStale, OnRun
<1> QED BY <1>5, <1>6 DEF RowInv

\* The claim writes a row of a tick that had none, later than all the others; a
\* run of the same search that is still under way started long enough ago.
LEMMA ClaimRows ==
  ASSUME IInv, IInv', RowInv, NEW w \in Workers, NEW s \in Searches,
         Claimable(s, cycle[w].now), Claim(w, s), ~OnRun(w),
         cycle' = [cycle EXCEPT ![w].queue = Tail(@)], UNCHANGED now
  PROVE  RowInv'
<1> DEFINE tick == nextRun[s]
           t == cycle[w].now
           later == Rescheduled(s, t)
           new == [NoJob EXCEPT !.search = s, !.tick = tick]
           row == [status |-> "PENDING", created |-> now, started |-> None, asOf |-> t]
<1>1. TypeOK /\ now \in Nat /\ t \in Nat /\ t \in Ticks /\ t <= now
  BY ClocksInNat DEF IInv, TypeOK, Cycle, RowInv, CycleTimes
<1>2. tick \in Nat /\ tick <= t /\ tick \in Ticks
  <2>1. tick \in Nat
    BY <1>1 DEF Claimable, TypeOK
  <2>2. tick <= t
    BY DEF Claimable
  <2> QED BY <1>1, <2>1, <2>2, SchedulerAssumption DEF Ticks
<1>3. later \in Nat /\ later > t /\ later > tick
  <2>1. later \in Nat /\ later > t
    BY <1>1, NextFire DEF Rescheduled
  <2> HIDE DEF later, tick, t
  <2> QED BY <2>1, <1>1, <1>2
<1>4. rows[s][tick].status = "none"
  BY <1>2 DEF RowInv, RowsBehind
<1>5. /\ nextRun' = [nextRun EXCEPT ![s] = later] /\ job' = [job EXCEPT ![w] = new]
      /\ pc' = [pc EXCEPT ![w] = "execute"] /\ rows' = [rows EXCEPT ![s][tick] = row]
  BY <1>4 DEF Claim
<1>6. \A j \in Ticks : rows[s][j].status # "none" => j < tick /\ rows[s][j].asOf < tick
  BY DEF RowInv, RowsBehind
<1>7. \A j \in Ticks : rows[s][j].status \in {"PENDING", "RUNNING"} =>
        rows[s][j].created + 2 * Timeout <= now
  <2> SUFFICES ASSUME NEW j \in Ticks, rows[s][j].status \in {"PENDING", "RUNNING"}
               PROVE  rows[s][j].created + 2 * Timeout <= now
    OBVIOUS
  <2>1. ~(Since(rows[s][j]) > t - 2 * Timeout)
    BY DEF Claimable, InFlight
  <2>2. /\ rows[s][j].created \in Nat /\ rows[s][j].started \in Nat \cup {None}
        /\ None \notin Nat /\ Timeout \in Nat
    BY <1>1, ClocksInNat
  <2>3. rows[s][j].started # None => rows[s][j].created <= rows[s][j].started
    BY DEF RowInv, RowTimes
  <2> DEFINE c == rows[s][j].created
             b == Since(rows[s][j])
  <2>4. c <= b /\ b \in Nat /\ c \in Nat
    BY <2>2, <2>3 DEF Since
  <2> HIDE DEF c, b, t
  <2>5. c + 2 * Timeout <= now
    BY <1>1, <2>1, <2>2, <2>4 DEF b
  <2> QED BY <2>5 DEF c
<1>8. new.search = s /\ new.tick = tick
  BY DEF NoJob
<1>9. row.status = "PENDING" /\ row.created = now /\ row.started = None /\ row.asOf = t
  OBVIOUS
<1>10. rows \in [Searches -> [Ticks -> Row]] /\ job \in [Workers \cup Manuals -> Job]
       /\ nextRun \in [Searches -> Nat \cup {None}]
       /\ pc \in [Workers -> {"idle", "next", "execute", "running", "record", "write"}]
  BY <1>1 DEF TypeOK
<1>11. \A v \in Workers : cycle'[v].now = cycle[v].now
  BY <1>1 DEF TypeOK, Cycle
<1> HIDE DEF tick, t, later, new, row
<1>12. /\ rows'[s][tick] = row
       /\ \A r \in Searches : \A j \in Ticks : r # s \/ j # tick => rows'[r][j] = rows[r][j]
  BY <1>2, <1>5, <1>10
<1>13. nextRun'[s] = later /\ \A r \in Searches \ {s} : nextRun'[r] = nextRun[r]
  BY <1>5, <1>10
<1>14. /\ job'[w] = new
       /\ \A v \in Workers \ {w} : pc'[v] = pc[v] /\ job'[v] = job[v]
  BY <1>5, <1>10
<1>15. \A v \in Workers \ {w} : OnRun(v)' => OnRun(v)
  BY <1>14 DEF OnRun
<1>16. None \notin Nat /\ Timeout \in Nat
  BY SchedulerAssumption
<1>17. RowsBehind'
  <2> SUFFICES ASSUME NEW r \in Searches, NEW j \in Ticks, rows'[r][j].status # "none"
               PROVE  nextRun'[r] # None /\ j < nextRun'[r] /\ rows'[r][j].asOf < nextRun'[r]
    BY DEF RowsBehind
  <2>1. CASE r = s /\ j = tick
    BY <1>3, <1>9, <1>12, <1>13, <1>16, <2>1
  <2>2. CASE r = s /\ j # tick
    <3>1. j < tick /\ rows'[r][j].asOf < tick /\ rows'[r][j].asOf \in Nat /\ j \in Nat
      BY <1>1, <1>6, <1>12, <2>2, ClocksInNat
    <3> QED BY <1>2, <1>3, <1>13, <1>16, <2>2, <3>1
  <2>3. CASE r # s
    BY <1>12, <1>13, <2>3 DEF RowInv, RowsBehind
  <2> QED BY <2>1, <2>2, <2>3
<1>18. RowTimes'
  <2> SUFFICES ASSUME NEW r \in Searches, NEW j \in Ticks
               PROVE  /\ rows'[r][j].created <= now
                      /\ rows'[r][j].started # None => rows'[r][j].created <= rows'[r][j].started
    BY DEF RowTimes
  <2>1. CASE r = s /\ j = tick
    BY <1>1, <1>9, <1>12, <2>1
  <2>2. CASE r # s \/ j # tick
    BY <1>12, <2>2 DEF RowInv, RowTimes
  <2> QED BY <2>1, <2>2
<1>19. RunRow'
  <2> SUFFICES ASSUME NEW v \in Workers, OnRun(v)'
               PROVE  rows'[job'[v].search][job'[v].tick].status \in {"PENDING", "RUNNING"}
    BY DEF RunRow
  <2>1. CASE v = w
    BY <1>8, <1>9, <1>12, <1>14, <2>1
  <2>2. CASE v # w
    <3>1. OnRun(v) /\ job'[v] = job[v] /\ job[v].search \in Searches /\ job[v].tick \in Ticks
      BY <1>14, <1>15, <2>2, RunTypes
    <3>2. rows[job[v].search][job[v].tick].status \in {"PENDING", "RUNNING"}
      BY <3>1 DEF RowInv, RunRow
    <3>3. job[v].search # s \/ job[v].tick # tick
      BY <1>4, <3>2 DEF tick
    <3> QED BY <1>12, <3>1, <3>2, <3>3
  <2> QED BY <2>1, <2>2
<1>20. CycleTimes'
  BY <1>11 DEF RowInv, CycleTimes
<1>21. BacklogCoalesces'
  <2> SUFFICES ASSUME NEW r \in Searches, NEW j \in Ticks, NEW k \in Ticks, j < k,
                      rows'[r][j].status # "none", rows'[r][k].status # "none"
               PROVE  rows'[r][j].asOf < k
    BY DEF BacklogCoalesces
  <2>1. CASE r # s
    BY <1>12, <2>1 DEF RowInv, BacklogCoalesces
  <2>2. CASE r = s /\ j = tick
    <3>1. rows[s][k].status # "none"
      BY <1>2, <1>12, <2>2
    <3>2. k < tick /\ k \in Nat
      BY <1>1, <1>6, <3>1, ClocksInNat
    <3> QED BY <1>2, <2>2, <3>2
  <2>3. CASE r = s /\ j # tick /\ k = tick
    BY <1>6, <1>12, <2>3
  <2>4. CASE r = s /\ j # tick /\ k # tick
    BY <1>12, <2>4 DEF RowInv, BacklogCoalesces
  <2> QED BY <2>1, <2>2, <2>3, <2>4
<1>22. ASSUME NEW v \in Workers, v # w, OnRun(v)', job'[v].search = s
       PROVE  rows'[job'[v].search][job'[v].tick].created + 2 * Timeout <= now
  <2>1. OnRun(v) /\ job'[v] = job[v] /\ job[v].search = s /\ job[v].tick \in Ticks
    BY <1>14, <1>15, <1>22, RunTypes
  <2>2. rows[s][job[v].tick].status \in {"PENDING", "RUNNING"}
    BY <2>1 DEF RowInv, RunRow
  <2>3. job[v].tick # tick
    BY <1>4, <2>2 DEF tick
  <2> QED BY <1>7, <1>12, <2>1, <2>2, <2>3
<1>23. OverlapOnlyWhenStale'
  <2> SUFFICES ASSUME NEW u \in Workers, NEW v \in Workers, u # v, OnRun(u)', OnRun(v)',
                      job'[u].search = job'[v].search
               PROVE  \E a \in {u, v} :
                        rows'[job'[a].search][job'[a].tick].created + 2 * Timeout <= now
    BY DEF OverlapOnlyWhenStale
  <2>1. CASE u = w
    <3>1. job'[v].search = s /\ v # w
      BY <1>8, <1>14, <2>1
    <3> QED BY <1>22, <3>1
  <2>2. CASE v = w
    <3>1. job'[u].search = s /\ u # w
      BY <1>8, <1>14, <2>2
    <3> QED BY <1>22, <3>1
  <2>3. CASE u # w /\ v # w
    <3>1. OnRun(u) /\ OnRun(v) /\ job'[u] = job[u] /\ job'[v] = job[v]
      BY <1>14, <1>15, <2>3
    <3>2. PICK a \in {u, v} : rows[job[a].search][job[a].tick].created + 2 * Timeout <= now
      BY <3>1 DEF RowInv, OverlapOnlyWhenStale
    <3>3. /\ job'[a] = job[a] /\ job[a].search \in Searches /\ job[a].tick \in Ticks
          /\ rows[job[a].search][job[a].tick].status \in {"PENDING", "RUNNING"}
      BY <3>1, RunTypes DEF RowInv, RunRow
    <3>4. job[a].search # s \/ job[a].tick # tick
      BY <1>4, <3>3 DEF tick
    <3>5. rows'[job'[a].search][job'[a].tick].created + 2 * Timeout <= now
      BY <1>12, <3>2, <3>3, <3>4
    <3> QED BY <3>5
  <2> QED BY <2>1, <2>2, <2>3
<1> QED BY <1>17, <1>18, <1>19, <1>20, <1>21, <1>23 DEF RowInv

LEMMA ProcessRows ==
  ASSUME IInv, IInv', RowInv, NEW w \in Workers, Process(w)
  PROVE  RowInv'
<1> DEFINE s == Head(cycle[w].queue)
           seedable == enabled[s] /\ s \notin BadCron /\ nextRun[s] = None
           claimable == Claimable(s, cycle[w].now)
<1>1. s \in Searches /\ TypeOK
  <2>1. cycle[w].queue # <<>> /\ cycle[w] \in Cycle /\ TypeOK
    BY DEF Process, IInv, TypeOK
  <2> QED BY <2>1 DEF Cycle
<1>2. cycle' = [cycle EXCEPT ![w].queue = Tail(@)] /\ ~OnRun(w) /\ UNCHANGED now
  BY DEF Process, OnRun
<1>3. \/ claimable /\ Claim(w, s)
      \/ seedable /\ Seed(s, cycle[w].now)
      \/ UNCHANGED <<nextRun, rows, job, pc>>
  BY DEF Process
<1> HIDE DEF s
<1>4. CASE claimable /\ Claim(w, s)
  BY <1>1, <1>2, <1>4, ClaimRows
<1>5. CASE seedable /\ Seed(s, cycle[w].now)
  BY <1>1, <1>2, <1>5, SeedRows
<1>6. CASE UNCHANGED <<nextRun, rows, job, pc>>
  <2>1. CyclesKept
    BY <1>1, <1>2 DEF CyclesKept, TypeOK, Cycle
  <2>2. RunsKept
    BY <1>6 DEF RunsKept, OnRun
  <2> QED BY <1>2, <1>6, <2>1, <2>2, QuietRows
<1> QED BY <1>3, <1>4, <1>5, <1>6

LEMMA NextRows == IInv /\ IInv' /\ RowInv /\ [Next]_vars => RowInv'
<1> SUFFICES ASSUME IInv, IInv', RowInv, [Next]_vars PROVE RowInv'
  OBVIOUS
<1>1. ASSUME NEW w \in Workers,
             StartCycle(w) \/ WorkerStep(w) \/ SkipLocked(w) \/ RecordFails(w) \/ Crash(w)
      PROVE  RowInv'
  BY <1>1, WorkerRows, ProcessRows, ExecuteRows, RecordRows DEF WorkerStep
<1> QED BY <1>1, OutsideRows DEF Next

LEMMA RowsInvariance == Spec => []RowInv
BY Invariance, InitRows, NextRows, PTL DEF Spec

\* Two scheduled runs of one search overlap only when one of them was claimed at
\* least twice its timeout ago, however many cycles lost their lock and whichever
\* workers died (_has_run_in_flight against the claim and the record).
THEOREM OverlapOnlyWhenStaleHolds == Spec => []OverlapOnlyWhenStale
<1>1. RowInv => OverlapOnlyWhenStale
  BY DEF RowInv
<1> QED BY <1>1, RowsInvariance, PTL

\* Once a cycle has claimed a run, no tick up to that cycle's `now` is ever run,
\* for every cron period and every delay of the workers (next_fire_time, _claim).
THEOREM BacklogCoalescesHolds == Spec => []BacklogCoalesces
<1>1. RowInv => BacklogCoalesces
  BY DEF RowInv
<1> QED BY <1>1, RowsInvariance, PTL

-----------------------------------------------------------------------------
(* The failure alert.                                                      *)

\* While runs of s have not met since its last undisturbed success: one run at
\* most is under way, none of them manual, what it read before its write is
\* still true, consecutive_failures is the streak (which the ghost counts up to
\* AlertAfter only), and the alert follows it.
Undisturbed(s) ==
  /\ \A u, v \in Workers \cup Manuals : job[u].search = s /\ job[v].search = s => u = v
  /\ \A m \in Manuals : job[m].search # s
  /\ \A w \in Workers : pc[w] = "write" /\ job[w].search = s => job[w].seen = failures[s]

CountIsStreak(s) ==
  streak[s] = IF failures[s] < AlertAfter THEN failures[s] ELSE AlertAfter

AlertFollows(s) ==
  /\ failAlert[s] => failures[s] >= AlertAfter
  /\ failures[s] >= AlertAfter => failAlert[s] \/ dismissed[s]

StreakInv ==
  \A s \in Searches : ~contended[s] => Undisturbed(s) /\ CountIsStreak(s) /\ AlertFollows(s)

LEMMA InitStreak == Init => StreakInv
<1> SUFFICES ASSUME Init, NEW s \in Searches
             PROVE  Undisturbed(s) /\ CountIsStreak(s) /\ AlertFollows(s)
  BY DEF StreakInv
<1>1. \A a \in Workers \cup Manuals : job[a].search # s
  BY SchedulerAssumption DEF Init, NoJob
<1>2. failures[s] = 0 /\ streak[s] = 0 /\ failAlert[s] = FALSE
  BY DEF Init
<1> QED BY <1>1, <1>2, SchedulerAssumption DEF Undisturbed, CountIsStreak, AlertFollows

\* The table and the ghosts of s are left alone, and nobody joins its runs.
SameCounts(s) ==
  /\ failures'[s] = failures[s] /\ streak'[s] = streak[s] /\ contended'[s] = contended[s]
  /\ failAlert'[s] = failAlert[s] /\ dismissed'[s] = dismissed[s]

NobodyJoins(s) ==
  /\ \A a \in Workers \cup Manuals : job'[a].search = s => job[a].search = s
  /\ \A w \in Workers : pc'[w] = "write" /\ job'[w].search = s =>
       pc[w] = "write" /\ job'[w].seen = job[w].seen

LEMMA QuietStreak ==
  ASSUME StreakInv, NEW s \in Searches, SameCounts(s), NobodyJoins(s), ~contended'[s]
  PROVE  (Undisturbed(s) /\ CountIsStreak(s) /\ AlertFollows(s))'
<1>1. Undisturbed(s) /\ CountIsStreak(s) /\ AlertFollows(s)
  BY DEF StreakInv, SameCounts
<1>2. Undisturbed(s)'
  BY <1>1 DEF Undisturbed, NobodyJoins, SameCounts
<1>3. CountIsStreak(s)' /\ AlertFollows(s)'
  BY <1>1 DEF CountIsStreak, AlertFollows, SameCounts
<1> QED BY <1>2, <1>3

\* The steps that touch neither the counts nor the alert nor who is on what.
LEMMA IdleStreak ==
  ASSUME IInv, StreakInv,
         \/ Tick \/ LoseLock \/ UNCHANGED vars
         \/ \E s \in Operated : Toggle(s)
         \/ \E w \in Workers : \/ StartCycle(w) \/ EndCycle(w) \/ SkipLocked(w) \/ Execute(w)
                               \/ Finish(w) \/ RecordFails(w) \/ Crash(w)
  PROVE  StreakInv'
<1> SUFFICES ASSUME NEW s \in Searches, ~contended'[s]
             PROVE  (Undisturbed(s) /\ CountIsStreak(s) /\ AlertFollows(s))'
  BY DEF StreakInv
<1>1. SameCounts(s)
  BY DEF SameCounts, Tick, LoseLock, Toggle, StartCycle, EndCycle, SkipLocked, Execute, Finish,
       RecordFails, Crash, vars, tableVars, ghostVars
<1>2. None # s /\ None \notin Searches
  BY SchedulerAssumption
<1>3. NobodyJoins(s)
  <2>1. CASE UNCHANGED <<job, pc>>
    BY <2>1 DEF NobodyJoins
  <2>2. ASSUME NEW w \in Workers, StartCycle(w) \/ EndCycle(w) PROVE NobodyJoins(s)
    BY <2>2 DEF NobodyJoins, StartCycle, EndCycle, IInv, TypeOK
  <2>3. ASSUME NEW w \in Workers, Execute(w) \/ Finish(w) PROVE NobodyJoins(s)
    <3>1. job[w] \in Job
      BY DEF IInv, TypeOK
    <3>2. PICK new \in Job : /\ job' = [job EXCEPT ![w] = new]
                             /\ new.search = job[w].search /\ new.seen = job[w].seen
      <4>1. PICK n, o : \/ job' = job
                        \/ job' = [job EXCEPT ![w].attempt = n] /\ n \in 0..(MaxAttempts - 1)
                        \/ job' = [job EXCEPT ![w].outcome = o] /\ o \in Successes \cup Failures
        <5>1. CASE Execute(w)
          BY <5>1 DEF Execute, KnownOutcomes, Failures
        <5>2. CASE Finish(w)
          <6>1. PICK o \in Outcomes :
                  IF o = "retryable" /\ AttemptsLeft(job[w].attempt)
                  THEN job' = [job EXCEPT ![w].attempt = @ + 1]
                  ELSE job' = [job EXCEPT ![w].outcome = o]
            BY <5>2 DEF Finish
          <6>2. o \in Successes \cup Failures
            BY SchedulerAssumption DEF Successes, Failures
          <6>3. AttemptsLeft(job[w].attempt) => job[w].attempt + 1 \in 0..(MaxAttempts - 1)
            BY <3>1, SchedulerAssumption DEF Job, AttemptsLeft
          <6> QED BY <6>1, <6>2, <6>3
        <5> QED BY <2>3, <5>1, <5>2
      <4>2. job = [job EXCEPT ![w] = job[w]]
        BY DEF IInv, TypeOK
      <4>3. CASE job' = job
        BY <3>1, <4>2, <4>3
      <4>4. CASE job' = [job EXCEPT ![w].attempt = n] /\ n \in 0..(MaxAttempts - 1)
        <5> DEFINE e == [job[w] EXCEPT !.attempt = n]
        <5>1. e \in Job /\ e.search = job[w].search /\ e.seen = job[w].seen
          BY <3>1, <4>4 DEF Job
        <5>2. job' = [job EXCEPT ![w] = e]
          BY <4>4
        <5> QED BY <5>1, <5>2
      <4>5. CASE job' = [job EXCEPT ![w].outcome = o] /\ o \in Successes \cup Failures
        <5> DEFINE e == [job[w] EXCEPT !.outcome = o]
        <5>1. e \in Job /\ e.search = job[w].search /\ e.seen = job[w].seen
          BY <3>1, <4>5 DEF Job
        <5>2. job' = [job EXCEPT ![w] = e]
          BY <4>5
        <5> QED BY <5>1, <5>2
      <4> QED BY <4>1, <4>3, <4>4, <4>5
    <3>3. \A v \in Workers : pc'[v] = "write" => pc[v] = "write"
      BY <2>3 DEF Execute, Finish, IInv, TypeOK
    <3>4. \A a \in Workers \cup Manuals : job'[a].search = job[a].search /\ job'[a].seen = job[a].seen
      BY <3>2 DEF IInv, TypeOK
    <3> QED BY <3>3, <3>4 DEF NobodyJoins
  <2>4. ASSUME NEW w \in Workers, RecordFails(w) \/ Crash(w) PROVE NobodyJoins(s)
    <3>1. \A a \in Workers \cup Manuals : job'[a] = IF a = w THEN NoJob ELSE job[a]
      BY <2>4 DEF RecordFails, NextCandidate, Crash, IInv, TypeOK
    <3>2. \A v \in Workers : pc'[v] = "write" => pc[v] = "write"
      BY <2>4 DEF RecordFails, NextCandidate, Crash, IInv, TypeOK
    <3> QED BY <1>2, <3>1, <3>2 DEF NobodyJoins, NoJob
  <2> QED BY <2>1, <2>2, <2>3, <2>4 DEF Tick, LoseLock, Toggle, SkipLocked, vars
<1> QED BY <1>1, <1>3, QuietStreak

\* The read before the write makes what the worker saw true.
LEMMA ReadStreak ==
  ASSUME IInv, StreakInv, NEW w \in Workers, RecordReads(w)
  PROVE  StreakInv'
<1> SUFFICES ASSUME NEW s \in Searches, ~contended'[s]
             PROVE  (Undisturbed(s) /\ CountIsStreak(s) /\ AlertFollows(s))'
  BY DEF StreakInv
<1>1. SameCounts(s)
  BY DEF SameCounts, RecordReads, tableVars, ghostVars
<1>2. job[w] \in Job /\ job[w].search \in Searches
  BY RunTypes DEF RecordReads, OnRun
<1>3. \A a \in Workers \cup Manuals : job'[a].search = job[a].search
  BY <1>2 DEF RecordReads, IInv, TypeOK, Job
<1>4. \A v \in Workers \ {w} : pc'[v] = pc[v] /\ job'[v] = job[v]
  BY DEF RecordReads, IInv, TypeOK
<1>5. job'[w].seen = failures[job[w].search]
  BY <1>2 DEF RecordReads, IInv, TypeOK, Job
<1>6. Undisturbed(s) /\ CountIsStreak(s) /\ AlertFollows(s)
  BY <1>1 DEF StreakInv, SameCounts
<1>7. Undisturbed(s)'
  BY <1>1, <1>3, <1>4, <1>5, <1>6 DEF Undisturbed, SameCounts
<1> QED BY <1>1, <1>6, <1>7 DEF CountIsStreak, AlertFollows, SameCounts

\* The operator takes the alert down: the ghost remembers.
LEMMA ResolveStreak ==
  ASSUME IInv, StreakInv, NEW r \in Operated, ResolveAlert(r)
  PROVE  StreakInv'
<1> SUFFICES ASSUME NEW s \in Searches, ~contended'[s]
             PROVE  (Undisturbed(s) /\ CountIsStreak(s) /\ AlertFollows(s))'
  BY DEF StreakInv
<1>1. UNCHANGED <<failures, streak, contended, job, pc>> /\ r \in Searches
  BY SchedulerAssumption DEF ResolveAlert
<1>2. Undisturbed(s) /\ CountIsStreak(s) /\ AlertFollows(s)
  BY <1>1 DEF StreakInv
<1>3. Undisturbed(s)' /\ CountIsStreak(s)'
  BY <1>1, <1>2 DEF Undisturbed, CountIsStreak
<1>4. AlertFollows(s)'
  BY <1>1, <1>2 DEF AlertFollows, ResolveAlert, IInv, TypeOK
<1> QED BY <1>3, <1>4

\* A claim joins the runs of its search: if there is one, the ghost says so.
LEMMA ProcessStreak ==
  ASSUME IInv, StreakInv, NEW w \in Workers, Process(w)
  PROVE  StreakInv'
<1> SUFFICES ASSUME NEW s \in Searches, ~contended'[s]
             PROVE  (Undisturbed(s) /\ CountIsStreak(s) /\ AlertFollows(s))'
  BY DEF StreakInv
<1> DEFINE r == Head(cycle[w].queue)
           claimable == Claimable(r, cycle[w].now)
<1>1. r \in Searches
  BY DEF Process, IInv, TypeOK, Cycle
<1>2. contended' = [contended EXCEPT ![r] = @ \/ (claimable /\ UnderWay(r) # {})]
  BY DEF Process
<1>3. UNCHANGED <<failures, failAlert, streak, dismissed>>
  BY DEF Process
<1>4. (claimable /\ Claim(w, r)) \/ UNCHANGED <<job, pc>>
  BY DEF Process, Seed
<1> HIDE DEF r, claimable
<1>5. ~contended[s] /\ (s = r /\ claimable => UnderWay(s) = {})
  BY <1>1, <1>2 DEF IInv, TypeOK
<1>6. Undisturbed(s) /\ CountIsStreak(s) /\ AlertFollows(s)
  BY <1>5 DEF StreakInv
<1>7. CountIsStreak(s)' /\ AlertFollows(s)'
  BY <1>3, <1>6 DEF CountIsStreak, AlertFollows
<1>8. CASE UNCHANGED <<job, pc>>
  BY <1>3, <1>6, <1>7, <1>8 DEF Undisturbed
<1>9. CASE claimable /\ Claim(w, r)
  <2> DEFINE new == [NoJob EXCEPT !.search = r, !.tick = nextRun[r]]
  <2>1. new.search = r
    BY DEF NoJob
  <2>2. job' = [job EXCEPT ![w] = new] /\ pc' = [pc EXCEPT ![w] = "execute"]
    BY <1>9 DEF Claim
  <2> HIDE DEF new
  <2>3. /\ job'[w].search = r /\ pc'[w] # "write"
        /\ \A a \in (Workers \cup Manuals) \ {w} : job'[a] = job[a]
        /\ \A v \in Workers \ {w} : pc'[v] = pc[v]
    BY <2>1, <2>2 DEF IInv, TypeOK
  <2>4. \A m \in Manuals : job'[m] = job[m]
    BY <2>3, SchedulerAssumption
  <2>5. r = s => \A a \in Workers \cup Manuals : job[a].search # s
    BY <1>5, <1>9 DEF UnderWay
  <2>6. Undisturbed(s)'
    BY <1>3, <1>6, <2>3, <2>4, <2>5 DEF Undisturbed
  <2> QED BY <1>7, <2>6
<1> QED BY <1>4, <1>8, <1>9

\* A manual run disturbs the search it is on.
LEMMA ManualStreak ==
  ASSUME IInv, StreakInv, NEW m \in Manuals,
         ManualEnd(m) \/ \E r \in Searches : ManualStart(m, r)
  PROVE  StreakInv'
<1> SUFFICES ASSUME NEW s \in Searches, ~contended'[s]
             PROVE  (Undisturbed(s) /\ CountIsStreak(s) /\ AlertFollows(s))'
  BY DEF StreakInv
<1>1. None # s
  BY SchedulerAssumption
<1>2. ASSUME NEW r \in Searches, ManualStart(m, r) PROVE SameCounts(s) /\ NobodyJoins(s)
  <2>1. r # s /\ SameCounts(s)
    BY <1>2 DEF ManualStart, SameCounts, tableVars, IInv, TypeOK
  <2> DEFINE new == [NoJob EXCEPT !.search = r, !.seen = failures[r]]
  <2>2. new.search = r
    BY DEF NoJob
  <2>3. job' = [job EXCEPT ![m] = new] /\ UNCHANGED pc
    BY <1>2 DEF ManualStart
  <2> HIDE DEF new
  <2>4. \A a \in Workers \cup Manuals : job'[a] = IF a = m THEN new ELSE job[a]
    BY <2>3 DEF IInv, TypeOK
  <2>5. \A w \in Workers : job'[w] = job[w]
    BY <2>4, SchedulerAssumption
  <2> QED BY <2>1, <2>2, <2>3, <2>4, <2>5 DEF NobodyJoins
<1>3. ASSUME ManualEnd(m) PROVE SameCounts(s) /\ NobodyJoins(s)
  <2>1. job[m].search \in Searches /\ ~contended[s]
    BY <1>3 DEF ManualEnd, IInv, ManualInv
  <2>2. job[m].search # s
    BY <2>1 DEF StreakInv, Undisturbed
  <2>3. SameCounts(s)
    BY <1>3, <2>1, <2>2 DEF ManualEnd, EvaluateFailure, CountRun, SameCounts, IInv, TypeOK
  <2>4. \A a \in Workers \cup Manuals : job'[a] = IF a = m THEN NoJob ELSE job[a]
    BY <1>3 DEF ManualEnd, IInv, TypeOK
  <2>5. \A w \in Workers : job'[w] = job[w]
    BY <2>4, SchedulerAssumption
  <2> QED BY <1>1, <1>3, <2>3, <2>4, <2>5 DEF NobodyJoins, NoJob, ManualEnd
<1> QED BY <1>2, <1>3, QuietStreak
\* The record: in the search it is about, an undisturbed run writes what it read
\* and one more, or 0; and an undisturbed success puts a disturbed search right.
LEMMA RecordStreak ==
  ASSUME IInv, StreakInv, NEW w \in Workers, Record(w)
  PROVE  StreakInv'
<1> SUFFICES ASSUME NEW s \in Searches, ~contended'[s]
             PROVE  (Undisturbed(s) /\ CountIsStreak(s) /\ AlertFollows(s))'
  BY DEF StreakInv
<1> DEFINE r == job[w].search
           ok == job[w].outcome \in Successes
           seen == job[w].seen
           count == IF ok THEN 0 ELSE seen + 1
<1>1. TypeOK /\ r \in Searches /\ AlertAfter \in Nat \ {0} /\ seen \in Nat /\ None # s
  BY SchedulerAssumption, RunTypes DEF Record, OnRun, IInv, Job
<1>2. /\ failures \in [Searches -> Nat] /\ streak \in [Searches -> 0..AlertAfter]
      /\ failAlert \in [Searches -> BOOLEAN] /\ dismissed \in [Searches -> BOOLEAN]
      /\ contended \in [Searches -> BOOLEAN]
  BY <1>1 DEF TypeOK
<1>3. /\ failures' = [failures EXCEPT ![r] = IF count = seen THEN failures[r] ELSE count]
      /\ failAlert' = [failAlert EXCEPT ![r] =
                         IF ok THEN FALSE ELSE failAlert[r] \/ count >= AlertAfter]
      /\ streak' = [streak EXCEPT ![r] = IF ok THEN 0
                                         ELSE IF streak[r] < AlertAfter THEN streak[r] + 1
                                         ELSE streak[r]]
      /\ dismissed' = [dismissed EXCEPT ![r] = FALSE]
      /\ contended' = [contended EXCEPT ![r] =
                         contended[r] /\ ~(ok /\ UnderWay(r) = {w} /\ seen = failures[r])]
  BY DEF Record, Counted, EvaluateFailure, CountRun
<1>4. \A a \in Workers \cup Manuals : job'[a] = IF a = w THEN NoJob ELSE job[a]
  BY <1>1 DEF Record, NextCandidate, TypeOK
<1>5. \A v \in Workers : pc'[v] = "write" => pc[v] = "write" /\ v # w
  BY <1>1 DEF Record, NextCandidate, TypeOK
<1>6. CASE r # s
  <2>1. SameCounts(s)
    BY <1>1, <1>2, <1>3, <1>6 DEF SameCounts
  <2>2. NobodyJoins(s)
    BY <1>1, <1>4, <1>5 DEF NobodyJoins, NoJob
  <2> QED BY <2>1, <2>2, QuietStreak
<1>7. CASE r = s
  <2>1. pc[w] = "write"
    BY DEF Record
  <2>2. ~contended[s] \/ (ok /\ UnderWay(s) = {w} /\ seen = failures[s])
    <3> HIDE DEF ok, seen, r
    <3> QED BY <1>1, <1>2, <1>3, <1>7
  <2>3. /\ \A a \in Workers \cup Manuals : job[a].search = s => a = w
        /\ seen = failures[s]
        /\ ok \/ (CountIsStreak(s) /\ AlertFollows(s))
    <3>1. CASE ~contended[s]
      BY <1>7, <2>1, <3>1 DEF StreakInv, Undisturbed
    <3>2. CASE ok /\ UnderWay(s) = {w} /\ seen = failures[s]
      BY <3>2 DEF UnderWay
    <3> QED BY <2>2, <3>1, <3>2
  <2>4. \A a \in Workers \cup Manuals : job'[a].search # s
    BY <1>1, <1>4, <2>3 DEF NoJob
  <2>5. Undisturbed(s)'
    BY <2>4 DEF Undisturbed
  <2> HIDE DEF ok, seen, r
  <2>6. failures'[s] = IF ok THEN 0 ELSE failures[s] + 1
    BY <1>1, <1>2, <1>3, <1>7, <2>3
  <2>7. streak'[s] = IF ok THEN 0
                     ELSE IF streak[s] < AlertAfter THEN streak[s] + 1 ELSE streak[s]
    BY <1>1, <1>2, <1>3, <1>7
  <2>8. failAlert'[s] = IF ok THEN FALSE ELSE failAlert[s] \/ failures[s] + 1 >= AlertAfter
    BY <1>1, <1>2, <1>3, <1>7, <2>3
  <2>9. failures[s] \in Nat /\ streak[s] \in 0..AlertAfter
    BY <1>2
  <2>10. CountIsStreak(s)'
    BY <1>1, <2>3, <2>6, <2>7, <2>9 DEF CountIsStreak
  <2>11. AlertFollows(s)'
    <3>1. CASE ok
      <4>1. ~(0 >= AlertAfter)
        BY <1>1
      <4>2. failures'[s] = 0 /\ failAlert'[s] = FALSE
        BY <2>6, <2>8, <3>1
      <4> QED BY <4>1, <4>2 DEF AlertFollows
    <3>2. CASE ~ok
      <4>1. failures'[s] = failures[s] + 1
            /\ failAlert'[s] = (failAlert[s] \/ failures[s] + 1 >= AlertAfter)
        BY <2>6, <2>8, <3>2
      <4>2. failures[s] >= AlertAfter => failures[s] + 1 >= AlertAfter
        BY <1>1, <2>9
      <4>3. failAlert[s] => failures[s] >= AlertAfter
        BY <2>3, <3>2 DEF AlertFollows
      <4> QED BY <4>1, <4>2, <4>3, Zenon DEF AlertFollows
    <3> QED BY <3>1, <3>2
  <2> QED BY <2>5, <2>10, <2>11
<1> QED BY <1>6, <1>7

LEMMA NextStreak == IInv /\ StreakInv /\ [Next]_vars => StreakInv'
<1> SUFFICES ASSUME IInv, StreakInv, [Next]_vars PROVE StreakInv'
  OBVIOUS
<1>1. ASSUME NEW w \in Workers,
             StartCycle(w) \/ WorkerStep(w) \/ SkipLocked(w) \/ RecordFails(w) \/ Crash(w)
      PROVE  StreakInv'
  BY <1>1, IdleStreak, ProcessStreak, ReadStreak, RecordStreak DEF WorkerStep
<1>2. ASSUME NEW s \in Operated, Toggle(s) \/ ResolveAlert(s) PROVE StreakInv'
  BY <1>2, IdleStreak, ResolveStreak
<1> QED BY <1>1, <1>2, IdleStreak, ManualStreak DEF Next

\* From the first success recorded undisturbed until runs of the search next
\* meet, the failure alert is up while the last search_failure_alert_after (or
\* more) recorded runs all failed and only then, unless an operator resolved it
\* since: whatever records fail, whatever dies and whoever runs by hand in
\* between (SearchAlertEvaluator._evaluate_failure against the unlocked read of
\* _record).
THEOREM FailureAlertMeansStreakHolds == Spec => []FailureAlertMeansStreak
<1>1. IInv /\ StreakInv => FailureAlertMeansStreak
  BY SchedulerAssumption DEF IInv, TypeOK, StreakInv, CountIsStreak, AlertFollows,
       FailureAlertMeansStreak
<1> QED BY <1>1, InitStreak, NextStreak, Invariance, PTL DEF Spec

=============================================================================
