-------------------------- MODULE MetricCollection --------------------------
(***************************************************************************)
(* Live collection of log-source metrics: the collect_metrics task         *)
(* (workers/tasks.py), the cadence slot it claims                          *)
(* (services/search_cadence.py), the advisory lock of a console            *)
(* (services/locks.py) and the watermarked pass of MetricCollector.collect *)
(* (collectors/metric_collector.py).                                       *)
(*                                                                         *)
(* A task claims the current slot, then works through the consoles, one    *)
(* transaction each.  The advisory lock is given back when the pass        *)
(* returns, before that transaction is committed: another task may then    *)
(* read a watermark that is about to change, and waits for the row only    *)
(* when it writes.                                                         *)
(*                                                                         *)
(* Buckets are the intervals 0..Last; what is collected after Last is not  *)
(* followed.  Time is kept relative to now: `phase` is the position in the *)
(* longest cadence, and a slot is its distance from now.                   *)
(***************************************************************************)
EXTENDS Integers, Sequences, FiniteSets

CONSTANTS
  Consoles,  \* the enabled consoles, in the order of the query
  Tasks,     \* collect_metrics tasks that may run at once
  Last,      \* the last bucket that is followed
  Cadences,  \* the cadences, in buckets
  Period,    \* the longest of them; the others divide it
  Backfill,  \* collection_max_backfill_intervals
  Early,     \* buckets that close before their slot is settled
  MaxSearches,  \* search_cadence_max_searches_per_tick
  Fits,      \* how many buckets one search may answer for, whatever the volume
  MaxFaults, \* bound: failed searches and statements, and workers that die
  None

ASSUME CollectionAssumption ==
  /\ Consoles \in Seq(STRING)
  /\ \A i, j \in DOMAIN Consoles : Consoles[i] = Consoles[j] => i = j
  /\ None \notin Tasks
  /\ Last \in Nat /\ Period \in Nat \ {0} /\ Backfill \in Nat /\ Early \in Nat
  /\ MaxSearches \in Nat \ {0} /\ Fits \subseteq Nat \ {0} /\ MaxFaults \in Nat
  /\ Period \in Cadences /\ Cadences \subseteq 1..Period
  /\ \A c \in Cadences : Period % c = 0

VARIABLES
  closed,   \* number of settled buckets, up to Last + 1
  phase,    \* the settled time modulo Period
  cadence,  \* cadence_seconds of the family
  since,    \* distance of last_slot_start
  mark,     \* mark[c]: the committed watermark_at of a console
  rows,     \* rows[c]: the buckets with committed rows
  lock,     \* lock[c]: the task whose session holds the advisory lock
  writer,   \* writer[c]: the task whose transaction holds the watermark row
  task,     \* task[t]: where a task is and what it has read
  faults    \* ghost: the faults so far

vars == <<closed, phase, cadence, since, mark, rows, lock, writer, task, faults>>

Names == {Consoles[i] : i \in DOMAIN Consoles}
Buckets == 0..Last
Absent == -1                \* no watermark row, or none with a time
Oldest == 2 * Period        \* bound: a claim takes less than Oldest - Period ticks
Never == Oldest + 1

Steps == {"idle", "claim", "next", "lock", "read", "insert", "search", "write",
          "unlock", "commit", "rollback"}

NoTask == [pc |-> "idle", slot |-> Never, todo |-> <<>>, boundary |-> 0, seen |-> Absent,
           window |-> <<>>, done |-> 0]

\* Every variable has its type.
TypeOK ==
  /\ closed \in 1..(Last + 1) /\ phase \in 0..(Period - 1)
  /\ cadence \in Cadences /\ since \in 0..Never
  /\ mark \in [Names -> {Absent} \cup Buckets]
  /\ rows \in [Names -> SUBSET Buckets]
  /\ lock \in [Names -> Tasks \cup {None}]
  /\ writer \in [Names -> Tasks \cup {None}]
  /\ \A t \in Tasks :
       /\ task[t].pc \in Steps /\ task[t].slot \in 0..Never
       /\ task[t].todo \in Seq(Names) /\ task[t].window \in Seq(Buckets)
       /\ task[t].boundary \in 0..(Last + 1) /\ task[t].seen \in {Absent} \cup Buckets
       /\ task[t].done \in 0..Len(task[t].window)
  /\ faults \in 0..MaxFaults

Init ==
  /\ closed = 1 /\ phase = 0
  /\ cadence \in Cadences
  /\ since = Never
  /\ mark = [c \in Names |-> Absent]
  /\ rows = [c \in Names |-> {}]
  /\ lock = [c \in Names |-> None]
  /\ writer = [c \in Names |-> None]
  /\ task = [t \in Tasks |-> NoTask]
  /\ faults = 0

-----------------------------------------------------------------------------
(* The clock and the administrator.                                        *)

Older(d) == IF d = Never THEN Never ELSE d + 1

\* One interval passes.
Tick ==
  /\ \A t \in Tasks : task[t].pc = "claim" => task[t].slot < Oldest
  /\ closed' = IF closed > Last THEN closed ELSE closed + 1
  /\ phase' = (phase + 1) % Period
  /\ since' = Older(since)
  /\ task' = [t \in Tasks |-> [task[t] EXCEPT !.slot = Older(@)]]
  /\ UNCHANGED <<cadence, mark, rows, lock, writer, faults>>

\* set_cadence writes the cadence column alone.
SetCadence(c) ==
  /\ c # cadence
  /\ cadence' = c
  /\ UNCHANGED <<closed, phase, since, mark, rows, lock, writer, task, faults>>

-----------------------------------------------------------------------------
(* The slot.                                                               *)

\* slot_start: how long ago the slot that contains now began.
SlotStart(c) == phase % c

\* claim_slot reads the cadence and computes the slot.
ReadCadence(t) ==
  /\ task[t].pc = "idle"
  /\ task' = [task EXCEPT ![t].pc = "claim", ![t].slot = SlotStart(cadence)]
  /\ UNCHANGED <<closed, phase, cadence, since, mark, rows, lock, writer, faults>>

\* MUTANT: the slot counts as due until the run was recorded.
NewerAlways(slot) == since >= slot

\* last_slot_start is null or older than the slot.
Newer(slot) == since > slot

\* claim_slot's conditional UPDATE, committed at once; the task goes on or is
\* not due.  The slot stays claimed whatever becomes of the task.
Claim(t) ==
  /\ task[t].pc = "claim"
  /\ IF Newer(task[t].slot)
     THEN /\ since' = task[t].slot
          /\ task' = [task EXCEPT ![t].pc = "next", ![t].todo = Consoles]
     ELSE /\ task' = [task EXCEPT ![t] = NoTask]
          /\ UNCHANGED since
  /\ UNCHANGED <<closed, phase, cadence, mark, rows, lock, writer, faults>>

-----------------------------------------------------------------------------
(* One console.                                                            *)

Console(t) == Head(task[t].todo)

\* The transaction of t is over, and it turns to the next console.
Proceed(t) ==
  /\ task' = [task EXCEPT ![t] = [NoTask EXCEPT !.pc = "next", !.slot = task[t].slot,
                                                !.todo = Tail(task[t].todo)]]
  /\ writer' = [c \in Names |-> IF writer[c] = t THEN None ELSE writer[c]]

\* The clock and the boundary of the current interval, which may not be settled.
TakeTime(t) ==
  /\ task[t].pc = "next" /\ task[t].todo # <<>>
  /\ \E now \in closed..(closed + Early) :
       task' = [task EXCEPT ![t].pc = "lock",
                            ![t].boundary = IF now > Last THEN Last + 1 ELSE now]
  /\ UNCHANGED <<closed, phase, cadence, since, mark, rows, lock, writer, faults>>

\* pg_try_advisory_lock: a console another session works on is skipped.
TryLock(t) ==
  /\ task[t].pc = "lock"
  /\ IF lock[Console(t)] = None
     THEN /\ lock' = [lock EXCEPT ![Console(t)] = t]
          /\ task' = [task EXCEPT ![t].pc = "read"]
          /\ UNCHANGED writer
     ELSE Proceed(t) /\ UNCHANGED lock
  /\ UNCHANGED <<closed, phase, cadence, since, mark, rows, faults>>

\* _intervals_to_collect: the latest interval on a first run, else the ones after
\* the watermark, at most `limit` of them.
IntervalsToCollect(seen, boundary, limit) ==
  IF seen = Absent THEN <<boundary - 1>>
  ELSE [i \in 1..(IF boundary - 1 - seen < limit THEN boundary - 1 - seen ELSE limit)
          |-> seen + i]

\* The watermark row as committed, and the cadence.
Read(t) ==
  /\ task[t].pc = "read"
  /\ LET seen == mark[Console(t)]
         window == IntervalsToCollect(seen, task[t].boundary, cadence + Backfill)
     IN  task' = [task EXCEPT ![t].pc = IF seen = Absent THEN "insert" ELSE "search",
                              ![t].boundary = 0, ![t].seen = seen, ![t].window = window]
  /\ UNCHANGED <<closed, phase, cadence, since, mark, rows, lock, writer, faults>>

\* MUTANT: the row is not unique, and the second insert adds another.
UniqueNot(c) == TRUE

\* uq_collection_watermark_key
Unique(c) == mark[c] = Absent

\* _get_or_create_watermark flushes a new row.  An insert of the same row that is
\* not committed makes it wait, one that is makes it fail.
Insert(t) ==
  /\ task[t].pc = "insert"
  /\ writer[Console(t)] = None
  /\ IF Unique(Console(t))
     THEN /\ writer' = [writer EXCEPT ![Console(t)] = t]
          /\ task' = [task EXCEPT ![t].pc = "search"]
     ELSE Proceed(t)
  /\ UNCHANGED <<closed, phase, cadence, since, mark, rows, lock, faults>>

\* _search_window of n buckets with s searches left, when an answer is truncated
\* beyond `fit` buckets: halves, the left one first, until one is cut by the cap.
\* `done` is the completed prefix, `cuts` the prefixes at which a search starts.
SearchWindow(fit) ==
  LET W[s \in 0..MaxSearches] == [n \in 0..(Last + 1) |->
        IF s = 0 THEN [done |-> 0, left |-> 0, capped |-> TRUE, cuts |-> {}]
        ELSE IF n <= 1 \/ n <= fit
        THEN [done |-> n, left |-> s - 1, capped |-> FALSE, cuts |-> {0}]
        ELSE LET l == W[s - 1][n \div 2]
                 r == W[l.left][n - n \div 2]
             IN  IF l.capped THEN [l EXCEPT !.cuts = @ \cup {0}]
                 ELSE [done |-> l.done + r.done, left |-> r.left, capped |-> r.capped,
                       cuts |-> {0} \cup l.cuts \cup {l.done + k : k \in r.cuts}]]
  IN  W[MaxSearches]

\* The completed prefix is kept.
Search(t) ==
  /\ task[t].pc = "search"
  /\ \E fit \in Fits :
       task' = [task EXCEPT ![t].pc = "write",
                  ![t].done = IF task[t].window = <<>> THEN 0
                              ELSE SearchWindow(fit)[Len(task[t].window)].done]
  /\ UNCHANGED <<closed, phase, cadence, since, mark, rows, lock, writer, faults>>

Fault == faults < MaxFaults /\ faults' = faults + 1

\* A search fails.  What was completed before it is kept; with nothing completed
\* the failure is raised: the lock is given back, then the transaction rolled back.
SearchFails(t) ==
  /\ task[t].pc = "search" /\ task[t].window # <<>>
  /\ Fault
  /\ \E fit \in Fits :
     \E k \in SearchWindow(fit)[Len(task[t].window)].cuts :
       IF k > 0
       THEN /\ task' = [task EXCEPT ![t].pc = "write", ![t].done = k]
            /\ UNCHANGED lock
       ELSE /\ task' = [task EXCEPT ![t].pc = "rollback"]
            /\ lock' = [lock EXCEPT ![Console(t)] = None]
  /\ UNCHANGED <<closed, phase, cadence, since, mark, rows, writer>>

\* The rows and the watermark are flushed; the row of the watermark is locked
\* until the transaction ends.
Write(t) ==
  /\ task[t].pc = "write"
  /\ writer[Console(t)] \in {None, t}
  /\ writer' = [writer EXCEPT ![Console(t)] = t]
  /\ task' = [task EXCEPT ![t].pc = "unlock"]
  /\ UNCHANGED <<closed, phase, cadence, since, mark, rows, lock, faults>>

\* The pass returns: pg_advisory_unlock.
Unlock(t) ==
  /\ task[t].pc = "unlock"
  /\ lock' = [lock EXCEPT ![Console(t)] = None]
  /\ task' = [task EXCEPT ![t].pc = "commit"]
  /\ UNCHANGED <<closed, phase, cadence, since, mark, rows, writer, faults>>

\* The last bucket of the completed prefix, or what the task had read.
LastDone(t) == IF task[t].done = 0 THEN task[t].seen ELSE task[t].window[task[t].done]

\* The commit.  The ORM writes watermark_at only when it differs from what the
\* task had read.
Commit(t) ==
  /\ task[t].pc = "commit"
  /\ rows' = [rows EXCEPT ![Console(t)] =
                @ \cup {task[t].window[i] : i \in 1..task[t].done}]
  /\ mark' = IF LastDone(t) = task[t].seen THEN mark
             ELSE [mark EXCEPT ![Console(t)] = LastDone(t)]
  /\ Proceed(t)
  /\ UNCHANGED <<closed, phase, cadence, since, lock, faults>>

\* The session is rolled back: after a failed search, or a commit that failed.
Rollback(t) ==
  /\ \/ task[t].pc = "rollback" /\ UNCHANGED faults
     \/ task[t].pc = "commit" /\ Fault
  /\ Proceed(t)
  /\ UNCHANGED <<closed, phase, cadence, since, mark, rows, lock>>

\* MUTANT: the session goes on, and keeps the lock, when a statement failed.
StatementFailsStuck(t) ==
  /\ task[t].pc \in {"read", "insert", "write", "unlock"}
  /\ Fault
  /\ task' = [task EXCEPT ![t] = NoTask]
  /\ writer' = [c \in Names |-> IF writer[c] = t THEN None ELSE writer[c]]
  /\ UNCHANGED <<closed, phase, cadence, since, mark, rows, lock>>

\* A statement fails.  The unlock is refused in the broken transaction as well,
\* and the session keeps the advisory lock until the task disposes of it.
StatementFails(t) ==
  /\ task[t].pc \in {"read", "insert", "write", "unlock"}
  /\ Fault
  /\ Proceed(t)
  /\ UNCHANGED <<closed, phase, cadence, since, mark, rows, lock>>

\* The session of t is gone: PostgreSQL gives its locks back.
Closed(t) ==
  /\ lock' = [c \in Names |-> IF lock[c] = t THEN None ELSE lock[c]]
  /\ writer' = [c \in Names |-> IF writer[c] = t THEN None ELSE writer[c]]
  /\ task' = [task EXCEPT ![t] = NoTask]
  /\ UNCHANGED <<closed, phase, cadence, since, mark, rows>>

\* Every console was visited; the run is recorded and the engine disposed of.
Finish(t) == task[t].pc = "next" /\ task[t].todo = <<>> /\ Closed(t) /\ UNCHANGED faults

\* The worker dies.
Crash(t) == task[t].pc # "idle" /\ Closed(t) /\ Fault

-----------------------------------------------------------------------------

Advance(t) ==
  \/ Claim(t) \/ TakeTime(t) \/ TryLock(t) \/ Read(t) \/ Insert(t) \/ Search(t)
  \/ SearchFails(t) \/ Write(t) \/ Unlock(t) \/ Commit(t) \/ Rollback(t) \/ StatementFails(t) \/ Finish(t)

Next ==
  \/ Tick
  \/ \E c \in Cadences : SetCadence(c)
  \/ \E t \in Tasks : ReadCadence(t) \/ Advance(t) \/ Crash(t)

\* Time passes, beat keeps starting tasks, and every statement and search returns
\* or times out.
Fairness ==
  /\ WF_vars(Tick)
  /\ WF_vars(\E t \in Tasks : ReadCadence(t))
  /\ \A t \in Tasks : WF_vars(Advance(t))

Spec == Init /\ [][Next]_vars
FairSpec == Spec /\ Fairness

-----------------------------------------------------------------------------

\* The watermark stands on a stored bucket and no bucket was left out between the
\* first one collected and the last, although a task may work from a watermark
\* that another was about to move, move it back, keep a cut prefix, or lose its
\* transaction (MetricCollector.collect, _get_or_create_watermark).
NoHole ==
  /\ TypeOK
  /\ \A c \in Names :
       /\ mark[c] # Absent => mark[c] \in rows[c]
       /\ \A a, b \in rows[c] : a..b \subseteq rows[c]

\* A slot is run once: no two tasks are on the same slot, also when the cadence
\* changed, or time passed, between the read and the claim (claim_slot).
SlotOnce ==
  \A t, u \in Tasks :
    task[t].pc \notin {"idle", "claim"} /\ task[u].pc \notin {"idle", "claim"}
      /\ task[t].slot = task[u].slot
    => t = u \/ task[t].slot = Never

\* Once the faults stop, every console catches up with every bucket and stays
\* there: no skipped slot, leaked lock, cut window or watermark moved back keeps
\* one behind for ever.
CaughtUp == \A c \in Names : <>[](mark[c] = Last)

=============================================================================
