------------------------ MODULE NotificationDispatch ------------------------
(***************************************************************************)
(* Delivery of queued notifications: dispatch_notifications                *)
(* (workers/tasks.py) and NotificationDispatcher.dispatch_due              *)
(* (alerts/dispatcher.py).                                                 *)
(*                                                                         *)
(* A dispatcher reads the due rows, sends them one after the other over    *)
(* the network, and commits every outcome at the end, in one transaction.  *)
(* It locks no row: two tasks may hold the same ones, and a task that dies *)
(* has sent what it has sent.  The ORM writes only the columns whose value *)
(* differs from the one loaded.                                            *)
(***************************************************************************)
EXTENDS Integers, Sequences, FiniteSets, SequencesExt

CONSTANTS
  Notices,      \* alert_notification rows
  Dispatchers,  \* dispatch_notifications tasks that may run at once
  Orphans,      \* rows whose channel has no notifier
  MaxAttempts,  \* notify_max_retries + 1
  Limit,        \* dispatch_due's limit
  MaxCrashes    \* bound: tasks that die before their commit

ASSUME DispatchAssumption ==
  /\ Orphans \subseteq Notices
  /\ IsFiniteSet(Dispatchers)
  /\ {MaxAttempts, Limit} \subseteq Nat \ {0}
  /\ MaxCrashes \in Nat

VARIABLES
  row,      \* row[n]: status and attempts as committed
  due,      \* rows whose next_attempt_at has passed, the oldest first
  task,     \* task[d]: the batch a dispatcher holds and what is left of it
  copy,     \* copy[d][n]: its in-memory row, with the status that was loaded
  sends,    \* ghost: sends[n], attempts that reached the notifier
  received, \* ghost: received[n], messages that were delivered
  crashes   \* ghost: tasks that died

vars == <<row, due, task, copy, sends, received, crashes>>

Idle == [running |-> FALSE, left |-> <<>>, batch |-> {}]
Blank == [status |-> "none", attempts |-> 0]
NoCopy == [loaded |-> "none", status |-> "none", attempts |-> 0]

Unsettled == {"PENDING", "FAILED"}
Settled == {"SENT", "DEAD_LETTER"}

\* The due rows once those of S are settled or rescheduled, in their order.
Without(q, S) ==
  LET Kept[i \in 0..Len(q)] ==
        IF i = 0 THEN <<>>
        ELSE IF q[i] \in S THEN Kept[i - 1] ELSE Append(Kept[i - 1], q[i])
  IN  Kept[Len(q)]

-----------------------------------------------------------------------------

Init ==
  /\ row = [n \in Notices |-> Blank]
  /\ due = <<>>
  /\ task = [d \in Dispatchers |-> Idle]
  /\ copy = [d \in Dispatchers |-> [n \in Notices |-> NoCopy]]
  /\ sends = [n \in Notices |-> 0]
  /\ received = [n \in Notices |-> 0]
  /\ crashes = 0

\* enqueue: a new row is due at once.
Enqueue(n) ==
  /\ row[n].status = "none"
  /\ row' = [row EXCEPT ![n].status = "PENDING"]
  /\ due' = Append(due, n)
  /\ UNCHANGED <<task, copy, sends, received, crashes>>

\* MUTANT: dispatch_due selects PENDING rows only.
RetryPendingOnly(n) ==
  /\ row[n].status = "PENDING"
  /\ n \notin ToSet(due)
  /\ due' = Append(due, n)
  /\ UNCHANGED <<row, task, copy, sends, received, crashes>>

\* The backoff of a FAILED row ends.  Rows fall due in the order of
\* next_attempt_at, so the order of due is the order of the query.
BackoffEnds(n) ==
  /\ row[n].status = "FAILED"
  /\ n \notin ToSet(due)
  /\ due' = Append(due, n)
  /\ UNCHANGED <<row, task, copy, sends, received, crashes>>

\* order_by(next_attempt_at).limit(limit)
Batch == SubSeq(due, 1, IF Len(due) < Limit THEN Len(due) ELSE Limit)

\* dispatch_due reads its batch.
Select(d) ==
  /\ ~task[d].running
  /\ due # <<>>
  /\ task' = [task EXCEPT ![d] = [running |-> TRUE, left |-> Batch, batch |-> ToSet(Batch)]]
  /\ copy' = [copy EXCEPT ![d] =
       [n \in Notices |-> IF n \in ToSet(Batch)
                          THEN [loaded |-> row[n].status, status |-> row[n].status,
                                attempts |-> row[n].attempts]
                          ELSE NoCopy]]
  /\ UNCHANGED <<row, due, sends, received, crashes>>

\* MUTANT: one more retry than notify_max_retries allows.
FailureLate(attempts, permanent) ==
  IF permanent \/ attempts > MaxAttempts THEN "DEAD_LETTER" ELSE "FAILED"

\* MUTANT: a permanent failure closes the row as if it had been handled.
FailureSwallowed(attempts, permanent) ==
  IF permanent THEN "SENT" ELSE IF attempts >= MaxAttempts THEN "DEAD_LETTER" ELSE "FAILED"

\* _handle_failure
Failure(attempts, permanent) ==
  IF permanent \/ attempts >= MaxAttempts THEN "DEAD_LETTER" ELSE "FAILED"

\* _attempt: what one attempt may come to, and what it leaves behind.  A send
\* may fail after the message was delivered (the response was lost).
Attempt(d) ==
  /\ task[d].left # <<>>
  /\ LET n == Head(task[d].left)
         k == copy[d][n].attempts + 1
         Becomes(s) == copy' = [copy EXCEPT ![d][n].attempts = k, ![d][n].status = s]
     IN /\ task' = [task EXCEPT ![d].left = Tail(@)]
        /\ \/ /\ n \in Orphans
              /\ Becomes("DEAD_LETTER")
              /\ UNCHANGED <<sends, received>>
           \/ /\ n \notin Orphans
              /\ sends' = [sends EXCEPT ![n] = @ + 1]
              /\ \/ Becomes("SENT") /\ received' = [received EXCEPT ![n] = @ + 1]
                 \/ \E permanent \in BOOLEAN :
                      /\ Becomes(Failure(k, permanent))
                      /\ UNCHANGED received
                 \/ /\ Becomes(Failure(k, FALSE))
                    /\ received' = [received EXCEPT ![n] = @ + 1]
  /\ UNCHANGED <<row, due, crashes>>

\* The UPDATE of one row: attempts always, the status only if it changed.
Written(d, n) ==
  [status |-> IF copy[d][n].status = copy[d][n].loaded
              THEN row[n].status ELSE copy[d][n].status,
   attempts |-> copy[d][n].attempts]

\* The flush and the commit of the whole batch.  Every outcome takes the row
\* out of the due ones: its status settles or next_attempt_at is in the future.
Commit(d) ==
  /\ task[d].running
  /\ task[d].left = <<>>
  /\ row' = [n \in Notices |-> IF n \in task[d].batch THEN Written(d, n) ELSE row[n]]
  /\ due' = Without(due, task[d].batch)
  /\ task' = [task EXCEPT ![d] = Idle]
  /\ copy' = [copy EXCEPT ![d] = [n \in Notices |-> NoCopy]]
  /\ UNCHANGED <<sends, received, crashes>>

\* The worker dies, or the commit fails: the rows stay as they were and due.
Crash(d) ==
  /\ task[d].running
  /\ crashes < MaxCrashes
  /\ crashes' = crashes + 1
  /\ task' = [task EXCEPT ![d] = Idle]
  /\ copy' = [copy EXCEPT ![d] = [n \in Notices |-> NoCopy]]
  /\ UNCHANGED <<row, due, sends, received>>

Next ==
  \/ \E n \in Notices : Enqueue(n) \/ BackoffEnds(n)
  \/ \E d \in Dispatchers : Select(d) \/ Attempt(d) \/ Commit(d) \/ Crash(d)

\* Beat starts a dispatcher every 30 s, a backoff is finite (max 300 s), and a
\* notifier call returns or times out.
Fairness ==
  /\ \A n \in Notices : WF_vars(BackoffEnds(n))
  /\ WF_vars(\E d \in Dispatchers : Select(d))
  /\ \A d \in Dispatchers : WF_vars(Attempt(d)) /\ WF_vars(Commit(d))

Spec == Init /\ [][Next]_vars
FairSpec == Spec /\ Fairness

-----------------------------------------------------------------------------

\* Every variable has its type.
TypeOK ==
  /\ row \in [Notices -> [status : {"none"} \cup Unsettled \cup Settled, attempts : Nat]]
  /\ due \in Seq(Notices)
  /\ task \in [Dispatchers -> [running : BOOLEAN, left : Seq(Notices), batch : SUBSET Notices]]
  /\ copy \in [Dispatchers -> [Notices ->
       [loaded : {"none"} \cup Unsettled,
        status : {"none"} \cup Unsettled \cup Settled, attempts : Nat]]]
  /\ sends \in [Notices -> Nat]
  /\ received \in [Notices -> Nat]
  /\ crashes \in 0..MaxCrashes

\* The sends that one copy of a row may lead to, when the row had k attempts left as
\* it was loaded: its own, and those of every task that loads the count it writes.
Chain[k \in 0..MaxAttempts] ==
  IF k = 0 THEN 0 ELSE 1 + Cardinality(Dispatchers) * Chain[k - 1]

\* Sends stay bounded although nothing locks a row.  A task alone tries a row
\* notify_max_retries + 1 times.  Tasks that overlap may write the older count they
\* loaded over another's, and revive a row another has parked, but each such write is
\* above the count that was loaded: at most Chain[MaxAttempts] sends for each task, and
\* of two tasks 2 + (1 + ... + MaxAttempts) in all.  A task that dies before the commit
\* adds the one it did not count.
SendsBounded ==
  LET N == Cardinality(Dispatchers)
      two == 2 + (MaxAttempts * (MaxAttempts + 1)) \div 2
  IN \A n \in Notices :
       sends[n] <= crashes + IF N = 2 THEN two ELSE N * Chain[MaxAttempts]

\* A row is parked only when its retries are used up, when no notifier exists,
\* or when a failure was permanent; the retries it has left are never lost.
AttemptsBounded ==
  \A n \in Notices :
    /\ row[n].attempts <= MaxAttempts
    /\ row[n].status = "FAILED" => row[n].attempts < MaxAttempts

\* A row that says SENT was delivered at least once, whichever of two overlapping
\* tasks wrote its status last and whatever it had loaded (_attempt, the flush).
SentWasDelivered == \A n \in Notices : row[n].status = "SENT" => received[n] > 0

\* What a row says of its delivery is so, although tasks that hold the same row
\* write over each other: how often it was tried and what it came to.
OutcomeEarned == TypeOK /\ AttemptsBounded /\ SentWasDelivered

\* Every queued notification is in the end sent or parked, and left so, in spite
\* of failures, dead tasks, backoffs, a batch smaller than the backlog and a
\* second task that writes a stale outcome over a settled one.
EventuallySettled ==
  \A n \in Notices : row[n].status = "PENDING" ~> [](row[n].status \in Settled)

=============================================================================
