---------------------------- MODULE SourceProfile ----------------------------
(***************************************************************************)
(* The profile of one WAF source and everything that writes or uses it:    *)
(* the HTTP routes (api/routes/waf.py), the command line (cli/waf.py), the *)
(* validate_waf_profile task (workers/tasks.py), all through               *)
(* WafProfileService (services/waf_profiles.py), and the pipeline run that *)
(* collects on the mapping (services/waf_pipeline.py).  The IPS profile    *)
(* has the same service, routes and task.                                  *)
(*                                                                         *)
(* A route locks what it changes, a task re-reads the row under a lock     *)
(* before it stamps a result, the command line does neither.  The ORM      *)
(* writes only the columns that differ from what the session has loaded.   *)
(***************************************************************************)
EXTENDS Integers, FiniteSets

CONSTANTS
  Mappings,     \* field mappings
  First,        \* the one the profile was created with
  Tasks,        \* validate_waf_profile tasks that may run at once
  Run,          \* the pipeline run of the source
  MaxVersion,   \* bound: profile versions
  MaxRetries,   \* waf_validation_lock_max_retries
  MaxQueue,     \* bound: messages of one retry count
  MaxFaults,    \* bound: messages lost or delivered again, workers that die
  None

ASSUME ProfileAssumption ==
  /\ First \in Mappings /\ None \notin Mappings
  /\ Run \notin Tasks /\ None \notin Tasks \cup {Run}
  /\ MaxVersion \in Nat \ {0} /\ MaxRetries \in Nat
  /\ MaxQueue \in Nat \ {0} /\ MaxFaults \in Nat

VARIABLES
  row,        \* the WafSourceProfile row as committed
  put,        \* the PUT that holds the log source's row
  cli,        \* the command line's session
  queue,      \* queue[n]: validation messages that were retried n times
  task,       \* task[t]: where a validation is and what it has read
  run,        \* the pipeline run
  lock,       \* who holds the advisory lock of the source
  passed,     \* ghost: the <<version, mapping>> pairs whose mapping tested VALID
  strayed,    \* ghost: a run collected on a pair that had not tested VALID when it was read
  raced,      \* ghost: a session wrote over a version it had not loaded
  faults      \* ghost: the faults so far

vars == <<row, put, cli, queue, task, run, lock, passed, strayed, raced, faults>>

Versions == 1..MaxVersion
Statuses == {"UNVALIDATED", "VALID", "INVALID"}  \* INCONCLUSIVE refuses like INVALID
Results == Statuses \ {"UNVALIDATED"}

Requests == {"none", "pending"}  \* whether validation_requested_at is set

Rows == [version : Versions, mapping : Mappings, status : Statuses,
         validated : 0..MaxVersion, enabled : BOOLEAN, requested : Requests]

\* What a session keeps of the row it loaded: the columns it compares with.
Loaded == [version |-> row.version, mapping |-> row.mapping, status |-> row.status,
           validated |-> row.validated, requested |-> row.requested]
\* An edit leaves validated_version alone and a PUT always writes the request, so
\* what was loaded of these makes no difference.
LoadedForSet == [Loaded EXCEPT !.validated = 0]
LoadedForPut == [LoadedForSet EXCEPT !.requested = "none"]

Snapshots == [version : Versions, mapping : Mappings, status : Statuses,
              validated : 0..MaxVersion, requested : Requests]

NoPut == [pc |-> "idle", loaded |-> None, mapping |-> None]
NoCli == [pc |-> "idle", loaded |-> None, mapping |-> None]
NoTask == [pc |-> "idle", retries |-> 0, version |-> 0, mapping |-> None]
NoRun == [pc |-> "idle", stray |-> FALSE]

PutOK ==
  /\ put \in [pc : {"idle", "loaded"}, loaded : Snapshots \cup {None},
              mapping : Mappings \cup {None}]
  /\ put.pc = "loaded" => /\ put.loaded \in Snapshots /\ put.mapping \in Mappings
                          /\ put.loaded.version < MaxVersion

CliOK ==
  /\ cli \in [pc : {"idle", "set", "validate", "enable"}, loaded : Snapshots \cup {None},
              mapping : Mappings \cup {None}]
  /\ cli.pc \in {"set", "validate"} => cli.loaded \in Snapshots
  /\ cli.pc = "set" => cli.mapping \in Mappings /\ cli.loaded.version < MaxVersion

TaskOK ==
  /\ queue \in [0..MaxRetries -> 0..MaxQueue]
  /\ task \in [Tasks -> [pc : {"idle", "busy", "probe"}, retries : 0..MaxRetries,
                         version : 0..MaxVersion, mapping : Mappings \cup {None}]]
  /\ \A t \in Tasks : task[t].pc # "idle" => /\ task[t].version \in Versions
                                             /\ task[t].mapping \in Mappings

RunOK == run \in [pc : {"idle", "loaded", "collect"}, stray : BOOLEAN]

GhostOK ==
  /\ passed \subseteq Versions \X Mappings /\ strayed \in BOOLEAN /\ raced \in BOOLEAN

\* Every variable has its type.
TypeOK ==
  /\ row \in Rows /\ PutOK /\ CliOK /\ TaskOK /\ RunOK
  /\ lock \in Tasks \cup {Run, None}
  /\ GhostOK /\ faults \in 0..MaxFaults

\* The profile was just created and its validation requested or not (the command
\* line's `set` requests none).
Init ==
  /\ \E r \in Requests :
       /\ row = [version |-> 1, mapping |-> First, status |-> "UNVALIDATED", validated |-> 0,
                 enabled |-> FALSE, requested |-> r]
       /\ queue = [n \in 0..MaxRetries |-> IF n = 0 /\ r = "pending" THEN 1 ELSE 0]
  /\ put = NoPut /\ cli = NoCli /\ run = NoRun
  /\ task = [t \in Tasks |-> NoTask]
  /\ lock = None
  /\ passed = {} /\ strayed = FALSE
  /\ raced = FALSE /\ faults = 0

-----------------------------------------------------------------------------
(* Writes and messages.                                                    *)

\* A session that loaded `loaded` and holds `new` flushes and commits: the UPDATE
\* names the columns that differ, and nothing but the key in its WHERE.  The
\* columns of a mapping are one here.
Column(loaded, new, stored) == IF new = loaded THEN stored ELSE new

Flushed(loaded, new) ==
  [version   |-> Column(loaded.version, new.version, row.version),
   mapping   |-> Column(loaded.mapping, new.mapping, row.mapping),
   status    |-> Column(loaded.status, new.status, row.status),
   validated |-> Column(loaded.validated, new.validated, row.validated),
   enabled   |-> row.enabled,
   requested |-> Column(loaded.requested, new.requested, row.requested)]

\* Ghost: the row is no longer at the version that was loaded.
Races(loaded) == raced' = (raced \/ row.version # loaded.version)

Fault == faults < MaxFaults /\ faults' = faults + 1

\* The queue when a message was taken from it.
Taken(n) == [queue EXCEPT ![n] = @ - 1]

\* A message is added to q, after the commit; the broker may refuse it.  Messages
\* beyond the bound are not told apart.
Send(q, n) ==
  \/ queue' = [q EXCEPT ![n] = IF @ < MaxQueue THEN @ + 1 ELSE @] /\ UNCHANGED faults
  \/ queue' = q /\ Fault

\* upsert's change of mapping: the old validation says nothing about the new one.
Upsert(loaded, m) ==
  [version |-> loaded.version + 1, mapping |-> m, status |-> "UNVALIDATED",
   validated |-> loaded.validated, requested |-> "none"]

\* store_validation
StoreValidation(loaded, result) ==
  [version |-> loaded.version, mapping |-> loaded.mapping, status |-> result,
   validated |-> loaded.version, requested |-> "none"]

\* Ghost: a result for mapping m was stored for version v.
Stored(v, m, result) ==
  passed' = IF result = "VALID" THEN passed \cup {<<v, m>>} ELSE passed

-----------------------------------------------------------------------------
(* The routes.                                                             *)

\* PUT with a changed mapping: the log source's row is locked, the profile is
\* read without a lock.  A version other than the expected one is refused, and so
\* is a payload that changes nothing.
PutLoads(m) ==
  /\ put.pc = "idle"
  /\ m # row.mapping /\ row.version < MaxVersion
  /\ put' = [pc |-> "loaded", loaded |-> LoadedForPut, mapping |-> m]
  /\ UNCHANGED <<row, cli, queue, task, run, lock, passed, strayed, raced, faults>>

\* upsert and request_validation: the pending marker is committed with the new
\* mapping, then the task is enqueued.
PutSaves ==
  /\ put.pc = "loaded"
  /\ row' = [Flushed(put.loaded, Upsert(put.loaded, put.mapping))
             EXCEPT !.requested = "pending"]
  /\ Races(put.loaded)
  /\ Send(queue, 0)
  /\ put' = NoPut
  /\ UNCHANGED <<cli, task, run, lock, passed, strayed>>

\* request_validation, on the locked row.  A pending request is refused until it is
\* older than the timeout, which it may be at any time: nothing bounds a task.
RequestValidation ==
  /\ row' = [row EXCEPT !.requested = "pending"]
  /\ Send(queue, 0)
  /\ UNCHANGED <<put, cli, task, run, lock, passed, strayed, raced>>

\* MUTANT: a version that was never validated may be enabled and collected.
ValidatedOnce(r) == r.status = "VALID"

\* The current version has validated.
Validated(r) == r.status = "VALID" /\ r.validated = r.version

\* set_enabled on the locked row.
SetEnabled(on) ==
  /\ row.enabled # on
  /\ on => Validated(row)
  /\ row' = [row EXCEPT !.enabled = on]
  /\ UNCHANGED <<put, cli, queue, task, run, lock, passed, strayed, raced, faults>>

-----------------------------------------------------------------------------
(* The command line: one session, no lock.                                 *)

CliLoads(command, loaded, m) ==
  /\ cli.pc = "idle"
  /\ cli' = [pc |-> command, loaded |-> loaded, mapping |-> m]
  /\ UNCHANGED <<row, put, queue, task, run, lock, passed, strayed, raced, faults>>

\* `set`: upsert, and no validation is requested.
CliSetLoads(m) ==
  /\ m # row.mapping /\ row.version < MaxVersion
  /\ CliLoads("set", LoadedForSet, m)

CliSet ==
  /\ cli.pc = "set"
  /\ row' = Flushed(cli.loaded, Upsert(cli.loaded, cli.mapping))
  /\ Races(cli.loaded)
  /\ cli' = NoCli
  /\ UNCHANGED <<put, queue, task, run, lock, passed, strayed, faults>>

\* `validate`: the remote checks, then the result is stored on the loaded row.
CliValidateLoads == CliLoads("validate", Loaded, None)

CliValidate(result) ==
  /\ cli.pc = "validate"
  /\ row' = Flushed(cli.loaded, StoreValidation(cli.loaded, result))
  /\ Races(cli.loaded)
  /\ Stored(cli.loaded.version, cli.loaded.mapping, result)
  /\ cli' = NoCli
  /\ UNCHANGED <<put, queue, task, run, lock, strayed, faults>>

\* `enable`
CliEnableLoads ==
  /\ Validated(row) /\ ~row.enabled
  /\ CliLoads("enable", None, None)

CliEnable ==
  /\ cli.pc = "enable"
  /\ row' = [row EXCEPT !.enabled = TRUE]
  /\ cli' = NoCli
  /\ UNCHANGED <<put, queue, task, run, lock, passed, strayed, raced, faults>>

\* The remote checks raise, or the process or its request is interrupted.
SessionFails ==
  /\ \/ cli.pc # "idle" /\ cli' = NoCli /\ UNCHANGED put
     \/ put.pc # "idle" /\ put' = NoPut /\ UNCHANGED cli
  /\ UNCHANGED <<row, queue, task, run, lock, passed, strayed, raced, faults>>

-----------------------------------------------------------------------------
(* The validation task.                                                    *)

Ends(t) == task' = [task EXCEPT ![t] = NoTask]
Unlocks(t) == lock' = IF lock = t THEN None ELSE lock

\* The task has read the profile.
Starts(t, n, pc) ==
  task' = [task EXCEPT ![t] = [pc |-> pc, retries |-> n, version |-> row.version,
                               mapping |-> row.mapping]]

\* MUTANT: a source that is busy is not tried again.
LockedDropped(t, n) == queue' = Taken(n) /\ UNCHANGED <<task, faults>>

\* MUTANT: the retries are not counted.
LockedForEver(t, n) == Send(Taken(n), n) /\ UNCHANGED task

\* Another worker holds the source: the message is sent again with a delay, up to
\* the limit, and the request is given back after that.
Locked(t, n) ==
  IF n < MaxRetries THEN Send(Taken(n), n + 1) /\ UNCHANGED task
  ELSE Starts(t, n, "busy") /\ queue' = Taken(n) /\ UNCHANGED faults

\* A message is delivered: the row is read without a lock, then the source's lock
\* is tried.  Without a pending request there is nothing to do.
Receive(t, n) ==
  /\ task[t].pc = "idle" /\ queue[n] > 0
  /\ \/ /\ row.requested = "none"
        /\ queue' = Taken(n)
        /\ UNCHANGED <<task, lock, faults>>
     \/ /\ row.requested = "pending" /\ lock = None
        /\ lock' = t
        /\ Starts(t, n, "probe")
        /\ queue' = Taken(n)
        /\ UNCHANGED faults
     \/ /\ row.requested = "pending" /\ lock # None
        /\ Locked(t, n)
        /\ UNCHANGED lock
  /\ UNCHANGED <<row, put, cli, run, passed, strayed, raced>>

\* MUTANT: the version is not compared again.
CurrentAlways(t) == TRUE

\* The row, read again under its lock, is at the version the task started from.
Current(t) == row.version = task[t].version

\* The task ends on a newer version: a pending request is passed on.
StaleRequeued(t) ==
  /\ ~Current(t)
  /\ IF row.requested = "none" THEN UNCHANGED <<queue, faults>> ELSE Send(queue, 0)
  /\ UNCHANGED <<row, passed>>

\* The retries are used up: record_validation_source_busy gives the request back.
SourceBusy(t) ==
  /\ task[t].pc = "busy"
  /\ \/ StaleRequeued(t)
     \/ /\ Current(t)
        /\ row' = [row EXCEPT !.requested = "none"]
        /\ UNCHANGED <<queue, passed, faults>>
  /\ Ends(t)
  /\ UNCHANGED <<put, cli, run, lock, strayed, raced>>

\* The remote checks are over: the result is stored, unless the version changed
\* meanwhile.  The lock is given back after the commit.
Store(t, result) ==
  /\ task[t].pc = "probe"
  /\ \/ StaleRequeued(t)
     \/ /\ Current(t)
        /\ row' = Flushed(Loaded, StoreValidation(Loaded, result))
        /\ Stored(row.version, task[t].mapping, result)
        /\ UNCHANGED <<queue, faults>>
  /\ Ends(t) /\ Unlocks(t)
  /\ UNCHANGED <<put, cli, run, strayed, raced>>

\* The remote checks raise: record_validation_exception keeps the earlier result.
Fail(t) ==
  /\ task[t].pc = "probe"
  /\ \/ StaleRequeued(t)
     \/ /\ Current(t)
        /\ row' = [row EXCEPT !.requested = "none"]
        /\ UNCHANGED <<queue, passed, faults>>
  /\ Ends(t) /\ Unlocks(t)
  /\ UNCHANGED <<put, cli, run, strayed, raced>>

\* The message of task t is in the queue again.
Returns(t) ==
  /\ queue[task[t].retries] < MaxQueue
  /\ queue' = [queue EXCEPT ![task[t].retries] = @ + 1]

\* The worker dies and its connection with it.  The message is acknowledged late:
\* it is lost with the child process, or delivered again.
Crash(t) ==
  /\ task[t].pc # "idle"
  /\ Fault
  /\ UNCHANGED queue \/ Returns(t)
  /\ Ends(t) /\ Unlocks(t)
  /\ UNCHANGED <<row, put, cli, run, passed, strayed, raced>>

\* The broker delivers the message of a task that still runs once more.
Redeliver(t) ==
  /\ task[t].pc # "idle"
  /\ Fault
  /\ Returns(t)
  /\ UNCHANGED <<row, put, cli, task, run, lock, passed, strayed, raced>>

-----------------------------------------------------------------------------
(* The pipeline run.                                                       *)

\* collection_ineligibility, with collection and monitoring on.
Eligible(r) == r.enabled /\ Validated(r)

\* The run reads the profile, without a lock, and goes on if it is eligible.  Of
\* the version and mapping it then works with, the ghost remembers enough.
RunLoads ==
  /\ run.pc = "idle" /\ Eligible(row)
  /\ run' = [pc |-> "loaded", stray |-> <<row.version, row.mapping>> \notin passed]
  /\ UNCHANGED <<row, put, cli, queue, task, lock, passed, strayed, raced, faults>>

\* It tries the source's lock: a source that is locked is skipped, one that is not
\* is collected on what was read.
RunTriesLock ==
  /\ run.pc = "loaded"
  /\ \/ /\ lock = None
        /\ lock' = Run
        /\ run' = [run EXCEPT !.pc = "collect"]
     \/ /\ lock # None
        /\ run' = NoRun
        /\ UNCHANGED lock
  /\ UNCHANGED <<row, put, cli, queue, task, passed, strayed, raced, faults>>

\* The source was collected on what was read, and run() gives the lock back.  The
\* caller commits after that, to tables that are not part of this module.
RunUnlocks ==
  /\ run.pc = "collect"
  /\ strayed' = (strayed \/ run.stray)
  /\ Unlocks(Run)
  /\ run' = NoRun
  /\ UNCHANGED <<row, put, cli, queue, task, passed, raced, faults>>

\* A run that fails is rolled back, one that dies loses its connection.
RunFails ==
  /\ run.pc # "idle"
  /\ run' = NoRun
  /\ Unlocks(Run)
  /\ UNCHANGED <<row, put, cli, queue, task, passed, strayed, raced, faults>>

-----------------------------------------------------------------------------

Works(t) == SourceBusy(t) \/ Fail(t) \/ \E result \in Results : Store(t, result)

Next ==
  \/ \E m \in Mappings : PutLoads(m) \/ CliSetLoads(m)
  \/ CliValidateLoads \/ CliEnableLoads
  \/ PutSaves \/ CliSet \/ CliEnable \/ SessionFails
  \/ \E result \in Results : CliValidate(result)
  \/ RequestValidation
  \/ \E on \in BOOLEAN : SetEnabled(on)
  \/ \E t \in Tasks, n \in 0..MaxRetries : Receive(t, n)
  \/ \E t \in Tasks : Works(t) \/ Crash(t) \/ Redeliver(t)
  \/ RunLoads \/ RunTriesLock \/ RunUnlocks \/ RunFails

\* Every message is delivered in the end, and the remote checks end or time out.
\* Nobody has to edit, ask or enable anything, and a run may hold the source for ever.
Fairness ==
  /\ \A t \in Tasks : WF_vars(Works(t))
  /\ \A n \in 0..MaxRetries : SF_vars(\E t \in Tasks : Receive(t, n))

Spec == Init /\ [][Next]_vars
FairSpec == Spec /\ Fairness

-----------------------------------------------------------------------------

\* A version that counts as validated was tested with the mapping it has, whatever
\* edits, repeated requests and duplicate or retried tasks happened during the
\* remote checks, as long as no session wrote over a version it had not loaded
\* (validate_waf_profile, store_validation).
NoStaleStamp == ~raced /\ Validated(row) => <<row.version, row.mapping>> \in passed

\* A run collects only on a mapping that tested VALID under its version, although
\* it reads the profile before it holds the lock, and whatever is edited, disabled
\* or stored while it runs, as long as no session wrote over a version it had
\* not loaded (collection_ineligibility, run).
CollectsOnlyValidated == ~raced => ~strayed

\* Nothing is left that could answer a pending request.
Orphaned == task = [t \in Tasks |-> NoTask] /\ \A n \in 0..MaxRetries : queue[n] = 0

\* Until a message or a worker is lost, a pending request has a message or a task
\* that will answer it: no early return drops one (request_validation, the
\* requeues of validate_waf_profile).
PendingHasTask == faults = 0 /\ row.requested = "pending" => ~Orphaned

\* A pending request is answered, or was lost with its last message: lock retries
\* and requeues do not go round for ever.
RequestSettles == row.requested = "pending" ~> row.requested = "none" \/ Orphaned

=============================================================================
