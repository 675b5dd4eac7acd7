------------------------- MODULE SourceProfileProofs -------------------------
(***************************************************************************)
(* SourceProfile: its types, and that as long as no session wrote over a   *)
(* version it had not loaded, a version counts as validated only on the    *)
(* mapping that was tested, and a run collects on nothing else.            *)
(*                                                                         *)
(* The argument: a version names its mapping.  Whoever holds a copy of the *)
(* profile (a PUT, a command, a task, a run) holds a version that is not   *)
(* newer than the row's, and if it is the row's own, so is the mapping.    *)
(* What the command line needs on top is that a status that changed since  *)
(* it loaded the row came with a stamp of the current version.             *)
(***************************************************************************)
EXTENDS SourceProfile, TLAPS

\* A copy of version v and mapping m agrees with the row.
Agrees(v, m) == v <= row.version /\ (v = row.version => m = row.mapping)

\* Every copy of the profile agrees with the row.
PutAgrees == put.pc = "loaded" => Agrees(put.loaded.version, put.loaded.mapping)
CliAgrees == cli.pc \in {"set", "validate"} => Agrees(cli.loaded.version, cli.loaded.mapping)
TasksAgree == \A t \in Tasks : task[t].pc # "idle" => Agrees(task[t].version, task[t].mapping)

\* A status that differs from the one the command loaded was stamped since.
StampedSince ==
  cli.pc = "validate" /\ cli.loaded.version = row.version /\ row.status # cli.loaded.status
    => row.validated = row.version

\* What a run has read had tested VALID.
RunPassed == ~run.stray

\* The version that counts as validated was tested.
RowPassed == Validated(row) => <<row.version, row.mapping>> \in passed

\* What holds as long as no session wrote over a version it had not loaded.
Unraced ==
  /\ row.validated <= row.version
  /\ PutAgrees /\ CliAgrees /\ TasksAgree
  /\ StampedSince /\ RunPassed /\ RowPassed
  /\ ~strayed

\* The inductive invariant.
Consistent == TypeOK /\ (~raced => Unraced)

USE ProfileAssumption

-----------------------------------------------------------------------------

\* What a flush leaves of the row.
LEMMA FlushedRow ==
  ASSUME row \in Rows, NEW loaded \in Snapshots, NEW new \in Snapshots
  PROVE  /\ Flushed(loaded, new) \in Rows
         /\ Flushed(loaded, new).version = Column(loaded.version, new.version, row.version)
         /\ Flushed(loaded, new).mapping = Column(loaded.mapping, new.mapping, row.mapping)
         /\ Flushed(loaded, new).status = Column(loaded.status, new.status, row.status)
         /\ Flushed(loaded, new).validated
              = Column(loaded.validated, new.validated, row.validated)
  BY DEF Rows, Snapshots, Flushed, Column

\* What the sessions keep of the row.
LEMMA LoadedTypes ==
  ASSUME row \in Rows
  PROVE  /\ Loaded \in Snapshots
         /\ LoadedForSet \in Snapshots /\ LoadedForSet.version = row.version
         /\ LoadedForSet.mapping = row.mapping
         /\ LoadedForPut \in Snapshots /\ LoadedForPut.version = row.version
         /\ LoadedForPut.mapping = row.mapping
<1>1. Loaded \in Snapshots /\ Loaded.version = row.version /\ Loaded.mapping = row.mapping
  BY DEF Loaded, Snapshots, Rows
<1>2. /\ LoadedForSet \in Snapshots /\ LoadedForSet.version = row.version
      /\ LoadedForSet.mapping = row.mapping
  BY <1>1 DEF LoadedForSet, Snapshots
<1>3. /\ LoadedForPut \in Snapshots /\ LoadedForPut.version = row.version
      /\ LoadedForPut.mapping = row.mapping
  BY <1>2 DEF LoadedForPut, Snapshots, Requests
<1> QED BY <1>1, <1>2, <1>3

\* What upsert and store_validation make of a loaded row.
LEMMA UpsertRow ==
  ASSUME NEW loaded \in Snapshots, NEW m \in Mappings, loaded.version < MaxVersion
  PROVE  /\ Upsert(loaded, m) \in Snapshots
         /\ Upsert(loaded, m).version = loaded.version + 1
         /\ Upsert(loaded, m).mapping = m
         /\ Upsert(loaded, m).status = "UNVALIDATED"
         /\ Upsert(loaded, m).validated = loaded.validated
  BY DEF Upsert, Snapshots, Versions, Statuses, Requests

LEMMA StoredRow ==
  ASSUME NEW loaded \in Snapshots, NEW result \in Results
  PROVE  /\ StoreValidation(loaded, result) \in Snapshots
         /\ StoreValidation(loaded, result).version = loaded.version
         /\ StoreValidation(loaded, result).mapping = loaded.mapping
         /\ StoreValidation(loaded, result).status = result
         /\ StoreValidation(loaded, result).validated = loaded.version
  BY DEF StoreValidation, Snapshots, Versions, Statuses, Results, Requests

\* The message queue and the fault counter keep their types.
LEMMA SendType ==
  ASSUME NEW q \in [0..MaxRetries -> 0..MaxQueue], NEW n \in 0..MaxRetries,
         faults \in 0..MaxFaults, Send(q, n)
  PROVE  queue' \in [0..MaxRetries -> 0..MaxQueue] /\ faults' \in 0..MaxFaults
  BY DEF Send, Fault

LEMMA TypeInit == Init => TypeOK
<1> SUFFICES ASSUME Init PROVE TypeOK
  OBVIOUS
<1> USE DEF Init
<1>1. row \in Rows
  BY DEF Rows, Versions, Statuses, Requests
<1>2. PutOK
  BY DEF PutOK, NoPut
<1>3. CliOK
  BY DEF CliOK, NoCli
<1>4. TaskOK
  BY DEF TaskOK, NoTask
<1>5. RunOK
  BY DEF RunOK, NoRun
<1>6. lock \in Tasks \cup {Run, None} /\ faults \in 0..MaxFaults
  OBVIOUS
<1>7. GhostOK
  BY DEF GhostOK
<1> QED
  BY <1>1, <1>2, <1>3, <1>4, <1>5, <1>6, <1>7 DEF TypeOK

\* The types of what an action leaves alone.
LEMMA TypeStep ==
  ASSUME TypeOK, [Next]_vars
  PROVE  TypeOK'
<1> USE DEF TypeOK
<1>0. /\ UNCHANGED put => PutOK'
      /\ UNCHANGED cli => CliOK'
      /\ UNCHANGED <<queue, task>> => TaskOK'
      /\ UNCHANGED run => RunOK'
      /\ UNCHANGED <<passed, strayed, raced>> => GhostOK'
  BY DEF PutOK, CliOK, TaskOK, RunOK, GhostOK
<1>a. /\ Loaded \in Snapshots
      /\ LoadedForSet \in Snapshots /\ LoadedForSet.version = row.version
      /\ LoadedForPut \in Snapshots /\ LoadedForPut.version = row.version
  BY LoadedTypes
<1>f. queue \in [0..MaxRetries -> 0..MaxQueue]
  BY DEF TaskOK
<1>g. Send(queue, 0) => queue' \in [0..MaxRetries -> 0..MaxQueue] /\ faults' \in 0..MaxFaults
  <2>1. 0 \in 0..MaxRetries
    OBVIOUS
  <2> QED BY <1>f, <2>1, SendType
<1>1. ASSUME NEW m \in Mappings, PutLoads(m) PROVE TypeOK'
  <2>1. PutOK'
    BY <1>1, <1>a DEF PutLoads, PutOK, Rows, Versions
  <2> QED BY <1>1, <1>0, <2>1 DEF PutLoads
<1>2. CASE PutSaves
  <2>1. put.loaded \in Snapshots /\ put.mapping \in Mappings /\ put.loaded.version < MaxVersion
    BY <1>2 DEF PutSaves, PutOK
  <2>2. Flushed(put.loaded, Upsert(put.loaded, put.mapping)) \in Rows
    BY <2>1, UpsertRow, FlushedRow
  <2>3. row' \in Rows
    BY <1>2, <2>2 DEF PutSaves, Rows, Requests
  <2>4. TaskOK' /\ faults' \in 0..MaxFaults
    BY <1>2, <1>g DEF PutSaves, TaskOK
  <2>5. PutOK'
    BY <1>2 DEF PutSaves, PutOK, NoPut
  <2>6. GhostOK'
    BY <1>2 DEF PutSaves, GhostOK, Races
  <2> QED BY <1>2, <1>0, <2>3, <2>4, <2>5, <2>6 DEF PutSaves
<1>3. CASE RequestValidation
  <2>1. row' \in Rows
    BY <1>3 DEF RequestValidation, Rows, Requests
  <2>2. TaskOK' /\ faults' \in 0..MaxFaults
    BY <1>3, <1>g DEF RequestValidation, TaskOK
  <2> QED BY <1>3, <1>0, <2>1, <2>2 DEF RequestValidation
<1>4. ASSUME NEW on \in BOOLEAN, SetEnabled(on) PROVE TypeOK'
  <2>1. row' \in Rows
    BY <1>4 DEF SetEnabled, Rows
  <2> QED BY <1>4, <1>0, <2>1 DEF SetEnabled
<1>5. ASSUME NEW m \in Mappings, CliSetLoads(m) PROVE TypeOK'
  <2>1. CliOK'
    BY <1>5, <1>a DEF CliSetLoads, CliLoads, CliOK, Rows, Versions
  <2> QED BY <1>5, <1>0, <2>1 DEF CliSetLoads, CliLoads
<1>6. CASE CliValidateLoads
  <2>1. CliOK'
    BY <1>6, <1>a DEF CliValidateLoads, CliLoads, CliOK
  <2> QED BY <1>6, <1>0, <2>1 DEF CliValidateLoads, CliLoads
<1>7. CASE CliEnableLoads
  <2>1. CliOK'
    BY <1>7 DEF CliEnableLoads, CliLoads, CliOK
  <2> QED BY <1>7, <1>0, <2>1 DEF CliEnableLoads, CliLoads
<1>8. CASE CliSet
  <2>1. cli.loaded \in Snapshots /\ cli.mapping \in Mappings /\ cli.loaded.version < MaxVersion
    BY <1>8 DEF CliSet, CliOK
  <2>2. row' \in Rows
    BY <1>8, <2>1, UpsertRow, FlushedRow DEF CliSet
  <2>3. CliOK'
    BY <1>8 DEF CliSet, CliOK, NoCli
  <2>4. GhostOK'
    BY <1>8 DEF CliSet, GhostOK, Races
  <2> QED BY <1>8, <1>0, <2>2, <2>3, <2>4 DEF CliSet
<1>9. ASSUME NEW result \in Results, CliValidate(result) PROVE TypeOK'
  <2>1. cli.loaded \in Snapshots
    BY <1>9 DEF CliValidate, CliOK
  <2>2. row' \in Rows
    BY <1>9, <2>1, StoredRow, FlushedRow DEF CliValidate
  <2>3. CliOK'
    BY <1>9 DEF CliValidate, CliOK, NoCli
  <2>4. GhostOK'
    BY <1>9, <2>1 DEF CliValidate, GhostOK, Races, Stored, Snapshots
  <2> QED BY <1>9, <1>0, <2>2, <2>3, <2>4 DEF CliValidate
<1>10. CASE CliEnable
  <2>1. row' \in Rows
    BY <1>10 DEF CliEnable, Rows
  <2>2. CliOK'
    BY <1>10 DEF CliEnable, CliOK, NoCli
  <2> QED BY <1>10, <1>0, <2>1, <2>2 DEF CliEnable
<1>11. CASE SessionFails
  <2>1. PutOK' /\ CliOK'
    BY <1>11 DEF SessionFails, PutOK, CliOK, NoPut, NoCli
  <2> QED BY <1>11, <1>0, <2>1 DEF SessionFails
<1>b. \A n \in 0..MaxRetries :
         queue[n] > 0 => Taken(n) \in [0..MaxRetries -> 0..MaxQueue]
  BY DEF Taken, TaskOK
<1>c. ASSUME NEW t \in Tasks, Ends(t), queue' \in [0..MaxRetries -> 0..MaxQueue]
      PROVE  TaskOK'
  BY <1>c DEF TaskOK, Ends, NoTask
<1>d. ASSUME NEW t \in Tasks, Unlocks(t) PROVE lock' \in Tasks \cup {Run, None}
  BY <1>d DEF Unlocks
<1>12. ASSUME NEW t \in Tasks, NEW n \in 0..MaxRetries, Receive(t, n) PROVE TypeOK'
  <2>1. queue' \in [0..MaxRetries -> 0..MaxQueue] /\ faults' \in 0..MaxFaults
    <3>1. Taken(n) \in [0..MaxRetries -> 0..MaxQueue]
      BY <1>12, <1>b DEF Receive
    <3>2. CASE n < MaxRetries /\ Send(Taken(n), n + 1)
      <4>1. n + 1 \in 0..MaxRetries
        BY <3>2
      <4> QED BY <3>1, <3>2, <4>1, SendType
    <3>3. CASE queue' = Taken(n) /\ UNCHANGED faults
      BY <3>1, <3>3
    <3> QED BY <1>12, <3>2, <3>3 DEF Receive, Locked
  <2>2. row.version \in Versions /\ row.mapping \in Mappings
    BY DEF Rows
  <2>3. UNCHANGED task \/ Starts(t, n, "probe") \/ Starts(t, n, "busy")
    BY <1>12 DEF Receive, Locked
  <2>4. TaskOK'
    <3>1. ASSUME NEW pc \in {"probe", "busy"}, Starts(t, n, pc) PROVE TaskOK'
      <4> DEFINE r == [pc |-> pc, retries |-> n, version |-> row.version,
                       mapping |-> row.mapping]
      <4>1. /\ r \in [pc : {"idle", "busy", "probe"}, retries : 0..MaxRetries,
                       version : 0..MaxVersion, mapping : Mappings \cup {None}]
            /\ r.version \in Versions /\ r.mapping \in Mappings
        BY <2>2 DEF Versions
      <4>2. task' = [task EXCEPT ![t] = r]
        BY <3>1 DEF Starts
      <4> HIDE DEF r
      <4> QED BY <2>1, <4>1, <4>2 DEF TaskOK
    <3>2. CASE UNCHANGED task
      BY <2>1, <3>2 DEF TaskOK
    <3> QED BY <2>3, <3>1, <3>2
  <2>5. lock' \in Tasks \cup {Run, None}
    BY <1>12 DEF Receive
  <2> QED BY <1>12, <1>0, <2>1, <2>4, <2>5 DEF Receive
<1>e. ASSUME NEW t \in Tasks, StaleRequeued(t)
      PROVE  /\ queue' \in [0..MaxRetries -> 0..MaxQueue] /\ faults' \in 0..MaxFaults
             /\ UNCHANGED <<row, passed>>
  BY <1>e, <1>f, <1>g DEF StaleRequeued
<1>13. ASSUME NEW t \in Tasks, SourceBusy(t) PROVE TypeOK'
  <2>1. queue' \in [0..MaxRetries -> 0..MaxQueue] /\ faults' \in 0..MaxFaults
    BY <1>13, <1>e, <1>f DEF SourceBusy
  <2>2. row' \in Rows
    BY <1>13, <1>e DEF SourceBusy, Rows, Requests
  <2>3. UNCHANGED <<passed, strayed, raced>>
    BY <1>13, <1>e DEF SourceBusy
  <2>4. TaskOK'
    BY <1>13, <1>c, <2>1 DEF SourceBusy
  <2> QED BY <1>13, <1>0, <2>1, <2>2, <2>3, <2>4 DEF SourceBusy
<1>14. ASSUME NEW t \in Tasks, NEW result \in Results, Store(t, result) PROVE TypeOK'
  <2>1. queue' \in [0..MaxRetries -> 0..MaxQueue] /\ faults' \in 0..MaxFaults
    BY <1>14, <1>e, <1>f DEF Store
  <2>2. row' \in Rows
    BY <1>14, <1>e, <1>a, StoredRow, FlushedRow DEF Store
  <2>3. GhostOK'
    <3>1. task[t].mapping \in Mappings /\ row.version \in Versions
      BY <1>14 DEF Store, TaskOK, Rows
    <3> QED BY <1>14, <1>e, <3>1 DEF Store, Stored, GhostOK
  <2>4. TaskOK'
    BY <1>14, <1>c, <2>1 DEF Store
  <2> QED BY <1>14, <1>0, <1>d, <2>1, <2>2, <2>3, <2>4 DEF Store
<1>15. ASSUME NEW t \in Tasks, Fail(t) PROVE TypeOK'
  <2>1. queue' \in [0..MaxRetries -> 0..MaxQueue] /\ faults' \in 0..MaxFaults
    BY <1>15, <1>e, <1>f DEF Fail
  <2>2. row' \in Rows
    BY <1>15, <1>e DEF Fail, Rows, Requests
  <2>3. UNCHANGED <<passed, strayed, raced>>
    BY <1>15, <1>e DEF Fail
  <2>4. TaskOK'
    BY <1>15, <1>c, <2>1 DEF Fail
  <2> QED BY <1>15, <1>0, <1>d, <2>1, <2>2, <2>3, <2>4 DEF Fail
<1>h. ASSUME NEW t \in Tasks, Returns(t) PROVE queue' \in [0..MaxRetries -> 0..MaxQueue]
  <2> DEFINE r == task[t].retries
  <2>1. r \in 0..MaxRetries
    BY DEF TaskOK
  <2>2. queue[r] < MaxQueue /\ queue' = [queue EXCEPT ![r] = @ + 1]
    BY <1>h DEF Returns
  <2> HIDE DEF r
  <2> QED BY <1>f, <2>1, <2>2
<1>16. ASSUME NEW t \in Tasks, Crash(t) PROVE TypeOK'
  <2>1. queue' \in [0..MaxRetries -> 0..MaxQueue] /\ faults' \in 0..MaxFaults
    BY <1>16, <1>f, <1>h DEF Crash, Fault
  <2>2. TaskOK'
    BY <1>16, <1>c, <2>1 DEF Crash
  <2> QED BY <1>16, <1>0, <1>d, <2>1, <2>2 DEF Crash
<1>17. ASSUME NEW t \in Tasks, Redeliver(t) PROVE TypeOK'
  <2>1. queue' \in [0..MaxRetries -> 0..MaxQueue] /\ faults' \in 0..MaxFaults
    BY <1>17, <1>h DEF Redeliver, Fault
  <2>2. TaskOK'
    BY <1>17, <2>1 DEF Redeliver, TaskOK
  <2> QED BY <1>17, <1>0, <2>1, <2>2 DEF Redeliver
<1>18. CASE RunLoads \/ RunTriesLock
  <2>1. RunOK'
    <3>1. CASE RunLoads
      <4> DEFINE b == <<row.version, row.mapping>> \notin passed
      <4>1. b \in BOOLEAN /\ run' = [pc |-> "loaded", stray |-> b]
        BY <3>1 DEF RunLoads
      <4> HIDE DEF b
      <4> QED BY <4>1 DEF RunOK
    <3>2. CASE RunTriesLock
      <4>1. NoRun \in [pc : {"idle", "loaded", "collect"}, stray : BOOLEAN]
        BY DEF NoRun
      <4>2. [run EXCEPT !.pc = "collect"] \in
              [pc : {"idle", "loaded", "collect"}, stray : BOOLEAN]
        BY DEF RunOK
      <4>3. run' = NoRun \/ run' = [run EXCEPT !.pc = "collect"]
        BY <3>2 DEF RunTriesLock
      <4> QED BY <4>1, <4>2, <4>3 DEF RunOK
    <3> QED BY <1>18, <3>1, <3>2
  <2>2. lock' \in Tasks \cup {Run, None}
    BY <1>18 DEF RunLoads, RunTriesLock
  <2> QED BY <1>18, <1>0, <2>1, <2>2 DEF RunLoads, RunTriesLock
<1>19. CASE RunUnlocks
  <2>1. RunOK'
    BY <1>19 DEF RunUnlocks, RunOK, NoRun
  <2>2. GhostOK'
    BY <1>19 DEF RunUnlocks, RunOK, GhostOK
  <2>3. lock' \in Tasks \cup {Run, None}
    BY <1>19 DEF RunUnlocks, Unlocks
  <2> QED BY <1>19, <1>0, <2>1, <2>2, <2>3 DEF RunUnlocks
<1>20. CASE RunFails
  <2>1. RunOK'
    BY <1>20 DEF RunFails, RunOK, NoRun
  <2>2. lock' \in Tasks \cup {Run, None}
    BY <1>20 DEF RunFails, Unlocks
  <2> QED BY <1>20, <1>0, <2>1, <2>2 DEF RunFails
<1>21. CASE UNCHANGED vars
  BY <1>21, <1>0 DEF vars
<1> QED
  BY <1>1, <1>2, <1>3, <1>4, <1>5, <1>6, <1>7, <1>8, <1>9, <1>10, <1>11, <1>12, <1>13,
     <1>14, <1>15, <1>16, <1>17, <1>18, <1>19, <1>20, <1>21 DEF Next, Works

\* Every variable keeps its type, for every number of mappings, tasks, versions,
\* retries and faults.
THEOREM TypeOKHolds == Spec => []TypeOK
<1>1. TypeOK /\ [Next]_vars => TypeOK'
  BY TypeStep
<1> QED
  BY TypeInit, <1>1, PTL DEF Spec

-----------------------------------------------------------------------------
(* The three things a step may do to the columns that validation is about. *)

\* It leaves them alone.
Kept ==
  /\ row'.version = row.version /\ row'.mapping = row.mapping
  /\ row'.status = row.status /\ row'.validated = row.validated

\* It moves to the next version without a stamp.
Moved == row'.version = row.version + 1 /\ row'.validated = row.validated

\* It stamps the version and leaves the mapping alone.
Stamped ==
  /\ row'.version = row.version /\ row'.mapping = row.mapping
  /\ row'.validated = row.validated \/ row'.validated = row.version

\* A copy that an action leaves alone still agrees, whatever happens to the row.
LEMMA CopiesKept ==
  ASSUME TypeOK, Unraced, Kept \/ Moved \/ Stamped
  PROVE  /\ row'.validated <= row'.version
         /\ UNCHANGED put => PutAgrees'
         /\ UNCHANGED cli => CliAgrees'
         /\ UNCHANGED task => TasksAgree'
         /\ \A t \in Tasks : Ends(t) => TasksAgree'
<1>1. row.version \in Nat /\ row.validated \in Nat
  BY DEF TypeOK, Rows, Versions
<1>2. row'.validated <= row'.version
  BY <1>1 DEF Unraced, Kept, Moved, Stamped
<1>3. ASSUME NEW v \in Nat, NEW m, Agrees(v, m)
      PROVE  v <= row'.version /\ (v = row'.version => m = row'.mapping)
  BY <1>1, <1>3 DEF Agrees, Kept, Moved, Stamped
<1>4. ASSUME UNCHANGED put PROVE PutAgrees'
  <2>1. put.pc = "loaded" => put.loaded.version \in Nat
    BY DEF TypeOK, PutOK, Snapshots, Versions
  <2> QED BY <1>3, <1>4, <2>1 DEF Unraced, PutAgrees, Agrees
<1>5. ASSUME UNCHANGED cli PROVE CliAgrees'
  <2>1. cli.pc \in {"set", "validate"} => cli.loaded.version \in Nat
    BY DEF TypeOK, CliOK, Snapshots, Versions
  <2> QED BY <1>3, <1>5, <2>1 DEF Unraced, CliAgrees, Agrees
<1>6. ASSUME NEW t \in Tasks, task[t].pc # "idle"
      PROVE  /\ task[t].version <= row'.version
             /\ task[t].version = row'.version => task[t].mapping = row'.mapping
  <2>1. task[t].version \in Nat
    BY DEF TypeOK, TaskOK, Versions
  <2> QED BY <1>3, <1>6, <2>1 DEF Unraced, TasksAgree
<1>7. ASSUME UNCHANGED task PROVE TasksAgree'
  BY <1>6, <1>7 DEF TasksAgree, Agrees
<1>8. ASSUME NEW t \in Tasks, Ends(t) PROVE TasksAgree'
  <2>1. \A u \in Tasks : task'[u] = task[u] \/ task'[u].pc = "idle"
    BY <1>8 DEF Ends, NoTask, TypeOK, TaskOK
  <2> QED BY <1>6, <2>1 DEF TasksAgree, Agrees
<1> QED
  BY <1>2, <1>4, <1>5, <1>7, <1>8

\* What a step that leaves the columns alone has to show.
LEMMA KeptUnraced ==
  ASSUME TypeOK, Unraced, Kept, UNCHANGED passed
  PROVE  /\ RowPassed'
         /\ UNCHANGED cli => StampedSince'
         /\ UNCHANGED run => RunPassed'
  BY DEF Unraced, Kept, RowPassed, Validated, StampedSince, RunPassed

\* What a step that moves to the next version has to show.
LEMMA MovedUnraced ==
  ASSUME TypeOK, Unraced, Moved, UNCHANGED <<run, passed>>
  PROVE  RowPassed' /\ RunPassed' /\ (UNCHANGED cli => StampedSince')
<1>1. row.version \in Nat /\ row.validated \in Nat
  BY DEF TypeOK, Rows, Versions
<1>2. RowPassed'
  BY <1>1 DEF Unraced, Moved, RowPassed, Validated
<1>3. RunPassed'
  BY DEF Unraced, RunPassed
<1>4. ASSUME UNCHANGED cli PROVE StampedSince'
  <2>1. cli.pc = "validate" => cli.loaded.version \in Nat
    BY DEF TypeOK, CliOK, Snapshots, Versions
  <2> QED BY <1>1, <1>4, <2>1 DEF Unraced, Moved, CliAgrees, Agrees, StampedSince
<1> QED
  BY <1>2, <1>3, <1>4

LEMMA UnracedInit == Init => Unraced
<1> SUFFICES ASSUME Init PROVE Unraced
  OBVIOUS
<1>1. row.version = 1 /\ row.validated = 0 /\ row.status = "UNVALIDATED"
  BY DEF Init
<1>2. PutAgrees /\ CliAgrees /\ TasksAgree /\ StampedSince /\ RunPassed
  BY DEF Init, PutAgrees, CliAgrees, TasksAgree, StampedSince, RunPassed,
         NoPut, NoCli, NoTask, NoRun
<1>3. RowPassed
  BY <1>1 DEF RowPassed, Validated
<1> QED
  BY <1>1, <1>2, <1>3 DEF Unraced, Init

LEMMA UnracedStep ==
  ASSUME TypeOK, TypeOK', Unraced, [Next]_vars, ~raced, ~raced'
  PROVE  Unraced'
<1> USE DEF Unraced
<1>0. row \in Rows /\ Loaded \in Snapshots
  BY DEF TypeOK, Loaded, Snapshots, Rows
<1>a. UNCHANGED row => Kept
  BY DEF Kept
<1>b. \A r \in Requests : row' = [row EXCEPT !.requested = r] => Kept
  BY <1>0 DEF Kept, Rows
<1>c. \A on \in BOOLEAN : row' = [row EXCEPT !.enabled = on] => Kept
  BY <1>0 DEF Kept, Rows
<1>d. ASSUME NEW loaded, Races(loaded) PROVE row.version = loaded.version
  BY <1>d DEF Races
<1>1. ASSUME NEW m \in Mappings, PutLoads(m) PROVE Unraced'
  <2>1. Kept
    BY <1>1, <1>a DEF PutLoads
  <2>2. PutAgrees'
    BY <1>1, <1>0, LoadedTypes DEF PutLoads, PutAgrees, Agrees, Rows, Versions
  <2> QED BY <1>1, <2>1, <2>2, CopiesKept, KeptUnraced DEF PutLoads
<1>2. CASE PutSaves
  <2>1. put.loaded \in Snapshots /\ put.mapping \in Mappings /\ put.loaded.version < MaxVersion
    BY <1>2 DEF PutSaves, TypeOK, PutOK
  <2>2. put.loaded.version = row.version
    BY <1>2, <1>d DEF PutSaves
  <2> DEFINE new == Flushed(put.loaded, Upsert(put.loaded, put.mapping))
  <2>3. new.version = row.version + 1 /\ new.validated = row.validated /\ new \in Rows
    <3>1. row.version + 1 # row.version
      BY <1>0 DEF Rows, Versions
    <3> QED BY <1>0, <2>1, <2>2, <3>1, UpsertRow, FlushedRow DEF Column
  <2>4. row' = [new EXCEPT !.requested = "pending"]
    BY <1>2 DEF PutSaves
  <2> HIDE DEF new
  <2>5. Moved
    BY <2>3, <2>4 DEF Moved, Rows
  <2>6. PutAgrees'
    BY <1>2 DEF PutSaves, PutAgrees, NoPut
  <2> QED BY <1>2, <2>5, <2>6, CopiesKept, MovedUnraced DEF PutSaves
<1>3. CASE RequestValidation
  <2>1. Kept
    BY <1>3, <1>b DEF RequestValidation, Requests
  <2> QED BY <1>3, <2>1, CopiesKept, KeptUnraced DEF RequestValidation
<1>4. ASSUME NEW on \in BOOLEAN, SetEnabled(on) PROVE Unraced'
  <2>1. Kept
    BY <1>4, <1>c DEF SetEnabled
  <2> QED BY <1>4, <2>1, CopiesKept, KeptUnraced DEF SetEnabled
<1>5. ASSUME NEW m \in Mappings, CliSetLoads(m) PROVE Unraced'
  <2>1. Kept
    BY <1>5, <1>a DEF CliSetLoads, CliLoads
  <2>2. CliAgrees' /\ StampedSince'
    BY <1>5, <1>0, LoadedTypes DEF CliSetLoads, CliLoads, CliAgrees, StampedSince, Agrees,
                      Rows, Versions
  <2> QED BY <1>5, <2>1, <2>2, CopiesKept, KeptUnraced DEF CliSetLoads, CliLoads
<1>6. CASE CliValidateLoads
  <2>1. Kept
    BY <1>6, <1>a DEF CliValidateLoads, CliLoads
  <2>2. CliAgrees' /\ StampedSince'
    BY <1>6, <1>0 DEF CliValidateLoads, CliLoads, CliAgrees, StampedSince, Agrees, Loaded,
                      Rows, Versions
  <2> QED BY <1>6, <2>1, <2>2, CopiesKept, KeptUnraced DEF CliValidateLoads, CliLoads
<1>7. CASE CliEnableLoads
  <2>1. Kept
    BY <1>7, <1>a DEF CliEnableLoads, CliLoads
  <2>2. CliAgrees' /\ StampedSince'
    BY <1>7 DEF CliEnableLoads, CliLoads, CliAgrees, StampedSince
  <2> QED BY <1>7, <2>1, <2>2, CopiesKept, KeptUnraced DEF CliEnableLoads, CliLoads
<1>e. cli' = NoCli => CliAgrees' /\ StampedSince'
  BY DEF NoCli, CliAgrees, StampedSince
<1>8. CASE CliSet
  <2>1. cli.loaded \in Snapshots /\ cli.mapping \in Mappings /\ cli.loaded.version < MaxVersion
    BY <1>8 DEF CliSet, TypeOK, CliOK
  <2>2. cli.loaded.version = row.version
    BY <1>8, <1>d DEF CliSet
  <2>3. Moved
    <3>1. row.version + 1 # row.version
      BY <1>0 DEF Rows, Versions
    <3> QED BY <1>8, <1>0, <2>1, <2>2, <3>1, UpsertRow, FlushedRow DEF CliSet, Column, Moved
  <2> QED BY <1>8, <1>e, <2>3, CopiesKept, MovedUnraced DEF CliSet
<1>9. ASSUME NEW result \in Results, CliValidate(result) PROVE Unraced'
  <2>1. cli.loaded \in Snapshots
    BY <1>9 DEF CliValidate, TypeOK, CliOK
  <2>2. cli.loaded.version = row.version
    BY <1>9, <1>d DEF CliValidate
  <2>3. cli.loaded.mapping = row.mapping
    BY <1>9, <2>2 DEF CliValidate, CliAgrees, Agrees
  <2>4. /\ Stamped
        /\ row'.status = Column(cli.loaded.status, result, row.status)
    BY <1>9, <1>0, <2>1, <2>2, <2>3, StoredRow, FlushedRow DEF CliValidate, Column, Stamped
  <2>5. /\ passed \subseteq passed'
        /\ result = "VALID" => <<row.version, row.mapping>> \in passed'
    BY <1>9, <2>2, <2>3 DEF CliValidate, Stored
  <2>6. RowPassed'
    <3>1. CASE row'.status = result
      BY <3>1, <2>4, <2>5 DEF RowPassed, Validated, Stamped
    <3>2. CASE row.status = "VALID" /\ row.status # cli.loaded.status
      <4>1. row.validated = row.version
        BY <1>9, <2>2, <3>2 DEF CliValidate, StampedSince
      <4> QED BY <2>4, <2>5, <3>2, <4>1 DEF RowPassed, Validated, Stamped
    <3>3. CASE row'.status # "VALID"
      BY <3>3 DEF RowPassed, Validated
    <3> QED BY <2>4, <3>1, <3>2, <3>3 DEF Column
  <2>7. RunPassed'
    BY <1>9, <2>5 DEF CliValidate, RunPassed
  <2> QED BY <1>9, <1>e, <2>4, <2>6, <2>7, CopiesKept DEF CliValidate
<1>10. CASE CliEnable
  <2>1. Kept
    BY <1>10, <1>c DEF CliEnable
  <2> QED BY <1>10, <1>e, <2>1, CopiesKept, KeptUnraced DEF CliEnable
<1>11. CASE SessionFails
  <2>1. Kept
    BY <1>11, <1>a DEF SessionFails
  <2>2. put' = NoPut => PutAgrees'
    BY DEF NoPut, PutAgrees
  <2> QED BY <1>11, <1>e, <2>1, <2>2, CopiesKept, KeptUnraced DEF SessionFails
<1>12. ASSUME NEW t \in Tasks, NEW n \in 0..MaxRetries, Receive(t, n) PROVE Unraced'
  <2>1. Kept
    BY <1>12, <1>a DEF Receive
  <2>2. ASSUME NEW pc \in {"probe", "busy"}, Starts(t, n, pc) PROVE TasksAgree'
    <3>1. \A u \in Tasks : \/ u # t /\ task'[u] = task[u]
                           \/ task'[u].version = row.version /\ task'[u].mapping = row.mapping
      BY <2>2 DEF Starts, TypeOK, TaskOK
    <3>2. row.version <= row.version
      BY <1>0 DEF Rows, Versions
    <3> QED BY <2>1, <3>1, <3>2 DEF TasksAgree, Agrees, Kept
  <2>3. UNCHANGED task \/ Starts(t, n, "probe") \/ Starts(t, n, "busy")
    BY <1>12 DEF Receive, Locked
  <2> QED BY <1>12, <2>1, <2>2, <2>3, CopiesKept, KeptUnraced DEF Receive
<1>13. ASSUME NEW t \in Tasks, SourceBusy(t) PROVE Unraced'
  <2>1. Kept /\ UNCHANGED passed
    BY <1>13, <1>a, <1>b DEF SourceBusy, StaleRequeued, Requests
  <2> QED BY <1>13, <2>1, CopiesKept, KeptUnraced DEF SourceBusy
<1>14. ASSUME NEW t \in Tasks, NEW result \in Results, Store(t, result) PROVE Unraced'
  <2>1. CASE StaleRequeued(t)
    <3>1. Kept /\ UNCHANGED passed
      BY <2>1, <1>a DEF StaleRequeued
    <3> QED BY <1>14, <3>1, CopiesKept, KeptUnraced DEF Store
  <2>2. CASE /\ Current(t)
             /\ row' = Flushed(Loaded, StoreValidation(Loaded, result))
             /\ Stored(row.version, task[t].mapping, result)
    <3>1. task[t].mapping = row.mapping
      BY <1>14, <2>2 DEF Store, Current, TasksAgree, Agrees
    <3>2. Stamped /\ row'.status = result /\ row'.validated = row.version
      BY <2>2, <1>0, StoredRow, FlushedRow DEF Column, Stamped, Loaded
    <3>3. passed \subseteq passed'
      BY <2>2 DEF Stored
    <3>4. RowPassed'
      BY <2>2, <3>1, <3>2 DEF Stored, RowPassed, Validated, Stamped
    <3>5. RunPassed'
      BY <1>14, <3>3 DEF Store, RunPassed
    <3>6. StampedSince'
      BY <3>2 DEF StampedSince, Stamped
    <3> QED BY <1>14, <3>2, <3>4, <3>5, <3>6, CopiesKept DEF Store
  <2> QED BY <1>14, <2>1, <2>2 DEF Store
<1>15. ASSUME NEW t \in Tasks, Fail(t) PROVE Unraced'
  <2>1. Kept /\ UNCHANGED passed
    BY <1>15, <1>a, <1>b DEF Fail, StaleRequeued, Requests
  <2> QED BY <1>15, <2>1, CopiesKept, KeptUnraced DEF Fail
<1>16. ASSUME NEW t \in Tasks, Crash(t) PROVE Unraced'
  <2>1. Kept
    BY <1>16, <1>a DEF Crash
  <2> QED BY <1>16, <2>1, CopiesKept, KeptUnraced DEF Crash
<1>17. ASSUME NEW t \in Tasks, Redeliver(t) PROVE Unraced'
  <2>1. Kept
    BY <1>17, <1>a DEF Redeliver
  <2> QED BY <1>17, <2>1, CopiesKept, KeptUnraced DEF Redeliver
<1>18. CASE RunLoads \/ RunTriesLock
  <2>1. Kept
    BY <1>18, <1>a DEF RunLoads, RunTriesLock
  <2>2. RunPassed'
    <3>1. CASE RunLoads
      BY <3>1 DEF RunLoads, Eligible, RowPassed, RunPassed
    <3>2. CASE RunTriesLock
      BY <3>2 DEF RunTriesLock, RunPassed, NoRun, TypeOK, RunOK
    <3> QED BY <1>18, <3>1, <3>2
  <2> QED BY <1>18, <2>1, <2>2, CopiesKept, KeptUnraced DEF RunLoads, RunTriesLock
<1>19. CASE RunUnlocks
  <2>1. Kept
    BY <1>19, <1>a DEF RunUnlocks
  <2>2. RunPassed'
    BY <1>19 DEF RunUnlocks, RunPassed, NoRun
  <2>3. ~strayed'
    BY <1>19 DEF RunUnlocks, RunPassed
  <2> QED BY <1>19, <2>1, <2>2, <2>3, CopiesKept, KeptUnraced DEF RunUnlocks
<1>20. CASE RunFails
  <2>1. Kept
    BY <1>20, <1>a DEF RunFails
  <2>2. RunPassed'
    BY <1>20 DEF RunFails, RunPassed, NoRun
  <2> QED BY <1>20, <2>1, <2>2, CopiesKept, KeptUnraced DEF RunFails
<1>21. CASE UNCHANGED vars
  BY <1>21, <1>a, CopiesKept, KeptUnraced DEF vars
<1> QED
  BY <1>1, <1>2, <1>3, <1>4, <1>5, <1>6, <1>7, <1>8, <1>9, <1>10, <1>11, <1>12, <1>13,
     <1>14, <1>15, <1>16, <1>17, <1>18, <1>19, <1>20, <1>21 DEF Next, Works

\* A race is not forgotten.
LEMMA RacedStays == TypeOK /\ [Next]_vars /\ raced => raced'
  BY DEF Next, vars, Works, PutLoads, PutSaves, RequestValidation, SetEnabled, CliLoads,
         CliSetLoads, CliSet, CliValidateLoads, CliValidate, CliEnableLoads, CliEnable,
         SessionFails, Receive, SourceBusy, Store, Fail, Crash, Redeliver, RunLoads,
         RunTriesLock, RunUnlocks, RunFails, Races

LEMMA ConsistentHolds == Spec => []Consistent
<1>1. Init => Consistent
  BY TypeInit, UnracedInit DEF Consistent
<1>2. Consistent /\ [Next]_vars => Consistent'
  BY TypeStep, UnracedStep, RacedStays DEF Consistent
<1> QED
  BY <1>1, <1>2, PTL DEF Spec

\* As long as no session wrote over a version it had not loaded, a version counts as
\* validated only if the mapping it has was tested and found VALID under that
\* version: however many edits, requests and duplicate, retried or killed tasks
\* (validate_waf_profile, store_validation) met in between.
THEOREM NoStaleStampHolds == Spec => []NoStaleStamp
<1>1. Consistent => NoStaleStamp
  BY DEF Consistent, Unraced, RowPassed, NoStaleStamp
<1> QED
  BY <1>1, ConsistentHolds, PTL

\* Under the same condition, the pipeline collects on nothing that had not tested
\* VALID, although it reads the profile before it takes the source's lock.
THEOREM CollectsOnlyValidatedHolds == Spec => []CollectsOnlyValidated
<1>1. Consistent => CollectsOnlyValidated
  BY DEF Consistent, Unraced, CollectsOnlyValidated
<1> QED
  BY <1>1, ConsistentHolds, PTL

-----------------------------------------------------------------------------
(* A pending request is answered by somebody.                              *)

\* A message is waiting or a task is at work.
Answerable == (\E n \in 0..MaxRetries : queue[n] > 0) \/ \E t \in Tasks : task[t].pc # "idle"

\* The inductive form of PendingHasTask.
PendingAnswerable == faults = 0 /\ row.requested = "pending" => Answerable

\* What a send leaves in the queue when the broker takes it.
LEMMA SendAnswers ==
  ASSUME NEW q \in [0..MaxRetries -> 0..MaxQueue], NEW n \in 0..MaxRetries, Send(q, n),
         faults \in Nat, faults' = 0
  PROVE  queue'[n] > 0
<1>1. q[n] \in 0..MaxQueue /\ faults + 1 # 0
  OBVIOUS
<1>2. queue' = [q EXCEPT ![n] = IF q[n] < MaxQueue THEN q[n] + 1 ELSE q[n]]
  BY <1>1 DEF Send, Fault
<1>3. queue'[n] = IF q[n] < MaxQueue THEN q[n] + 1 ELSE q[n]
  BY <1>2
<1> QED BY <1>1, <1>3

LEMMA AnswerableInit == Init => PendingAnswerable
<1> SUFFICES ASSUME Init, row.requested = "pending" PROVE \E n \in 0..MaxRetries : queue[n] > 0
  BY DEF PendingAnswerable, Answerable
<1>1. 0 \in 0..MaxRetries /\ queue[0] = 1
  BY DEF Init, Requests
<1> QED BY <1>1

LEMMA AnswerableStep ==
  ASSUME TypeOK, PendingAnswerable, [Next]_vars
  PROVE  PendingAnswerable'
<1> SUFFICES ASSUME faults' = 0, row'.requested = "pending" PROVE Answerable'
  BY DEF PendingAnswerable
<1>0. /\ row \in Rows /\ queue \in [0..MaxRetries -> 0..MaxQueue] /\ faults \in Nat
      /\ 0 \in 0..MaxRetries
  BY DEF TypeOK, TaskOK
<1>a. UNCHANGED <<queue, task, faults>> /\ row.requested = "pending" => Answerable'
  BY DEF PendingAnswerable, Answerable
<1>b. Send(queue, 0) => Answerable'
  BY <1>0, SendAnswers DEF Answerable
<1>c. ~Fault
  BY <1>0 DEF Fault
<1>d. \A loaded, new : row' = Flushed(loaded, new) /\ new.requested = "none"
        => row.requested = "pending"
  BY DEF Flushed, Column
<1>1. CASE PutSaves \/ RequestValidation
  BY <1>1, <1>b DEF PutSaves, RequestValidation
<1>2. CASE CliSet
  <2>1. row.requested = "pending"
    BY <1>2, <1>d DEF CliSet, Upsert
  <2> QED BY <1>2, <1>a, <2>1 DEF CliSet
<1>3. ASSUME NEW result \in Results, CliValidate(result) PROVE Answerable'
  <2>1. row.requested = "pending"
    BY <1>3, <1>d DEF CliValidate, StoreValidation
  <2> QED BY <1>3, <1>a, <2>1 DEF CliValidate
<1>4. ASSUME \/ CliEnable \/ \E on \in BOOLEAN : SetEnabled(on)
      PROVE  Answerable'
  <2>1. row.requested = "pending" /\ UNCHANGED <<queue, task, faults>>
    BY <1>0, <1>4 DEF CliEnable, SetEnabled, Rows
  <2> QED BY <1>a, <2>1
<1>5. CASE \/ \E m \in Mappings : PutLoads(m) \/ CliSetLoads(m)
           \/ CliValidateLoads \/ CliEnableLoads \/ SessionFails
           \/ RunLoads \/ RunTriesLock \/ RunUnlocks \/ RunFails \/ UNCHANGED vars
  <2>1. UNCHANGED <<row, queue, task, faults>>
    BY <1>5 DEF PutLoads, CliSetLoads, CliValidateLoads, CliEnableLoads, CliLoads, SessionFails,
         RunLoads, RunTriesLock, RunUnlocks, RunFails, vars
  <2> QED BY <1>a, <2>1
<1>6. ASSUME NEW t \in Tasks, NEW n \in 0..MaxRetries, Receive(t, n) PROVE Answerable'
  <2>1. row.requested = "pending" /\ queue[n] > 0
    BY <1>6 DEF Receive
  <2>2. ASSUME NEW pc \in {"probe", "busy"}, Starts(t, n, pc) PROVE Answerable'
    <3>1. task'[t].pc = pc
      BY <2>2 DEF Starts, TypeOK, TaskOK
    <3> QED BY <3>1 DEF Answerable
  <2>3. ASSUME n < MaxRetries, Send(Taken(n), n + 1) PROVE Answerable'
    <3>1. Taken(n) \in [0..MaxRetries -> 0..MaxQueue] /\ n + 1 \in 0..MaxRetries
      BY <1>0, <2>1, <2>3 DEF Taken
    <3> QED BY <1>0, <2>3, <3>1, SendAnswers DEF Answerable
  <2> QED BY <1>6, <2>1, <2>2, <2>3 DEF Receive, Locked
<1>7. ASSUME NEW t \in Tasks, Works(t) PROVE Answerable'
  <2>1. CASE StaleRequeued(t)
    BY <2>1, <1>b DEF StaleRequeued
  <2>2. CASE row' = [row EXCEPT !.requested = "none"]
    BY <1>0, <2>2 DEF Rows
  <2>3. ASSUME NEW result \in Results, row' = Flushed(Loaded, StoreValidation(Loaded, result))
        PROVE  FALSE
    BY <2>3 DEF Flushed, StoreValidation, Loaded, Column
  <2> QED BY <1>7, <2>1, <2>2, <2>3 DEF Works, SourceBusy, Store, Fail
<1>8. ASSUME NEW t \in Tasks, Crash(t) \/ Redeliver(t) PROVE FALSE
  BY <1>8, <1>c DEF Crash, Redeliver
<1> QED
  BY <1>1, <1>2, <1>3, <1>4, <1>5, <1>6, <1>7, <1>8 DEF Next

\* Until a message or a worker is lost, a pending validation request has a message
\* or a task that will answer it, however many tasks, retries, requeues and edits
\* meet (request_validation, validate_waf_profile).
THEOREM PendingHasTaskHolds == Spec => []PendingHasTask
<1>1. Init => TypeOK /\ PendingAnswerable
  BY TypeInit, AnswerableInit
<1>2. TypeOK /\ PendingAnswerable /\ [Next]_vars => (TypeOK /\ PendingAnswerable)'
  BY TypeStep, AnswerableStep
<1>3. TypeOK /\ PendingAnswerable => PendingHasTask
  BY DEF TypeOK, TaskOK, PendingAnswerable, Answerable, PendingHasTask, Orphaned, NoTask
<1> QED BY <1>1, <1>2, <1>3, PTL DEF Spec

=============================================================================
