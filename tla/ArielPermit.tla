----------------------------- MODULE ArielPermit -----------------------------
(***************************************************************************)
(* The cross-process budget on Ariel searches                              *)
(* (backend/app/services/ariel_permit.py).                                 *)
(*                                                                         *)
(* A permit is one optional console slot and one global slot, each a       *)
(* PostgreSQL session advisory lock taken with pg_try_advisory_lock on a   *)
(* connection that does nothing else.  The lock belongs to the server      *)
(* session, not to the search: it survives a rollback, it is freed by      *)
(* pg_advisory_unlock_all or by the end of the session, and asking again   *)
(* for a lock the session already holds succeeds.                          *)
(*                                                                         *)
(* A scan of a pool is not atomic: every slot is a round trip, and other   *)
(* searches take and free slots between two of them.                       *)
(***************************************************************************)
EXTENDS Integers, FiniteSets

CONSTANTS
  Searches,       \* callers of permit(), in any process, one search at a time
  Conns,          \* database sessions the pools may open
  Background,     \* the searches run under ariel_background_priority()
  Console,        \* Console[s]: the range index of s's console, or None
  InstanceLimit,  \* ariel_max_concurrent_searches
  GlobalLimit,    \* ariel_global_max_concurrent_searches
  ReservedLive,   \* ariel_permit_reserved_live_slots
  WaitTime,       \* ariel_permit_wait_seconds, in units of
  PollTime,       \* ariel_permit_poll_seconds
  None

\* Field bounds and the validator of core/config.py (reserved below global).
ASSUME LimitsAssumption ==
  /\ InstanceLimit \in Nat \ {0}
  /\ GlobalLimit \in Nat \ {0}
  /\ ReservedLive \in 0..(GlobalLimit - 1)
  /\ WaitTime \in Nat
  /\ PollTime \in Nat \ {0}

ASSUME NamesAssumption ==
  /\ Background \subseteq Searches
  /\ Console \in [Searches -> Nat \cup {None}]
  /\ None \notin Conns
  /\ None \notin Nat

VARIABLES
  pc,             \* where each search is in permit()
  conn,           \* the session it has checked out, or None
  elapsed,        \* its clock since permit() began
  scan,           \* the offset and the step of the pool scan in progress
  instanceSlot,   \* local variables of _acquire
  globalSlot,
  connState,      \* each session: closed, idle in a pool, used, closing, lost
  instanceOwner,  \* the server's lock table: which session holds each slot
  globalOwner

clientVars == <<pc, conn, elapsed, scan, instanceSlot, globalSlot>>
serverVars == <<connState, instanceOwner, globalOwner>>
vars == <<clientVars, serverVars>>

-----------------------------------------------------------------------------

GlobalSlots == 0..(GlobalLimit - 1)

\* _instance_slot_base: a console's contiguous range.  Console[s] stands for
\* the hashed range index, so two consoles may share one range.
InstanceBase(s) == Console[s] * InstanceLimit

InstancePool(s) == InstanceBase(s)..(InstanceBase(s) + InstanceLimit - 1)

InstanceSlots == UNION {InstancePool(s) : s \in {t \in Searches : Console[t] # None}}

\* MUTANT: background work may take the reserved slots too.
FirstGlobalUnreserved(s) == 0

\* Background work starts its scan after the reserved slots.
FirstGlobal(s) == IF s \in Background THEN ReservedLive ELSE 0

GlobalCount(s) == GlobalLimit - FirstGlobal(s)

NoScan == [offset |-> 0, i |-> 0]

\* random.randrange(count): where a scan starts.
NewScans(count) == {[offset |-> o, i |-> 0] : o \in 0..(count - 1)}

\* first_slot + (offset + i) % count
SlotAt(first, sc, count) == first + ((sc.offset + sc.i) % count)

\* MUTANT: the console half of the permit is skipped.
NextPoolGlobalOnly(s, slot) == "global"

\* The scans with which the acquire loop of s starts its next pool.
NextPool(s, slot) == IF Console[s] # None /\ slot = None THEN "instance" ELSE "global"

PoolCount(s, pool) == IF pool = "instance" THEN InstanceLimit ELSE GlobalCount(s)

Acquiring == {"instance", "global", "wait"}

\* What PostgreSQL does to the lock table when a session ends or unlocks all.
Freed(owner, c) == [k \in DOMAIN owner |-> IF owner[k] = c THEN None ELSE owner[k]]

FreeLocks(c) ==
  /\ instanceOwner' = Freed(instanceOwner, c)
  /\ globalOwner' = Freed(globalOwner, c)

-----------------------------------------------------------------------------

Init ==
  /\ pc = [s \in Searches |-> "idle"]
  /\ conn = [s \in Searches |-> None]
  /\ elapsed = [s \in Searches |-> 0]
  /\ scan = [s \in Searches |-> NoScan]
  /\ instanceSlot = [s \in Searches |-> None]
  /\ globalSlot = [s \in Searches |-> None]
  /\ connState = [c \in Conns |-> "closed"]
  /\ instanceOwner = [k \in InstanceSlots |-> None]
  /\ globalOwner = [k \in GlobalSlots |-> None]

\* _acquire begins a scan of the instance pool or of the global pool.
StartScan(s, slot) ==
  LET pool == NextPool(s, slot) IN
    /\ pc' = [pc EXCEPT ![s] = pool]
    /\ \E sc \in NewScans(PoolCount(s, pool)) : scan' = [scan EXCEPT ![s] = sc]

\* permit(): start the clock and check a connection out of the pool.
Connect(s) ==
  /\ pc[s] = "idle"
  /\ \E c \in Conns :
       /\ connState[c] \in {"closed", "idle"}
       /\ conn' = [conn EXCEPT ![s] = c]
       /\ connState' = [connState EXCEPT ![c] = "used"]
  /\ elapsed' = [elapsed EXCEPT ![s] = 0]
  /\ StartScan(s, None)
  /\ UNCHANGED <<instanceSlot, globalSlot, instanceOwner, globalOwner>>

\* MUTANT: the answer of pg_try_advisory_lock is not looked at.
GrantableAlways(owner, slot, s) == TRUE

Grantable(owner, slot, s) == owner[slot] \in {None, conn[s]}

\* One round trip of _try_pool that found the slot held.
Miss(s, count) ==
  IF scan[s].i + 1 < count
  THEN scan' = [scan EXCEPT ![s].i = @ + 1] /\ UNCHANGED pc
  ELSE scan' = [scan EXCEPT ![s] = NoScan] /\ pc' = [pc EXCEPT ![s] = "wait"]

TryInstance(s) ==
  LET slot == SlotAt(InstanceBase(s), scan[s], InstanceLimit) IN
  /\ pc[s] = "instance"
  /\ connState[conn[s]] = "used"
  /\ \/ /\ Grantable(instanceOwner, slot, s)
        /\ instanceOwner' = [instanceOwner EXCEPT ![slot] = conn[s]]
        /\ instanceSlot' = [instanceSlot EXCEPT ![s] = slot]
        /\ StartScan(s, slot)
     \/ /\ ~Grantable(instanceOwner, slot, s)
        /\ Miss(s, InstanceLimit)
        /\ UNCHANGED <<instanceOwner, instanceSlot>>
  /\ UNCHANGED <<conn, elapsed, globalSlot, connState, globalOwner>>

TryGlobal(s) ==
  LET slot == SlotAt(FirstGlobal(s), scan[s], GlobalCount(s)) IN
  /\ pc[s] = "global"
  /\ connState[conn[s]] = "used"
  /\ \/ /\ Grantable(globalOwner, slot, s)
        /\ globalOwner' = [globalOwner EXCEPT ![slot] = conn[s]]
        /\ globalSlot' = [globalSlot EXCEPT ![s] = slot]
        /\ pc' = [pc EXCEPT ![s] = "search"]
        /\ scan' = [scan EXCEPT ![s] = NoScan]
     \/ /\ ~Grantable(globalOwner, slot, s)
        /\ Miss(s, GlobalCount(s))
        /\ UNCHANGED <<globalOwner, globalSlot>>
  /\ UNCHANGED <<conn, elapsed, instanceSlot, connState, instanceOwner>>

\* MUTANT: the clock restarts with every round of the loop.
WaitForgetful(s) ==
  /\ pc[s] = "wait"
  /\ StartScan(s, instanceSlot[s])
  /\ UNCHANGED <<elapsed, conn, instanceSlot, globalSlot, serverVars>>

\* Both pools were scanned without a permit.  The clock has advanced by the
\* round trips, an unknown amount; a poll that would overrun is a refusal, and
\* an instance slot already held is kept across the sleep.
Wait(s) ==
  /\ pc[s] = "wait"
  /\ \E now \in elapsed[s]..WaitTime :
       \/ /\ now + PollTime > WaitTime
          /\ pc' = [pc EXCEPT ![s] = "refused"]
          /\ UNCHANGED <<elapsed, scan>>
       \/ /\ now + PollTime <= WaitTime
          /\ elapsed' = [elapsed EXCEPT ![s] = now + PollTime]
          /\ StartScan(s, instanceSlot[s])
  /\ UNCHANGED <<conn, instanceSlot, globalSlot, serverVars>>

\* The caller's block ends: the search is over, or it was refused (None), or
\* it is cancelled or the session fails while the permit is being acquired.
Leave(s) ==
  /\ pc' = [pc EXCEPT ![s] = "releasing"]
  /\ scan' = [scan EXCEPT ![s] = NoScan]
  /\ UNCHANGED <<conn, elapsed, instanceSlot, globalSlot, serverVars>>

EndSearch(s) == pc[s] = "search" /\ Leave(s)

EndRefused(s) == pc[s] = "refused" /\ Leave(s)

Abort(s) == pc[s] \in Acquiring /\ connState[conn[s]] = "lost" /\ Leave(s)

Cancel(s) == pc[s] \in Acquiring /\ connState[conn[s]] = "used" /\ Leave(s)

Forget(s) ==
  /\ pc' = [pc EXCEPT ![s] = "idle"]
  /\ conn' = [conn EXCEPT ![s] = None]
  /\ elapsed' = [elapsed EXCEPT ![s] = 0]
  /\ scan' = [scan EXCEPT ![s] = NoScan]
  /\ instanceSlot' = [instanceSlot EXCEPT ![s] = None]
  /\ globalSlot' = [globalSlot EXCEPT ![s] = None]

\* The client end of a session is closed; the server frees a live session's
\* locks only when it notices (ServerReap).
CloseSession(c) ==
  /\ connState' = [connState EXCEPT ![c] = IF @ = "lost" THEN "closed" ELSE "closing"]
  /\ UNCHANGED <<instanceOwner, globalOwner>>

\* MUTANT: the connection goes back to its pool with its locks.
UnlockNothing(s) ==
  /\ pc[s] = "releasing"
  /\ connState[conn[s]] = "used"
  /\ connState' = [connState EXCEPT ![conn[s]] = "idle"]
  /\ Forget(s)
  /\ UNCHANGED <<instanceOwner, globalOwner>>

\* _release_all succeeded: the connection goes back to its pool.
Unlock(s) ==
  /\ pc[s] = "releasing"
  /\ connState[conn[s]] = "used"
  /\ FreeLocks(conn[s])
  /\ connState' = [connState EXCEPT ![conn[s]] = "idle"]
  /\ Forget(s)

\* MUTANT: a failed unlock is swallowed and the connection is pooled.
InvalidateSkipped(s) ==
  /\ pc[s] = "releasing"
  /\ connState' = [connState EXCEPT ![conn[s]] = "idle"]
  /\ Forget(s)
  /\ UNCHANGED <<instanceOwner, globalOwner>>

\* _release_all failed or was cancelled: the connection is invalidated.
Invalidate(s) ==
  /\ pc[s] = "releasing"
  /\ CloseSession(conn[s])
  /\ Forget(s)

\* The process dies at any point of the permit's life.
Crash(s) ==
  /\ pc[s] # "idle"
  /\ CloseSession(conn[s])
  /\ Forget(s)

\* PostgreSQL ends a session whose client is gone.
ServerReap(c) ==
  /\ connState[c] = "closing"
  /\ connState' = [connState EXCEPT ![c] = "closed"]
  /\ FreeLocks(c)
  /\ UNCHANGED clientVars

\* PostgreSQL ends a session its client still uses (a restart, a cut network).
ServerDrop(c) ==
  /\ connState[c] = "used"
  /\ connState' = [connState EXCEPT ![c] = "lost"]
  /\ FreeLocks(c)
  /\ UNCHANGED clientVars

\* dispose_engine, the pre-ping, or the overflow limit closes a pooled session.
Discard(c) ==
  /\ connState[c] = "idle"
  /\ connState' = [connState EXCEPT ![c] = "closing"]
  /\ UNCHANGED <<clientVars, instanceOwner, globalOwner>>

-----------------------------------------------------------------------------

\* What a search does by itself once it asked for a permit.
Step(s) ==
  \/ TryInstance(s)
  \/ TryGlobal(s)
  \/ Wait(s)
  \/ EndSearch(s)
  \/ EndRefused(s)
  \/ Abort(s)
  \/ Unlock(s)
  \/ Invalidate(s)

Next ==
  \/ \E s \in Searches : Connect(s) \/ Step(s) \/ Cancel(s) \/ Crash(s)
  \/ \E c \in Conns : ServerReap(c) \/ ServerDrop(c) \/ Discard(c)

\* A live process goes on (try-locks never queue, a search is bounded by its
\* poll limit) and the server reaps the sessions of dead clients.  Asking for
\* a permit, cancellation, crashes and cut sessions are never owed.
Fairness ==
  /\ \A s \in Searches : WF_vars(Step(s))
  /\ \A c \in Conns : WF_vars(ServerReap(c))

Spec == Init /\ [][Next]_vars /\ Fairness

-----------------------------------------------------------------------------

TypeOK ==
  /\ pc \in [Searches -> Acquiring \cup {"idle", "search", "refused", "releasing"}]
  /\ conn \in [Searches -> Conns \cup {None}]
  /\ elapsed \in [Searches -> 0..WaitTime]
  /\ scan \in [Searches -> [offset : Nat, i : Nat]]
  /\ instanceSlot \in [Searches -> InstanceSlots \cup {None}]
  /\ globalSlot \in [Searches -> GlobalSlots \cup {None}]
  /\ connState \in [Conns -> {"closed", "idle", "used", "closing", "lost"}]
  /\ instanceOwner \in [InstanceSlots -> Conns \cup {None}]
  /\ globalOwner \in [GlobalSlots -> Conns \cup {None}]

\* A search the appliance is running, whose session the server still knows.
Running(s) == pc[s] = "search" /\ connState[conn[s]] = "used"

\* The global ceiling: however many processes scan and release at once, no
\* more than ariel_global_max_concurrent_searches permits are out.
GlobalCeiling == Cardinality({s \in Searches : Running(s)}) <= GlobalLimit

\* The console ceiling, for every range of slots: consoles whose ids hash to
\* one range share its ceiling and never exceed it.
ConsoleCeiling ==
  \A r \in {Console[s] : s \in Searches} \ {None} :
    Cardinality({s \in Searches : Running(s) /\ Console[s] = r}) <= InstanceLimit

\* Live-first: background work leaves ariel_permit_reserved_live_slots of the
\* global pool free, so background load alone never exhausts it.
LiveReserve ==
  Cardinality({s \in Background : Running(s)}) <= GlobalLimit - ReservedLive

\* No leaked permit: a slot is only ever held by a session some search is
\* using, or by one whose client has gone and that the server will end; in
\* particular no session goes back to a pool with a lock on it.
NoLeakedPermit ==
  \A c \in Conns :
    (c \in {instanceOwner[k] : k \in InstanceSlots} \cup {globalOwner[k] : k \in GlobalSlots})
      => \/ connState[c] = "closing"
         \/ connState[c] = "used" /\ \E s \in Searches : conn[s] = c

\* Two searches never share a session: unlock_all would free the other's slots.
SessionsExclusive ==
  \A s, t \in Searches : s # t /\ conn[s] # None => conn[s] # conn[t]

\* Bounded wait: a request ends in a permit, a refusal or an error; it never
\* polls for ever, whatever the others do.
BoundedWait == \A s \in Searches : []<>(pc[s] \notin Acquiring)

\* Every slot taken is given back, through crashes and cut sessions alike.
SlotsReturn == \A k \in GlobalSlots : []<>(globalOwner[k] = None)

=============================================================================
