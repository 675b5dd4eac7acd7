-------------------------- MODULE ArielPermitProofs --------------------------
(***************************************************************************)
(* The safety of the Ariel permit for every number of searches, sessions,  *)
(* consoles and slots, and every setting the validator accepts.            *)
(***************************************************************************)
EXTENDS ArielPermit, FiniteSetTheorems, TLAPS

-----------------------------------------------------------------------------
(* The inductive invariant.                                                *)

\* A search owns a session exactly while it is inside permit(), no other
\* search owns that session, and the session is in use or cut.
SessionInv ==
  \A s \in Searches :
    /\ pc[s] = "idle" <=> conn[s] = None
    /\ pc[s] # "idle" => connState[conn[s]] \in {"used", "lost"}
    /\ \A t \in Searches : s # t /\ conn[s] # None => conn[s] # conn[t]

\* What _acquire has in its local variables at each point.
LocalInv ==
  \A s \in Searches :
    /\ pc[s] = "idle" => instanceSlot[s] = None /\ globalSlot[s] = None
    /\ pc[s] = "instance" => Console[s] # None /\ instanceSlot[s] = None
    /\ pc[s] \in {"global", "search"} /\ Console[s] # None => instanceSlot[s] # None
    /\ pc[s] = "search" => globalSlot[s] # None
    /\ instanceSlot[s] # None => Console[s] # None /\ instanceSlot[s] \in InstancePool(s)
    /\ globalSlot[s] # None => globalSlot[s] >= FirstGlobal(s)

\* The slots a search believes it holds are its session's in the lock table,
\* as long as the server has not cut the session.
HeldInv ==
  \A s \in Searches :
    pc[s] # "idle" /\ connState[conn[s]] = "used" =>
      /\ instanceSlot[s] # None => instanceOwner[instanceSlot[s]] = conn[s]
      /\ globalSlot[s] # None => globalOwner[globalSlot[s]] = conn[s]

\* A session in use or cut is some search's.
UsedInv ==
  \A c \in Conns : connState[c] \in {"used", "lost"} => \E s \in Searches : conn[s] = c

\* A lock is held only by a session in use or being closed.
LockInv ==
  /\ \A k \in InstanceSlots :
       instanceOwner[k] # None => connState[instanceOwner[k]] \in {"used", "closing"}
  /\ \A k \in GlobalSlots :
       globalOwner[k] # None => connState[globalOwner[k]] \in {"used", "closing"}

IInv == TypeOK /\ SessionInv /\ UsedInv /\ LocalInv /\ HeldInv /\ LockInv

-----------------------------------------------------------------------------
(* The operators a scan is made of.                                        *)

\* A console's range of slots lies in the instance pool.
LEMMA InstancePoolInSlots ==
  ASSUME NEW s \in Searches, Console[s] # None
  PROVE  /\ InstanceBase(s) \in Nat
         /\ InstancePool(s) \subseteq InstanceSlots
<1>1. Console[s] \in Nat
  BY NamesAssumption
<1>2. InstanceBase(s) \in Nat
  BY <1>1, LimitsAssumption DEF InstanceBase
<1>3. InstancePool(s) \subseteq InstanceSlots
  BY Zenon DEF InstanceSlots
<1> QED BY <1>2, <1>3

\* A scan only ever tries slots of the pool it was given.
LEMMA SlotInPool ==
  ASSUME NEW first \in Nat, NEW count \in Nat \ {0}, NEW sc \in [offset : Nat, i : Nat]
  PROVE  SlotAt(first, sc, count) \in first..(first + count - 1)
<1>1. sc.offset + sc.i \in Nat
  OBVIOUS
<1>2. \A n \in Nat : n % count \in 0..(count - 1)
  OBVIOUS
<1>3. (sc.offset + sc.i) % count \in 0..(count - 1)
  BY <1>1, <1>2
<1> QED BY <1>3 DEF SlotAt

\* A background scan starts after the reserved slots and is never empty.
LEMMA GlobalPool ==
  ASSUME NEW s \in Searches
  PROVE  /\ FirstGlobal(s) \in Nat
         /\ GlobalCount(s) \in Nat \ {0}
         /\ FirstGlobal(s) + GlobalCount(s) = GlobalLimit
  BY LimitsAssumption DEF FirstGlobal, GlobalCount

LEMMA InstanceTry ==
  ASSUME NEW s \in Searches, TypeOK, Console[s] # None
  PROVE  LET slot == SlotAt(InstanceBase(s), scan[s], InstanceLimit)
         IN  slot \in InstancePool(s) /\ slot \in InstanceSlots
<1>1. scan[s] \in [offset : Nat, i : Nat]
  BY DEF TypeOK
<1>2. InstanceLimit \in Nat \ {0}
  BY LimitsAssumption
<1> QED BY <1>1, <1>2, InstancePoolInSlots, SlotInPool DEF InstancePool

LEMMA GlobalTry ==
  ASSUME NEW s \in Searches, TypeOK
  PROVE  LET slot == SlotAt(FirstGlobal(s), scan[s], GlobalCount(s))
         IN  slot \in GlobalSlots /\ slot >= FirstGlobal(s)
<1>1. scan[s] \in [offset : Nat, i : Nat]
  BY DEF TypeOK
<1>2. SlotAt(FirstGlobal(s), scan[s], GlobalCount(s))
        \in FirstGlobal(s)..(FirstGlobal(s) + GlobalCount(s) - 1)
  BY <1>1, GlobalPool, SlotInPool
<1> QED BY <1>2, GlobalPool, LimitsAssumption DEF GlobalSlots

-----------------------------------------------------------------------------
(* The invariant holds initially and is preserved by every step.           *)

LEMMA InitInv == Init => IInv
<1> SUFFICES ASSUME Init PROVE IInv
  OBVIOUS
<1> USE NamesAssumption, LimitsAssumption
<1>1. TypeOK
  BY DEF Init, TypeOK, Acquiring, NoScan
<1>2. SessionInv /\ UsedInv /\ LocalInv /\ HeldInv /\ LockInv
  BY DEF Init, SessionInv, UsedInv, LocalInv, HeldInv, LockInv
<1> QED BY <1>1, <1>2 DEF IInv

\* A search inside permit() has a session, and it is nobody else's.
LEMMA OwnSession ==
  ASSUME IInv, NEW s \in Searches, pc[s] # "idle"
  PROVE  /\ conn[s] \in Conns
         /\ conn[s] # None
         /\ connState[conn[s]] \in {"used", "lost"}
         /\ \A t \in Searches \ {s} : conn[t] # conn[s]
  BY NamesAssumption DEF IInv, TypeOK, SessionInv

LEMMA StartScanType ==
  ASSUME TypeOK, NEW s \in Searches, NEW slot, StartScan(s, slot)
  PROVE  /\ scan' \in [Searches -> [offset : Nat, i : Nat]]
         /\ pc' = [pc EXCEPT ![s] = NextPool(s, slot)]
         /\ NextPool(s, slot) \in {"instance", "global"}
         /\ NextPool(s, slot) = "instance" <=> (Console[s] # None /\ slot = None)
<1>1. PICK sc \in NewScans(PoolCount(s, NextPool(s, slot))) : scan' = [scan EXCEPT ![s] = sc]
  BY DEF StartScan
<1>2. PoolCount(s, NextPool(s, slot)) \in Nat
  BY GlobalPool, LimitsAssumption DEF PoolCount
<1>3. sc \in [offset : Nat, i : Nat]
  BY <1>2 DEF NewScans
<1>4. scan' \in [Searches -> [offset : Nat, i : Nat]]
  BY <1>1, <1>3 DEF TypeOK
<1> QED BY <1>4 DEF StartScan, NextPool

LEMMA ConnectInv ==
  ASSUME IInv, NEW s \in Searches, Connect(s)
  PROVE  IInv'
<1>1. PICK c \in Conns :
        /\ connState[c] \in {"closed", "idle"}
        /\ conn' = [conn EXCEPT ![s] = c]
        /\ connState' = [connState EXCEPT ![c] = "used"]
  BY DEF Connect
<1>2. /\ pc[s] = "idle"
      /\ elapsed' = [elapsed EXCEPT ![s] = 0]
      /\ UNCHANGED <<instanceSlot, globalSlot, instanceOwner, globalOwner>>
      /\ StartScan(s, None)
  BY DEF Connect
<1>3. /\ scan' \in [Searches -> [offset : Nat, i : Nat]]
      /\ pc' = [pc EXCEPT ![s] = NextPool(s, None)]
      /\ NextPool(s, None) \in {"instance", "global"}
      /\ NextPool(s, None) = "instance" <=> Console[s] # None
  BY <1>2, StartScanType DEF IInv
<1> DEFINE pool == NextPool(s, None)
<1> HIDE DEF pool
<1>4. \A t \in Searches : conn[t] # c
  BY <1>1, NamesAssumption DEF IInv, SessionInv, TypeOK
<1>5. TypeOK'
  BY <1>1, <1>2, <1>3, LimitsAssumption DEF IInv, TypeOK, Acquiring
<1>6. SessionInv'
  BY <1>1, <1>2, <1>3, <1>4, NamesAssumption DEF IInv, TypeOK, SessionInv
<1>7. LocalInv'
  BY <1>2, <1>3 DEF IInv, TypeOK, LocalInv, InstancePool, InstanceBase
<1>8. HeldInv'
  BY <1>1, <1>2, <1>3, <1>4 DEF IInv, TypeOK, SessionInv, LocalInv, HeldInv
<1>9. LockInv'
  BY <1>1, <1>2, NamesAssumption DEF IInv, TypeOK, LockInv
<1>10. UsedInv'
  BY <1>1, <1>2, NamesAssumption DEF IInv, TypeOK, SessionInv, UsedInv
<1> QED BY <1>5, <1>6, <1>7, <1>8, <1>9, <1>10 DEF IInv

\* A missed round trip leaves the lock table and the local variables alone.
LEMMA MissEffect ==
  ASSUME TypeOK, NEW s \in Searches, NEW count, Miss(s, count)
  PROVE  /\ scan' \in [Searches -> [offset : Nat, i : Nat]]
         /\ pc' = pc \/ pc' = [pc EXCEPT ![s] = "wait"]
  BY DEF Miss, TypeOK, NoScan

LEMMA TryInstanceInv ==
  ASSUME IInv, NEW s \in Searches, TryInstance(s)
  PROVE  IInv'
<1> DEFINE slot == SlotAt(InstanceBase(s), scan[s], InstanceLimit)
<1>1. /\ pc[s] = "instance"
      /\ connState[conn[s]] = "used"
      /\ UNCHANGED <<conn, elapsed, globalSlot, connState, globalOwner>>
  BY DEF TryInstance
<1>2. Console[s] # None /\ instanceSlot[s] = None
  BY <1>1 DEF IInv, LocalInv
<1>3. slot \in InstancePool(s) /\ slot \in InstanceSlots /\ slot # None
  BY <1>2, InstanceTry, InstancePoolInSlots, NamesAssumption DEF IInv, InstancePool
<1>4. /\ conn[s] \in Conns
      /\ conn[s] # None
      /\ \A t \in Searches \ {s} : conn[t] # conn[s]
  BY <1>1, OwnSession
<1> HIDE DEF slot
<1>5. CASE /\ Grantable(instanceOwner, slot, s)
           /\ instanceOwner' = [instanceOwner EXCEPT ![slot] = conn[s]]
           /\ instanceSlot' = [instanceSlot EXCEPT ![s] = slot]
           /\ StartScan(s, slot)
  <2>1. /\ scan' \in [Searches -> [offset : Nat, i : Nat]]
        /\ pc' = [pc EXCEPT ![s] = "global"]
    BY <1>3, <1>5, StartScanType DEF IInv
  <2>2. TypeOK'
    BY <1>1, <1>3, <1>4, <1>5, <2>1 DEF IInv, TypeOK, Acquiring
  <2>3. SessionInv' /\ UsedInv'
    BY <1>1, <2>1 DEF IInv, TypeOK, SessionInv, UsedInv
  <2>4. LocalInv'
    BY <1>1, <1>2, <1>3, <1>5, <2>1 DEF IInv, TypeOK, LocalInv, InstancePool, InstanceBase
  <2>5. \A t \in Searches \ {s} :
          instanceSlot[t] = slot /\ pc[t] # "idle" => connState[conn[t]] # "used"
    BY <1>3, <1>4, <1>5 DEF IInv, TypeOK, HeldInv, Grantable, SessionInv
  <2>6. HeldInv'
    BY <1>1, <1>3, <1>4, <1>5, <2>1, <2>5 DEF IInv, TypeOK, HeldInv, SessionInv
  <2>7. LockInv'
    BY <1>1, <1>3, <1>4, <1>5 DEF IInv, TypeOK, LockInv
  <2> QED BY <2>2, <2>3, <2>4, <2>6, <2>7 DEF IInv
<1>6. CASE /\ Miss(s, InstanceLimit)
           /\ UNCHANGED <<instanceOwner, instanceSlot>>
  <2>1. /\ scan' \in [Searches -> [offset : Nat, i : Nat]]
        /\ pc' = pc \/ pc' = [pc EXCEPT ![s] = "wait"]
    BY <1>6, MissEffect DEF IInv
  <2>2. TypeOK'
    BY <1>1, <1>6, <2>1 DEF IInv, TypeOK, Acquiring
  <2>3. SessionInv' /\ UsedInv'
    BY <1>1, <2>1 DEF IInv, TypeOK, SessionInv, UsedInv
  <2>4. LocalInv'
    BY <1>1, <1>6, <2>1 DEF IInv, TypeOK, LocalInv, InstancePool, InstanceBase
  <2>5. HeldInv' /\ LockInv'
    BY <1>1, <1>6, <2>1 DEF IInv, TypeOK, HeldInv, LockInv, SessionInv
  <2> QED BY <2>2, <2>3, <2>4, <2>5 DEF IInv
<1> QED BY <1>5, <1>6 DEF TryInstance, slot

LEMMA TryGlobalInv ==
  ASSUME IInv, NEW s \in Searches, TryGlobal(s)
  PROVE  IInv'
<1> DEFINE slot == SlotAt(FirstGlobal(s), scan[s], GlobalCount(s))
<1>1. /\ pc[s] = "global"
      /\ connState[conn[s]] = "used"
      /\ UNCHANGED <<conn, elapsed, instanceSlot, connState, instanceOwner>>
  BY DEF TryGlobal
<1>2. slot \in GlobalSlots /\ slot >= FirstGlobal(s) /\ slot # None
  BY GlobalTry, NamesAssumption DEF IInv, GlobalSlots
<1>3. /\ conn[s] \in Conns
      /\ conn[s] # None
      /\ \A t \in Searches \ {s} : conn[t] # conn[s]
  BY <1>1, OwnSession
<1> HIDE DEF slot
<1>4. CASE /\ Grantable(globalOwner, slot, s)
           /\ globalOwner' = [globalOwner EXCEPT ![slot] = conn[s]]
           /\ globalSlot' = [globalSlot EXCEPT ![s] = slot]
           /\ pc' = [pc EXCEPT ![s] = "search"]
           /\ scan' = [scan EXCEPT ![s] = NoScan]
  <2>1. TypeOK'
    BY <1>1, <1>2, <1>3, <1>4 DEF IInv, TypeOK, Acquiring, NoScan
  <2>2. SessionInv' /\ UsedInv'
    BY <1>1, <1>4 DEF IInv, TypeOK, SessionInv, UsedInv
  <2>3. LocalInv'
    BY <1>1, <1>2, <1>4 DEF IInv, TypeOK, LocalInv, InstancePool, InstanceBase, FirstGlobal
  <2>4. \A t \in Searches \ {s} :
          globalSlot[t] = slot /\ pc[t] # "idle" => connState[conn[t]] # "used"
    BY <1>2, <1>3, <1>4 DEF IInv, TypeOK, HeldInv, Grantable, SessionInv
  <2>5. HeldInv'
    BY <1>1, <1>2, <1>3, <1>4, <2>4 DEF IInv, TypeOK, HeldInv, SessionInv
  <2>6. LockInv'
    BY <1>1, <1>2, <1>3, <1>4 DEF IInv, TypeOK, LockInv
  <2> QED BY <2>1, <2>2, <2>3, <2>5, <2>6 DEF IInv
<1>5. CASE /\ Miss(s, GlobalCount(s))
           /\ UNCHANGED <<globalOwner, globalSlot>>
  <2>1. /\ scan' \in [Searches -> [offset : Nat, i : Nat]]
        /\ pc' = pc \/ pc' = [pc EXCEPT ![s] = "wait"]
    BY <1>5, MissEffect DEF IInv
  <2>2. TypeOK'
    BY <1>1, <1>5, <2>1 DEF IInv, TypeOK, Acquiring
  <2>3. SessionInv' /\ UsedInv'
    BY <1>1, <2>1 DEF IInv, TypeOK, SessionInv, UsedInv
  <2>4. LocalInv'
    BY <1>1, <1>5, <2>1 DEF IInv, TypeOK, LocalInv, InstancePool, InstanceBase
  <2>5. HeldInv' /\ LockInv'
    BY <1>1, <1>5, <2>1 DEF IInv, TypeOK, HeldInv, LockInv, SessionInv
  <2> QED BY <2>2, <2>3, <2>4, <2>5 DEF IInv
<1> QED BY <1>4, <1>5 DEF TryGlobal, slot

LEMMA WaitInv ==
  ASSUME IInv, NEW s \in Searches, Wait(s)
  PROVE  IInv'
<1>1. /\ pc[s] = "wait"
      /\ UNCHANGED <<conn, instanceSlot, globalSlot, connState, instanceOwner, globalOwner>>
  BY DEF Wait, serverVars
<1>2. PICK now \in elapsed[s]..WaitTime :
        \/ /\ pc' = [pc EXCEPT ![s] = "refused"]
           /\ UNCHANGED <<elapsed, scan>>
        \/ /\ now + PollTime <= WaitTime
           /\ elapsed' = [elapsed EXCEPT ![s] = now + PollTime]
           /\ StartScan(s, instanceSlot[s])
  BY DEF Wait
<1>3. \/ pc' = [pc EXCEPT ![s] = "refused"]
      \/ pc' = [pc EXCEPT ![s] = "instance"] /\ Console[s] # None /\ instanceSlot[s] = None
      \/ pc' = [pc EXCEPT ![s] = "global"] /\ ~(Console[s] # None /\ instanceSlot[s] = None)
  BY <1>2, StartScanType DEF IInv
<1>4. scan' \in [Searches -> [offset : Nat, i : Nat]]
  BY <1>2, StartScanType DEF IInv, TypeOK
<1>5. elapsed[s] \in 0..WaitTime
  BY DEF IInv, TypeOK
<1>6. elapsed' \in [Searches -> 0..WaitTime]
  BY <1>2, <1>5, LimitsAssumption DEF IInv, TypeOK
<1>7. TypeOK'
  BY <1>1, <1>3, <1>4, <1>6 DEF IInv, TypeOK, Acquiring
<1>8. SessionInv' /\ UsedInv'
  BY <1>1, <1>3 DEF IInv, TypeOK, SessionInv, UsedInv
<1>9. LocalInv'
  BY <1>1, <1>3 DEF IInv, TypeOK, LocalInv, InstancePool, InstanceBase
<1>10. HeldInv' /\ LockInv'
  BY <1>1, <1>3 DEF IInv, TypeOK, HeldInv, LockInv, SessionInv
<1> QED BY <1>7, <1>8, <1>9, <1>10 DEF IInv

LEMMA LeaveInv ==
  ASSUME IInv, NEW s \in Searches, pc[s] # "idle", Leave(s)
  PROVE  IInv'
<1>1. /\ pc' = [pc EXCEPT ![s] = "releasing"]
      /\ scan' = [scan EXCEPT ![s] = NoScan]
      /\ UNCHANGED <<conn, elapsed, instanceSlot, globalSlot,
                     connState, instanceOwner, globalOwner>>
  BY DEF Leave, serverVars
<1>2. TypeOK'
  BY <1>1 DEF IInv, TypeOK, NoScan
<1>3. SessionInv' /\ UsedInv'
  BY <1>1 DEF IInv, TypeOK, SessionInv, UsedInv
<1>4. LocalInv'
  BY <1>1 DEF IInv, TypeOK, LocalInv, InstancePool, InstanceBase
<1>5. HeldInv' /\ LockInv'
  BY <1>1 DEF IInv, TypeOK, HeldInv, LockInv, SessionInv
<1> QED BY <1>2, <1>3, <1>4, <1>5 DEF IInv

\* Freeing a session's locks touches nobody else's.
LEMMA FreedEffect ==
  ASSUME TypeOK, NEW c \in Conns, FreeLocks(c)
  PROVE  /\ instanceOwner' \in [InstanceSlots -> Conns \cup {None}]
         /\ globalOwner' \in [GlobalSlots -> Conns \cup {None}]
         /\ \A k \in InstanceSlots :
              /\ instanceOwner'[k] # c
              /\ instanceOwner'[k] # None => instanceOwner'[k] = instanceOwner[k]
              /\ instanceOwner[k] # c => instanceOwner'[k] = instanceOwner[k]
         /\ \A k \in GlobalSlots :
              /\ globalOwner'[k] # c
              /\ globalOwner'[k] # None => globalOwner'[k] = globalOwner[k]
              /\ globalOwner[k] # c => globalOwner'[k] = globalOwner[k]
  BY NamesAssumption DEF TypeOK, FreeLocks, Freed

LEMMA ForgetType ==
  ASSUME TypeOK, NEW s \in Searches, Forget(s)
  PROVE  /\ pc' \in [Searches -> Acquiring \cup {"idle", "search", "refused", "releasing"}]
         /\ conn' \in [Searches -> Conns \cup {None}]
         /\ elapsed' \in [Searches -> 0..WaitTime]
         /\ scan' \in [Searches -> [offset : Nat, i : Nat]]
         /\ instanceSlot' \in [Searches -> InstanceSlots \cup {None}]
         /\ globalSlot' \in [Searches -> GlobalSlots \cup {None}]
  BY LimitsAssumption DEF TypeOK, Forget, NoScan

LEMMA UnlockInv ==
  ASSUME IInv, NEW s \in Searches, Unlock(s)
  PROVE  IInv'
<1>1. /\ pc[s] = "releasing"
      /\ connState' = [connState EXCEPT ![conn[s]] = "idle"]
      /\ FreeLocks(conn[s])
      /\ Forget(s)
  BY DEF Unlock
<1>2. /\ conn[s] \in Conns
      /\ conn[s] # None
      /\ \A t \in Searches \ {s} : conn[t] # conn[s]
  BY <1>1, OwnSession
<1>3. TypeOK'
  BY <1>1, <1>2, FreedEffect, ForgetType DEF IInv, TypeOK
<1>4. SessionInv' /\ UsedInv'
  BY <1>1, <1>2, NamesAssumption DEF IInv, TypeOK, SessionInv, UsedInv, Forget
<1>5. LocalInv'
  BY <1>1 DEF IInv, TypeOK, LocalInv, Forget, InstancePool, InstanceBase
<1>6. HeldInv'
  BY <1>1, <1>2, FreedEffect DEF IInv, TypeOK, HeldInv, SessionInv, Forget
<1>7. LockInv'
  BY <1>1, <1>2, FreedEffect, NamesAssumption DEF IInv, TypeOK, LockInv
<1> QED BY <1>3, <1>4, <1>5, <1>6, <1>7 DEF IInv

\* Invalidation and a crash alike: the session closes with its locks on it.
LEMMA CloseInv ==
  ASSUME IInv, NEW s \in Searches, pc[s] # "idle", CloseSession(conn[s]), Forget(s)
  PROVE  IInv'
<1>1. /\ connState' = [connState EXCEPT ![conn[s]] = IF @ = "lost" THEN "closed" ELSE "closing"]
      /\ UNCHANGED <<instanceOwner, globalOwner>>
  BY DEF CloseSession
<1>2. /\ conn[s] \in Conns
      /\ conn[s] # None
      /\ connState[conn[s]] \in {"used", "lost"}
      /\ \A t \in Searches \ {s} : conn[t] # conn[s]
  BY OwnSession
<1>3. TypeOK'
  BY <1>1, <1>2, ForgetType DEF IInv, TypeOK
<1>4. SessionInv' /\ UsedInv'
  BY <1>1, <1>2, NamesAssumption DEF IInv, TypeOK, SessionInv, UsedInv, Forget
<1>5. LocalInv'
  BY DEF IInv, TypeOK, LocalInv, Forget, InstancePool, InstanceBase
<1>6. HeldInv'
  BY <1>1, <1>2 DEF IInv, TypeOK, HeldInv, SessionInv, Forget
<1>7. LockInv'
  BY <1>1, <1>2, NamesAssumption DEF IInv, TypeOK, LockInv
<1> QED BY <1>3, <1>4, <1>5, <1>6, <1>7 DEF IInv

LEMMA ServerInv ==
  ASSUME IInv, NEW c \in Conns, ServerReap(c) \/ ServerDrop(c) \/ Discard(c)
  PROVE  IInv'
<1>1. UNCHANGED <<pc, conn, elapsed, scan, instanceSlot, globalSlot>>
  BY DEF ServerReap, ServerDrop, Discard, clientVars
<1>2. CASE ServerReap(c) \/ ServerDrop(c)
  <2>1. /\ FreeLocks(c)
        /\ \/ connState[c] = "closing" /\ connState' = [connState EXCEPT ![c] = "closed"]
           \/ connState[c] = "used" /\ connState' = [connState EXCEPT ![c] = "lost"]
    BY <1>2 DEF ServerReap, ServerDrop
  <2>2. TypeOK'
    BY <1>1, <2>1, FreedEffect DEF IInv, TypeOK
  <2>3. SessionInv' /\ UsedInv'
    BY <1>1, <2>1 DEF IInv, TypeOK, SessionInv, UsedInv
  <2>4. LocalInv'
    BY <1>1 DEF IInv, LocalInv, InstancePool, InstanceBase
  <2>5. HeldInv'
    BY <1>1, <2>1, FreedEffect DEF IInv, TypeOK, HeldInv, SessionInv
  <2>6. LockInv'
    BY <1>1, <2>1, FreedEffect, NamesAssumption DEF IInv, TypeOK, LockInv
  <2> QED BY <2>2, <2>3, <2>4, <2>5, <2>6 DEF IInv
<1>3. CASE Discard(c)
  <2>1. /\ connState[c] = "idle"
        /\ connState' = [connState EXCEPT ![c] = "closing"]
        /\ UNCHANGED <<instanceOwner, globalOwner>>
    BY <1>3 DEF Discard
  <2>2. TypeOK'
    BY <1>1, <2>1 DEF IInv, TypeOK
  <2>3. SessionInv' /\ UsedInv'
    BY <1>1, <2>1 DEF IInv, TypeOK, SessionInv, UsedInv
  <2>4. LocalInv'
    BY <1>1 DEF IInv, LocalInv, InstancePool, InstanceBase
  <2>5. HeldInv' /\ LockInv'
    BY <1>1, <2>1, NamesAssumption DEF IInv, TypeOK, HeldInv, LockInv, SessionInv
  <2> QED BY <2>2, <2>3, <2>4, <2>5 DEF IInv
<1> QED BY <1>2, <1>3

LEMMA NextInv == IInv /\ [Next]_vars => IInv'
<1> SUFFICES ASSUME IInv, [Next]_vars PROVE IInv'
  OBVIOUS
<1>1. CASE UNCHANGED vars
  BY <1>1 DEF vars, clientVars, serverVars, IInv, TypeOK, SessionInv, UsedInv, LocalInv,
     HeldInv, LockInv, InstancePool, InstanceBase
<1>2. CASE \E s \in Searches : Connect(s) \/ Step(s) \/ Cancel(s) \/ Crash(s)
  <2>1. PICK s \in Searches : Connect(s) \/ Step(s) \/ Cancel(s) \/ Crash(s)
    BY <1>2
  <2>2. CASE Connect(s)
    BY <2>2, ConnectInv
  <2>3. CASE TryInstance(s)
    BY <2>3, TryInstanceInv
  <2>4. CASE TryGlobal(s)
    BY <2>4, TryGlobalInv
  <2>5. CASE Wait(s)
    BY <2>5, WaitInv
  <2>6. CASE EndSearch(s) \/ EndRefused(s) \/ Abort(s) \/ Cancel(s)
    BY <2>6, LeaveInv DEF EndSearch, EndRefused, Abort, Cancel, Acquiring
  <2>7. CASE Unlock(s)
    BY <2>7, UnlockInv
  <2>8. CASE Invalidate(s) \/ Crash(s)
    BY <2>8, CloseInv DEF Invalidate, Crash
  <2> QED BY <2>1, <2>2, <2>3, <2>4, <2>5, <2>6, <2>7, <2>8 DEF Step
<1>3. CASE \E c \in Conns : ServerReap(c) \/ ServerDrop(c) \/ Discard(c)
  BY <1>3, ServerInv
<1> QED BY <1>1, <1>2, <1>3 DEF Next

THEOREM Invariance == Spec => []IInv
  BY InitInv, NextInv, PTL DEF Spec

-----------------------------------------------------------------------------
(* What the invariant gives.                                               *)

\* Distinct running searches hold distinct global slots.
LEMMA GlobalSlotsDistinct ==
  ASSUME IInv, NEW s \in Searches, NEW t \in Searches,
         Running(s), Running(t), globalSlot[s] = globalSlot[t]
  PROVE  s = t
  BY DEF IInv, TypeOK, SessionInv, LocalInv, HeldInv, Running

LEMMA InstanceSlotsDistinct ==
  ASSUME IInv, NEW s \in Searches, NEW t \in Searches,
         Running(s), Running(t), Console[s] # None, Console[t] # None,
         instanceSlot[s] = instanceSlot[t]
  PROVE  s = t
  BY DEF IInv, TypeOK, SessionInv, LocalInv, HeldInv, Running

\* The permits held by any set of searches fit in the slots they may take.
LEMMA CountBySlots ==
  ASSUME IInv, NEW S \in SUBSET Searches, NEW low \in Nat, low < GlobalLimit,
         \A s \in S : Running(s) /\ FirstGlobal(s) >= low
  PROVE  Cardinality(S) <= GlobalLimit - low
<1> DEFINE T == low..(GlobalLimit - 1)
           f == [s \in S |-> globalSlot[s]]
<1>1. \A s \in S : f[s] \in T
  BY GlobalPool, LimitsAssumption
     DEF IInv, TypeOK, LocalInv, Running, GlobalSlots, FirstGlobal
<1>2. \A s, t \in S : f[s] = f[t] => s = t
  BY GlobalSlotsDistinct
<1>3. f \in Injection(S, T)
  BY <1>1, <1>2 DEF Injection, IsInjective
<1>4. IsFiniteSet(T) /\ Cardinality(T) = GlobalLimit - low
  BY FS_Interval, LimitsAssumption
<1> HIDE DEF f, T
<1> QED BY <1>3, <1>4, FS_Injection

\* No interleaving of scans, releases, crashes and cut sessions lets more than
\* ariel_global_max_concurrent_searches permits out at once.
THEOREM GlobalCeilingHolds == Spec => []GlobalCeiling
<1>1. IInv => GlobalCeiling
  <2> SUFFICES ASSUME IInv PROVE GlobalCeiling
    OBVIOUS
  <2>1. 0 < GlobalLimit /\ \A s \in Searches : FirstGlobal(s) >= 0
    BY GlobalPool, LimitsAssumption
  <2>2. Cardinality({s \in Searches : Running(s)}) <= GlobalLimit - 0
    BY <2>1, CountBySlots
  <2> QED BY <2>2, LimitsAssumption DEF GlobalCeiling
<1> QED BY <1>1, Invariance, PTL

\* Background searches leave the reserved slots to live collection.
THEOREM LiveReserveHolds == Spec => []LiveReserve
<1>1. IInv => LiveReserve
  <2> SUFFICES ASSUME IInv PROVE LiveReserve
    OBVIOUS
  <2>1. /\ ReservedLive \in Nat /\ ReservedLive < GlobalLimit
        /\ \A s \in Background : s \in Searches /\ FirstGlobal(s) >= ReservedLive
    BY LimitsAssumption, NamesAssumption DEF FirstGlobal
  <2>2. Cardinality({s \in Background : Running(s)}) <= GlobalLimit - ReservedLive
    BY <2>1, CountBySlots
  <2> QED BY <2>2 DEF LiveReserve
<1> QED BY <1>1, Invariance, PTL

\* Consoles that share a range of slots share its ceiling: their searches
\* together never exceed ariel_max_concurrent_searches.
THEOREM ConsoleCeilingHolds == Spec => []ConsoleCeiling
<1>1. IInv => ConsoleCeiling
  <2> SUFFICES ASSUME IInv, NEW r \in {Console[s] : s \in Searches} \ {None}
               PROVE  Cardinality({s \in Searches : Running(s) /\ Console[s] = r})
                        <= InstanceLimit
    BY DEF ConsoleCeiling
  <2> DEFINE S == {s \in Searches : Running(s) /\ Console[s] = r}
             base == r * InstanceLimit
             T == base..(base + InstanceLimit - 1)
             f == [s \in S |-> instanceSlot[s]]
  <2>1. r \in Nat /\ r # None
    BY NamesAssumption
  <2>2. base \in Nat
    BY <2>1, LimitsAssumption
  <2>3. \A s \in S : instanceSlot[s] # None /\ InstancePool(s) = T
    BY <2>1 DEF IInv, LocalInv, Running, InstancePool, InstanceBase
  <2>4. \A s \in S : f[s] \in T
    BY <2>3 DEF IInv, LocalInv
  <2>5. \A s, t \in S : f[s] = f[t] => s = t
    BY <2>1, InstanceSlotsDistinct
  <2>6. f \in Injection(S, T)
    BY <2>4, <2>5 DEF Injection, IsInjective
  <2> HIDE DEF base
  <2>7. IsFiniteSet(T) /\ Cardinality(T) = InstanceLimit
    BY <2>2, FS_Interval, LimitsAssumption
  <2> HIDE DEF f, T
  <2>8. Cardinality(S) <= InstanceLimit
    BY <2>6, <2>7, FS_Injection
  <2> QED BY <2>8
<1> QED BY <1>1, Invariance, PTL

\* No session goes back to a pool, or is left cut, with a permit on it.
THEOREM NoLeakedPermitHolds == Spec => []NoLeakedPermit
<1>1. IInv => NoLeakedPermit
  BY NamesAssumption DEF IInv, TypeOK, LockInv, UsedInv, NoLeakedPermit
<1> QED BY <1>1, Invariance, PTL

\* Two searches never share a session, so the unlock_all of one frees no slot of
\* another (permit()'s connection is its own until _release_all).
THEOREM SessionsExclusiveHolds == Spec => []SessionsExclusive
<1>1. IInv => SessionsExclusive
  BY DEF IInv, SessionInv, SessionsExclusive
<1> QED BY <1>1, Invariance, PTL

=============================================================================
