------------------------ MODULE Announcements_proofs ------------------------
(***************************************************************************)
(* Proofs about Announcements: as long as no message about a device comes  *)
(* in while its description is downloaded, and leases in milliseconds are  *)
(* ints, the watcher drops no device before its lease is over and adds     *)
(* none that has said goodbye.                                             *)
(***************************************************************************)
EXTENDS Announcements, SSDPWatcher_proofs

LeasesFit == \A m \in Datagrams : m.maxAge * MsPerSec \in -(IntMax + 1) .. IntMax

(***************************************************************************)
(* Why a lease is honoured: the timer of an object that is not deleted     *)
(* never has less time left than the lease announced last, and the timers  *)
(* about to fire have none left.                                           *)
(***************************************************************************)
Covers(o) == device[o].left = NoTimer \/ device[o].left >= lease[device[o].uuid]

LeaseInv ==
  /\ lease \in [Uuid -> Nat]
  /\ \A o \in Object : device[o].life = "alive" => Covers(o)
  /\ phase = "timers" => \A o \in due : IsDue(device[o])

\* No device whose description is being downloaded has said goodbye.
PresentInv == \A o \in mPendingDevices : device[o].uuid \notin farewell

-----------------------------------------------------------------------------
(***************************************************************************)
(* The watcher underneath.                                                 *)
(***************************************************************************)

\* The history variables are not in the watcher's way.
LEMMA CalmIsWatcherStep == [CalmNext]_allVars => [Next]_vars
  BY DEF CalmNext, HearDatagram, HistoryTick, OtherStep, Next, allVars

\* So the watcher's invariants hold here too.
LEMMA CalmHeap == CalmSpec => [](TypeOK /\ HeapInv)
<1>1. HistoryInit => Init
  BY DEF HistoryInit
<1> QED
  BY <1>1, CalmIsWatcherStep, HeapCorrect, PTL DEF CalmSpec, Spec

\* An interval that fits into an int is the one announced.
LEMMA IntervalFits ==
  ASSUME NEW t \in Int, t * MsPerSec \in -(IntMax + 1) .. IntMax
  PROVE  Interval(t) = IF t >= 0 THEN t * MsPerSec ELSE NoTimer
<1> DEFINE x == t * MsPerSec
           n == 2 * (IntMax + 1)
<1>1. \A i \in Nat, k \in Nat \ {0} : i < k => i % k = i
  OBVIOUS
<1>2. x \in Int /\ x + IntMax + 1 \in Nat /\ n \in Nat \ {0} /\ x + IntMax + 1 < n
  BY IntMaxAssumption, MsPerSecAssumption
<1>3. Int32(x) = x
  BY <1>1, <1>2, IntMaxAssumption DEF Int32
<1>4. x >= 0 <=> t >= 0
  BY MsPerSecAssumption
<1> QED
  BY <1>2, <1>3, <1>4 DEF Interval

\* The only object of a uuid that is not deleted is the one in mDevices, unless
\* one is pending.
LEMMA AliveIsPendingOrEntry ==
  ASSUME TypeOK, HeapInv, NEW o \in Object, device[o].life = "alive"
  PROVE  /\ device[o].uuid \in Uuid
         /\ IsPending(device[o].uuid) \/ mDevices[device[o].uuid] = o
<1>1. o \in mPendingDevices \/ \E u \in Uuid : mDevices[u] = o
  BY DEF HeapInv, AliveAreHeld
<1>2. ASSUME NEW u \in Uuid, mDevices[u] = o PROVE device[o].uuid = u
  BY <1>2, NoDeviceAssumption DEF HeapInv, EntriesAreAlive, Known
<1> QED
  BY <1>1, <1>2 DEF IsPending, HeapInv, LateTimersAreHarmless

-----------------------------------------------------------------------------
(***************************************************************************)
(* LeaseInv is inductive.                                                  *)
(***************************************************************************)

\* Nothing is leased and no timer runs at first.
LEMMA LeaseInit == HistoryInit => LeaseInv
  BY DEF HistoryInit, Init, LeaseInv, Freed

\* A datagram that renews the lease of a device renews its timer with it.
LEMMA HearKeepsLease ==
  ASSUME LeasesFit, TypeOK, HeapInv, LeaseInv,
         NEW m \in Datagrams, ~ IsPending(m.uuid), HearDatagram(m)
  PROVE  LeaseInv'
<1> USE DEF LeaseInv
<1>1. m \in Message /\ m.maxAge \in Int
  BY DatagramsAssumption DEF Message
<1>2. phase' = "sockets"
  BY DEF HearDatagram, ReadDatagram
<1>3. lease' \in [Uuid -> Nat]
  <2>1. CASE Announces(m) /\ m.maxAge >= 0
    <3>1. m.uuid \in Uuid /\ m.maxAge * MsPerSec \in Nat
      BY <1>1, <2>1, MsPerSecAssumption DEF Announces, IsComplete, Message
    <3> QED
      BY <2>1, <3>1 DEF HearDatagram
  <2>2. CASE ~ (Announces(m) /\ m.maxAge >= 0)
    BY <2>2 DEF HearDatagram
  <2> QED
    BY <2>1, <2>2
<1>4. ASSUME NEW o \in Object, device'[o].life = "alive", device'[o] = device[o],
             Announces(m) => device[o].uuid # m.uuid
      PROVE  Covers(o)'
  BY <1>4 DEF Covers, HearDatagram
<1>5. Interval(m.maxAge) = IF m.maxAge >= 0 THEN m.maxAge * MsPerSec ELSE NoTimer
  BY <1>1, IntervalFits DEF LeasesFit
<1>6. CASE DetectDevice(m)
  <2>1. PICK n \in FreeObjects : device' = [device EXCEPT ![n] = Constructed(m.uuid, m.maxAge)]
    BY <1>6 DEF DetectDevice
  <2>2. Announces(m) /\ m.uuid \in Uuid /\ ~ Known(m.uuid)
    BY <1>1, <1>6 DEF DetectDevice, Detects, Announces, IsComplete, Message
  <2>3. Covers(n)'
    <3>1. device'[n].left = Interval(m.maxAge) /\ device'[n].uuid = m.uuid
      BY <2>1 DEF TypeOK, FreeObjects, Constructed, ResetCacheTimeOut, Freed
    <3>2. m.maxAge >= 0 => lease'[m.uuid] = m.maxAge * MsPerSec
      BY <2>2 DEF HearDatagram
    <3>3. m.maxAge * MsPerSec \in Int
      BY <1>1, MsPerSecAssumption
    <3> QED
      BY <1>5, <3>1, <3>2, <3>3 DEF Covers
  <2>4. ASSUME NEW o \in Object, o # n, device'[o].life = "alive" PROVE Covers(o)'
    <3>1. device'[o] = device[o]
      BY <2>1, <2>4 DEF TypeOK
    <3>2. device[o].uuid # m.uuid
      BY <2>2, <2>4, <3>1, AliveIsPendingOrEntry, NoDeviceAssumption DEF Known
    <3> QED
      BY <1>4, <2>4, <3>1, <3>2
  <2> QED
    BY <1>2, <1>3, <2>3, <2>4
<1>7. CASE RefreshDevice(m)
  <2>1. PICK n \in Object : /\ n = mDevices[m.uuid]
                           /\ device' = [device EXCEPT ![n] = ResetCacheTimeOut(device[n], m.maxAge)]
    BY <1>1, <1>7 DEF RefreshDevice, Refreshes, IsComplete, Message, TypeOK, Known
  <2>2. Announces(m) /\ m.uuid \in Uuid /\ device[n].uuid = m.uuid
    BY <1>1, <1>7, <2>1
    DEF RefreshDevice, Refreshes, Announces, IsComplete, Message, HeapInv,
        EntriesAreAlive, Known
  <2>3. Covers(n)'
    <3>1. device[n] \in RootDeviceState
      BY <2>2 DEF TypeOK
    <3>2. device'[n].left = Interval(m.maxAge) /\ device'[n].uuid = m.uuid
      BY <2>1, <2>2, <3>1 DEF TypeOK, ResetCacheTimeOut, RootDeviceState
    <3>3. m.maxAge >= 0 => lease'[m.uuid] = m.maxAge * MsPerSec
      BY <2>2 DEF HearDatagram
    <3>4. m.maxAge * MsPerSec \in Int
      BY <1>1, MsPerSecAssumption
    <3> QED
      BY <1>5, <3>2, <3>3, <3>4 DEF Covers
  <2>4. ASSUME NEW o \in Object, o # n, device'[o].life = "alive" PROVE Covers(o)'
    <3>1. device'[o] = device[o]
      BY <2>1, <2>4 DEF TypeOK
    <3>2. device[o].uuid # m.uuid
      BY <2>1, <2>4, <3>1, AliveIsPendingOrEntry
    <3> QED
      BY <1>4, <2>4, <3>1, <3>2
  <2> QED
    BY <1>2, <1>3, <2>3, <2>4
<1>8. CASE RemoveDevice(m)
  <2> DEFINE n == mDevices[m.uuid]
  <2>1. device' = [device EXCEPT ![n] = DeleteLater(device[n])]
    BY <1>8 DEF RemoveDevice
  <2>2. ~ Announces(m) /\ m.uuid \in Uuid /\ n \in Object
    BY <1>1, <1>8
    DEF RemoveDevice, Removes, Announces, IsComplete, IsAlive, IsByeBye, Message, TypeOK, Known
  <2>3. device'[n].life = "doomed"
    <3>1. device[n] \in RootDeviceState
      BY <2>2 DEF TypeOK
    <3> QED
      BY <2>1, <2>2, <3>1 DEF TypeOK, DeleteLater, RootDeviceState
  <2>4. ASSUME NEW o \in Object, o # n, device'[o].life = "alive" PROVE Covers(o)'
    BY <1>4, <2>1, <2>2, <2>4 DEF TypeOK
  <2> QED
    BY <1>2, <1>3, <2>3, <2>4
<1>9. CASE IgnoreMessage(m)
  <2>1. device' = device /\ lease' = lease
    BY <1>1, <1>9
    DEF IgnoreMessage, Detects, Refreshes, Announces, UnsetAge, HearDatagram
  <2> QED
    BY <1>2, <1>3, <2>1 DEF Covers
<1> QED
  BY <1>6, <1>7, <1>8, <1>9 DEF HearDatagram, ReadDatagram

\* A timer and the lease it watches run down together.
LEMMA TickKeepsLease ==
  ASSUME TypeOK, HeapInv, LeaseInv, HistoryTick
  PROVE  LeaseInv'
<1> USE DEF LeaseInv, HistoryTick, Tick
<1>1. lease' \in [Uuid -> Nat]
  OBVIOUS
<1>2. ASSUME NEW o \in Object, device'[o].life = "alive" PROVE Covers(o)'
  <2>1. device[o] \in RootDeviceState /\ device'[o] = Elapse(device[o])
    BY DEF TypeOK
  <2>2. device[o].life = "alive" /\ device'[o].uuid = device[o].uuid
    BY <1>2, <2>1, ElapseKeeps
  <2>3. device'[o].left = IF device[o].left > 0 THEN device[o].left - 1 ELSE device[o].left
    BY <2>1 DEF Elapse, RootDeviceState
  <2>4. device[o].uuid \in Uuid /\ Covers(o)
    BY <2>2, AliveIsPendingOrEntry
  <2>5. device[o].left \in Int /\ lease[device[o].uuid] \in Nat
    BY <2>1, <2>4 DEF RootDeviceState, NoTimer
  <2> QED
    BY <2>2, <2>3, <2>4, <2>5 DEF Covers, NoTimer
<1> QED
  BY <1>1, <1>2

\* A timer that fires has outlived the lease; it starts again with none.
LEMMA FireKeepsLease ==
  ASSUME TypeOK, HeapInv, LeaseInv, UNCHANGED lease,
         NEW o \in Object, FireCacheTimer(o)
  PROVE  LeaseInv'
<1> USE DEF LeaseInv, FireCacheTimer
<1>1. device[o].left = 0 /\ device[o] \in RootDeviceState
  BY DEF IsDue, TypeOK
<1>2. \A p \in Object : p # o => device'[p] = device[p]
  BY DEF OnCacheTimedOut, MissCacheTimedOut, TypeOK
<1>3. device'[o].life = "alive" => Covers(o)'
  <2>1. CASE OnCacheTimedOut(o)
    BY <1>1, <2>1 DEF OnCacheTimedOut, TypeOK, DeleteLater, Reload, RootDeviceState
  <2>2. CASE MissCacheTimedOut(o) /\ device[o].life = "alive"
    <3>1. device'[o].left = device[o].interval /\ device'[o].uuid = device[o].uuid
      BY <1>1, <2>2 DEF MissCacheTimedOut, TypeOK, Reload, RootDeviceState
    <3>2. device[o].uuid \in Uuid /\ Covers(o)
      BY <2>2, AliveIsPendingOrEntry
    <3>3. lease[device[o].uuid] = 0
      BY <1>1, <3>2 DEF Covers, NoTimer
    <3>4. device[o].interval \in NoTimer .. IntMax
      BY <1>1 DEF RootDeviceState
    <3> QED
      BY <3>1, <3>3, <3>4, IntMaxAssumption DEF Covers, NoTimer
  <2>3. CASE MissCacheTimedOut(o) /\ device[o].life # "alive"
    BY <1>1, <2>3 DEF MissCacheTimedOut, TypeOK, Reload, RootDeviceState
  <2> QED
    BY <2>1, <2>2, <2>3
<1>4. \A p \in due' : p \in Object /\ p # o /\ p \in due
  BY DEF TypeOK
<1> QED
  BY <1>2, <1>3, <1>4 DEF Covers

\* The other handlers leave the timers of live objects alone.
LEMMA OtherKeepsLease ==
  ASSUME TypeOK, HeapInv, LeaseInv, OtherStep
  PROVE  LeaseInv'
<1> USE DEF LeaseInv
<1>1. UNCHANGED lease
  BY DEF OtherStep, histories
<1>2. ASSUME NEW o \in Object, FinishDownload(o) PROVE LeaseInv'
  <2>1. \A p \in Object : /\ device'[p].life = device[p].life
                          /\ device'[p].left = device[p].left
                          /\ device'[p].uuid = device[p].uuid
    BY <1>2 DEF FinishDownload, TypeOK, RootDeviceState
  <2> QED
    BY <1>1, <1>2, <2>1 DEF FinishDownload, Covers, IsDue, TypeOK
<1>3. ASSUME NEW o \in Object, NEW s \in BOOLEAN, DeliverReply(o, s) PROVE LeaseInv'
  <2>1. device[o] \in RootDeviceState
    BY DEF TypeOK
  <2>2. device[o].life = "alive"
    BY <1>3 DEF DeliverReply, HeapInv, PendingDownloads
  <2>3. CASE DiscardPending(o)
    <3>1. device'[o].life = "doomed"
      BY <2>1, <2>3 DEF DiscardPending, DeleteLater, ReplyConsumed, TypeOK, RootDeviceState
    <3> QED
      BY <1>1, <1>3, <2>3, <3>1 DEF DeliverReply, DiscardPending, Covers, TypeOK
  <2>4. CASE InsertPending(o)
    <3>1. device'[o].left = device[o].left /\ device'[o].uuid = device[o].uuid
      BY <2>1, <2>4 DEF InsertPending, Connected, ReplyConsumed, TypeOK, RootDeviceState
    <3> QED
      BY <1>1, <1>3, <2>2, <2>4, <3>1 DEF DeliverReply, InsertPending, Covers, TypeOK
  <2> QED
    BY <1>3, <2>3, <2>4 DEF DeliverReply
<1>4. ASSUME NEW o \in Object, DeferredDelete(o) PROVE LeaseInv'
  BY <1>1, <1>4 DEF DeferredDelete, Freed, Covers, TypeOK
<1>5. ASSUME NEW o \in Object, FireCacheTimer(o) PROVE LeaseInv'
  BY <1>1, <1>5, FireKeepsLease
<1>6. CASE FireSearchTimer \/ EndPosted \/ EndTimers
  BY <1>1, <1>6 DEF FireSearchTimer, EndPosted, EndTimers, Quiet, Covers
<1>7. CASE \E w \in BOOLEAN : EndSockets(w)
  BY <1>1, <1>7 DEF EndSockets, Quiet, DueObjects, Covers
<1> QED
  BY <1>2, <1>3, <1>4, <1>5, <1>6, <1>7 DEF OtherStep, LoopStep, Posted, Timers

\* No step of a calm network breaks LeaseInv.
LEMMA LeaseStep ==
  ASSUME LeasesFit
  PROVE  TypeOK /\ HeapInv /\ LeaseInv /\ [CalmNext]_allVars => LeaseInv'
<1>1. ASSUME TypeOK, HeapInv, LeaseInv, UNCHANGED allVars PROVE LeaseInv'
  BY <1>1 DEF allVars, vars, histories, LeaseInv, Covers
<1> QED
  BY <1>1, HearKeepsLease, TickKeepsLease, OtherKeepsLease DEF CalmNext

-----------------------------------------------------------------------------
(***************************************************************************)
(* What follows for the cache.                                             *)
(***************************************************************************)

\* A time-out drops a device whose own timer has run out, never another one.
LEMMA DropsOutlived ==
  ASSUME TypeOK, HeapInv, LeaseInv, [CalmNext]_allVars,
         NEW u \in Uuid, phase = "timers", Known(u), ~ Known(u)'
  PROVE  lease[u] = 0
<1>1. PICK o \in Object : FireCacheTimer(o) /\ mDevices' # mDevices
  <2>1. mDevices' # mDevices
    BY DEF Known
  <2>2. ~ UNCHANGED allVars /\ ~ HistoryTick /\ ~ \E m \in Datagrams : HearDatagram(m)
    BY <2>1 DEF allVars, vars, HistoryTick, Tick, HearDatagram, ReadDatagram
  <2>3. OtherStep
    BY <2>2 DEF CalmNext
  <2>4. \A o \in Object : ~ FinishDownload(o)
    BY <2>1 DEF FinishDownload
  <2>5. ~ FireSearchTimer /\ ~ EndTimers /\ ~ Posted /\ \A w \in BOOLEAN : ~ EndSockets(w)
    BY <2>1 DEF FireSearchTimer, EndTimers, EndSockets, Quiet, Posted, EndPosted,
                DeferredDelete, DeliverReply
  <2> QED
    BY <2>1, <2>3, <2>4, <2>5 DEF OtherStep, LoopStep, Timers
<1>2. device[o].connected /\ OnCacheTimedOut(o) /\ device[o].left = 0
  BY <1>1 DEF FireCacheTimer, MissCacheTimedOut, LeaseInv, IsDue
<1>3. mDevices[device[o].uuid] \in {o, NoDevice} /\ device[o].uuid \in Uuid
  BY <1>1, <1>2, TimeOutHitsOwnEntry
<1>4. device[o].uuid = u /\ mDevices[u] = o
  BY <1>2, <1>3 DEF OnCacheTimedOut, Known, TypeOK
<1>5. device[o].life = "alive"
  BY <1>4 DEF HeapInv, EntriesAreAlive
<1>6. Covers(o) /\ lease[u] \in Nat
  BY <1>5 DEF LeaseInv
<1> QED
  BY <1>2, <1>4, <1>6 DEF Covers, NoTimer

\* On a calm network whose leases fit into an int, no cache time-out drops a
\* device before the lease that it announced last has run out, although timers
\* are periodic, keep running while a download is pending and fire late.
THEOREM LeaseHonouredHolds ==
  ASSUME LeasesFit
  PROVE  CalmSpec => LeaseHonoured
<1> DEFINE Outlived ==
      \A u \in Uuid : (phase = "timers" /\ Known(u) /\ ~ Known(u)') => lease[u] = 0
<1>1. TypeOK /\ HeapInv /\ LeaseInv /\ [CalmNext]_allVars => [Outlived]_allVars
  BY DropsOutlived
<1>2. TypeOK /\ HeapInv /\ LeaseInv /\ [CalmNext]_allVars => LeaseInv'
  BY LeaseStep
<1> QED
  BY <1>1, <1>2, LeaseInit, CalmHeap, PTL DEF CalmSpec, LeaseHonoured
-----------------------------------------------------------------------------
(***************************************************************************)
(* Devices that have said goodbye.                                         *)
(***************************************************************************)

\* A farewell comes only for a device that is not pending, and a new pending
\* device has just announced itself.
LEMMA HearKeepsPresent ==
  ASSUME TypeOK, HeapInv, PresentInv,
         NEW m \in Datagrams, ~ IsPending(m.uuid), HearDatagram(m)
  PROVE  PresentInv'
<1> USE DEF PresentInv
<1>1. farewell' \subseteq farewell \cup {m.uuid}
  BY DEF HearDatagram
<1>2. \A o \in mPendingDevices : device[o].uuid # m.uuid
  BY DEF IsPending
<1>3. CASE DetectDevice(m)
  <2>1. PICK n \in FreeObjects :
          /\ device' = [device EXCEPT ![n] = Constructed(m.uuid, m.maxAge)]
          /\ mPendingDevices' = mPendingDevices \cup {n}
    BY <1>3 DEF DetectDevice
  <2>2. device'[n].uuid = m.uuid
    BY <2>1 DEF TypeOK, FreeObjects, Constructed, ResetCacheTimeOut, Freed
  <2>3. m.uuid \notin farewell'
    BY <1>3 DEF DetectDevice, Detects, Announces, HearDatagram
  <2>4. ASSUME NEW o \in mPendingDevices, o # n PROVE device'[o] = device[o]
    BY <2>1, <2>4 DEF TypeOK
  <2> QED
    BY <1>1, <1>2, <2>1, <2>2, <2>3, <2>4
<1>4. CASE RefreshDevice(m) \/ RemoveDevice(m) \/ IgnoreMessage(m)
  <2>1. mPendingDevices' = mPendingDevices
    BY <1>4 DEF RefreshDevice, RemoveDevice, IgnoreMessage
  <2>2. ASSUME NEW o \in mPendingDevices PROVE device'[o] = device[o]
    BY <1>4, <2>2, DatagramsAssumption
    DEF RefreshDevice, RemoveDevice, IgnoreMessage, Refreshes, Removes, IsComplete, Message,
        HeapInv, EntriesAreAlive, PendingDownloads, Known, TypeOK
  <2> QED
    BY <1>1, <1>2, <2>1, <2>2
<1> QED
  BY <1>3, <1>4 DEF HearDatagram, ReadDatagram

\* Nothing else makes a device pending or says goodbye for it.
LEMMA OtherKeepsPresent ==
  ASSUME TypeOK, HeapInv, PresentInv, HistoryTick \/ OtherStep
  PROVE  PresentInv'
<1> USE DEF PresentInv
<1>1. farewell' = farewell
  BY DEF HistoryTick, OtherStep, histories
<1>2. SUFFICES /\ mPendingDevices' \subseteq mPendingDevices
               /\ \A o \in mPendingDevices' : device'[o].uuid = device[o].uuid
  BY <1>1
<1>3. CASE HistoryTick
  BY <1>3, ElapseKeeps DEF HistoryTick, Tick, TypeOK
<1>4. ASSUME NEW o \in Object, FinishDownload(o)
      PROVE  UNCHANGED mPendingDevices /\ \A p \in Object : device'[p].uuid = device[p].uuid
  BY <1>4 DEF FinishDownload, TypeOK, RootDeviceState
<1>5. ASSUME NEW o \in Object, NEW s \in BOOLEAN, DeliverReply(o, s)
      PROVE  /\ mPendingDevices' = mPendingDevices \ {o}
             /\ \A p \in Object \ {o} : device'[p] = device[p]
  BY <1>5 DEF DeliverReply, DiscardPending, InsertPending, TypeOK
<1>6. ASSUME NEW o \in Object, DeferredDelete(o)
      PROVE  /\ UNCHANGED mPendingDevices /\ o \notin mPendingDevices
             /\ \A p \in Object \ {o} : device'[p] = device[p]
  BY <1>6 DEF DeferredDelete, TypeOK, HeapInv, PendingDownloads
<1>7. ASSUME NEW o \in Object, FireCacheTimer(o)
      PROVE  UNCHANGED mPendingDevices /\ \A p \in Object : device'[p].uuid = device[p].uuid
  <2>1. device[o] \in RootDeviceState
    BY DEF TypeOK
  <2>2. CASE OnCacheTimedOut(o)
    BY <1>7, <2>1, <2>2
    DEF FireCacheTimer, OnCacheTimedOut, Reload, DeleteLater, TypeOK, RootDeviceState
  <2>3. CASE MissCacheTimedOut(o)
    BY <1>7, <2>1, <2>3 DEF FireCacheTimer, MissCacheTimedOut, Reload, TypeOK, RootDeviceState
  <2> QED
    BY <1>7, <2>2, <2>3 DEF FireCacheTimer
<1>8. CASE FireSearchTimer \/ EndPosted \/ EndTimers \/ \E w \in BOOLEAN : EndSockets(w)
  BY <1>8 DEF FireSearchTimer, EndPosted, EndTimers, EndSockets, Quiet
<1> QED
  BY <1>3, <1>4, <1>5, <1>6, <1>7, <1>8
  DEF OtherStep, LoopStep, Posted, Timers, TypeOK

\* Devices enter the cache from the pending ones.
LEMMA DiscoveredWasPending ==
  ASSUME TypeOK, HeapInv, PresentInv, [Next]_vars, NEW u \in Uuid, ~ Known(u), Known(u)'
  PROVE  u \notin farewell
<1>1. PICK o \in Object, s \in BOOLEAN : DeliverReply(o, s)
  <2>1. emitted'.signal = "deviceDiscovered"
    BY StepIsSignalled DEF SignalledChange, Signal, Known
  <2>2. mDevices' # mDevices
    BY DEF Known
  <2> QED
    BY <2>1, <2>2
    DEF Next, LoopStep, ReadDatagram, DetectDevice, RefreshDevice, RemoveDevice, IgnoreMessage,
        Timers, FireSearchTimer, FireCacheTimer, OnCacheTimedOut, MissCacheTimedOut, Posted,
        EndPosted, DeferredDelete, FinishDownload, Tick, EndTimers, EndSockets, Quiet, vars,
        Signal, Silence
<1>2. InsertPending(o) /\ o \in mPendingDevices
  BY <1>1 DEF DeliverReply, DiscardPending, HeapInv, PendingDownloads, Known
<1>3. device[o].uuid = u
  BY <1>2 DEF InsertPending, Known, TypeOK
<1> QED
  BY <1>2, <1>3 DEF PresentInv

\* On a calm network no device is added to the cache whose last message was a
\* byebye, however long its description took to arrive.
THEOREM DiscoveredIsPresentHolds == CalmSpec => DiscoveredIsPresent
<1> DEFINE Present == \A u \in Uuid : (~ Known(u) /\ Known(u)') => u \notin farewell
<1>1. HistoryInit => PresentInv
  BY DEF HistoryInit, PresentInv
<1>2. TypeOK /\ HeapInv /\ PresentInv /\ [CalmNext]_allVars => PresentInv'
  <2>1. ASSUME PresentInv, UNCHANGED allVars PROVE PresentInv'
    BY <2>1 DEF allVars, vars, histories, PresentInv
  <2> QED
    BY <2>1, HearKeepsPresent, OtherKeepsPresent DEF CalmNext
<1>3. TypeOK /\ HeapInv /\ PresentInv /\ [CalmNext]_allVars => [Present]_allVars
  BY DiscoveredWasPending, CalmIsWatcherStep
<1> QED
  BY <1>1, <1>2, <1>3, CalmHeap, PTL DEF CalmSpec, DiscoveredIsPresent
=============================================================================
