------------------------ MODULE SSDPWatcher_proofs --------------------------
(***************************************************************************)
(* Proofs about SSDPWatcher, for every set of uuids, addresses and         *)
(* datagrams and every width of int.                                       *)
(***************************************************************************)
EXTENDS SSDPWatcher, TLAPS

-----------------------------------------------------------------------------
(***************************************************************************)
(* Operators of RootDevice.                                                *)
(***************************************************************************)

\* What the code stores in an int is one: the wrap-around of the product in
\* resetCacheTimeOut() ends within the type's range.
LEMMA Int32Range ==
  ASSUME NEW x \in Int
  PROVE  Int32(x) \in -(IntMax + 1) .. IntMax
<1> DEFINE n == 2 * (IntMax + 1)
           a == x + IntMax + 1
<1>1. n \in Nat \ {0} /\ a \in Int
  BY IntMaxAssumption
<1>2. \A i \in Int, k \in Nat \ {0} : i % k \in 0 .. (k - 1)
  OBVIOUS
<1>3. a % n \in 0 .. (n - 1)
  BY <1>1, <1>2
<1> QED
  BY <1>3, IntMaxAssumption DEF Int32

\* The period of a cache timer is an int again, or there is no timer.
LEMMA IntervalRange ==
  ASSUME NEW t \in Int
  PROVE  Interval(t) \in NoTimer .. IntMax
<1>1. t * MsPerSec \in Int
  BY MsPerSecAssumption
<1>2. Int32(t * MsPerSec) \in -(IntMax + 1) .. IntMax
  BY <1>1, Int32Range
<1> QED
  BY <1>2, IntMaxAssumption DEF Interval, NoTimer

\* Each method of RootDevice leaves an object that is well-formed.
LEMMA RootDeviceMethods ==
  ASSUME NEW dev \in RootDeviceState
  PROVE  /\ \A t \in Int : ResetCacheTimeOut(dev, t) \in RootDeviceState
         /\ Elapse(dev) \in RootDeviceState
         /\ Reload(dev) \in RootDeviceState
         /\ DeleteLater(dev) \in RootDeviceState
         /\ ReplyConsumed(dev) \in RootDeviceState
         /\ Connected(dev) \in RootDeviceState
<1>1. ASSUME NEW t \in Int PROVE ResetCacheTimeOut(dev, t) \in RootDeviceState
  BY IntervalRange DEF ResetCacheTimeOut, RootDeviceState
<1>2. Elapse(dev) \in RootDeviceState
  BY IntMaxAssumption DEF Elapse, RootDeviceState, NoTimer
<1> QED
  BY <1>1, <1>2
  DEF Reload, DeleteLater, ReplyConsumed, Connected, RootDeviceState

\* The passing of time changes nothing but the time that is left.
LEMMA ElapseKeeps ==
  ASSUME NEW dev \in RootDeviceState
  PROVE  /\ Elapse(dev).life = dev.life /\ Elapse(dev).uuid = dev.uuid
         /\ Elapse(dev).reply = dev.reply /\ Elapse(dev).connected = dev.connected
<1>1. \E t : Elapse(dev) = [dev EXCEPT !.left = t]
  BY DEF Elapse
<1>2. ASSUME NEW t
      PROVE  LET new == [dev EXCEPT !.left = t] IN
               /\ new.life = dev.life /\ new.uuid = dev.uuid
               /\ new.reply = dev.reply /\ new.connected = dev.connected
  BY Zenon DEF RootDeviceState
<1> QED
  BY <1>1, <1>2

\* So are freed memory and an object just made for an announcement.
LEMMA NewRootDevices ==
  /\ Freed \in RootDeviceState
  /\ \A u \in Uuid, t \in Int : Constructed(u, t) \in RootDeviceState
<1>1. Freed \in RootDeviceState
  BY IntMaxAssumption DEF Freed, RootDeviceState, NoTimer
<1>2. ASSUME NEW u \in Uuid, NEW t \in Int PROVE Constructed(u, t) \in RootDeviceState
  <2> DEFINE new == [Freed EXCEPT !.life = "alive", !.uuid = u, !.reply = "loading"]
  <2>1. new \in RootDeviceState
    BY <1>1 DEF Freed, RootDeviceState
  <2> QED
    BY <2>1, RootDeviceMethods DEF Constructed
<1> QED
  BY <1>1, <1>2

-----------------------------------------------------------------------------
(***************************************************************************)
(* Type correctness.                                                       *)
(***************************************************************************)

\* The initial state is well-typed.
LEMMA InitType == Init => TypeOK
<1> SUFFICES ASSUME Init PROVE TypeOK
  OBVIOUS
<1>1. device \in [Object -> RootDeviceState]
  BY NewRootDevices DEF Init
<1>2. searchLeft \in Int
  BY SearchTimeoutAssumption, MsPerSecAssumption DEF Init
<1> QED
  BY <1>1, <1>2 DEF Init, TypeOK, Silence, Signal, SignalNames

\* Every step of the program keeps the types, the interval of every timer
\* being an int among them.
LEMMA NextType == TypeOK /\ [Next]_vars => TypeOK'
<1> SUFFICES ASSUME TypeOK, [Next]_vars PROVE TypeOK'
  OBVIOUS
<1> USE DEF TypeOK, Silence, Signal, SignalNames
<1>1. ASSUME NEW m \in Datagrams, ReadDatagram(m) PROVE TypeOK'
  <2> USE <1>1 DEF ReadDatagram
  <2>1. m \in Message
    BY DatagramsAssumption
  <2>2. CASE DetectDevice(m)
    <3>1. m.uuid \in Uuid /\ m.maxAge \in Int
      BY <2>1, <2>2 DEF DetectDevice, Detects, IsComplete, Message
    <3>2. PICK o \in FreeObjects :
            /\ device' = [device EXCEPT ![o] = Constructed(m.uuid, m.maxAge)]
            /\ mPendingDevices' = mPendingDevices \cup {o}
      BY <2>2 DEF DetectDevice
    <3>3. Constructed(m.uuid, m.maxAge) \in RootDeviceState
      BY <3>1, NewRootDevices
    <3> QED
      BY <2>2, <3>2, <3>3 DEF DetectDevice, FreeObjects
  <2>3. CASE RefreshDevice(m)
    <3>1. m.uuid \in Uuid /\ m.maxAge \in Int /\ mDevices[m.uuid] \in Object
      BY <2>1, <2>3 DEF RefreshDevice, Refreshes, IsComplete, Known, Message
    <3>2. ResetCacheTimeOut(device[mDevices[m.uuid]], m.maxAge) \in RootDeviceState
      BY <3>1, RootDeviceMethods
    <3> QED
      BY <2>3, <3>1, <3>2 DEF RefreshDevice
  <2>4. CASE RemoveDevice(m)
    <3>1. m.uuid \in Uuid /\ mDevices[m.uuid] \in Object
      BY <2>1, <2>4 DEF RemoveDevice, Removes, IsComplete, Known, Message
    <3>2. DeleteLater(device[mDevices[m.uuid]]) \in RootDeviceState
      BY <3>1, RootDeviceMethods
    <3> QED
      BY <2>4, <3>1, <3>2 DEF RemoveDevice
  <2>5. CASE IgnoreMessage(m)
    BY <2>5 DEF IgnoreMessage
  <2> QED
    BY <2>2, <2>3, <2>4, <2>5
<1>2. ASSUME NEW o \in Object, FinishDownload(o) PROVE TypeOK'
  BY <1>2 DEF FinishDownload, RootDeviceState
<1>3. ASSUME NEW o \in Object, NEW s \in BOOLEAN, DeliverReply(o, s) PROVE TypeOK'
  <2>1. /\ DeleteLater(ReplyConsumed(device[o])) \in RootDeviceState
        /\ Connected(ReplyConsumed(device[o])) \in RootDeviceState
    BY RootDeviceMethods
  <2>2. CASE DiscardPending(o)
    BY <1>3, <2>1, <2>2 DEF DeliverReply, DiscardPending
  <2>3. CASE InsertPending(o)
    BY <1>3, <2>1, <2>3 DEF DeliverReply, InsertPending
  <2> QED
    BY <1>3, <2>2, <2>3 DEF DeliverReply
<1>4. ASSUME NEW o \in Object, DeferredDelete(o) PROVE TypeOK'
  BY <1>4, NewRootDevices DEF DeferredDelete
<1>5. ASSUME NEW o \in Object, FireCacheTimer(o) PROVE TypeOK'
  <2>1. /\ DeleteLater(Reload(device[o])) \in RootDeviceState
        /\ Reload(device[o]) \in RootDeviceState
    BY RootDeviceMethods
  <2>2. CASE OnCacheTimedOut(o)
    BY <1>5, <2>1, <2>2 DEF FireCacheTimer, OnCacheTimedOut
  <2>3. CASE MissCacheTimedOut(o)
    BY <1>5, <2>1, <2>3 DEF FireCacheTimer, MissCacheTimedOut
  <2> QED
    BY <1>5, <2>2, <2>3 DEF FireCacheTimer
<1>6. CASE FireSearchTimer
  BY <1>6 DEF FireSearchTimer, NoTimer
<1>7. CASE Tick
  <2>1. \A o \in Object : Elapse(device[o]) \in RootDeviceState
    BY RootDeviceMethods
  <2> QED
    BY <1>7, <2>1 DEF Tick
<1>8. CASE EndPosted
  BY <1>8 DEF EndPosted, Quiet
<1>9. CASE \E w \in BOOLEAN : EndSockets(w)
  BY <1>9 DEF EndSockets, Quiet, DueObjects
<1>10. CASE EndTimers
  BY <1>10 DEF EndTimers, Quiet
<1>11. CASE UNCHANGED vars
  BY <1>11 DEF vars
<1> QED
  BY <1>1, <1>2, <1>3, <1>4, <1>5, <1>6, <1>7, <1>8, <1>9, <1>10, <1>11
  DEF Next, LoopStep, Posted, Timers

\* The variables of the watcher always have their types; in particular no
\* timer is ever registered with a period that is not an int.
THEOREM TypeCorrect == Spec => []TypeOK
<1>1. Init => TypeOK
  BY InitType
<1>2. TypeOK /\ [Next]_vars => TypeOK'
  BY NextType
<1> QED
  BY <1>1, <1>2, PTL DEF Spec

-----------------------------------------------------------------------------
(***************************************************************************)
(* Ownership of the RootDevice objects.                                    *)
(***************************************************************************)

\* Nothing is held, and nothing exists, when the watcher is constructed.
LEMMA InitHeap == Init => HeapInv
  BY DEF Init, HeapInv, PendingDownloads, EntriesAreAlive, AliveAreHeld,
         LateTimersAreHarmless, Freed, Known, DoomedObjects

\* A pointer in mDevices points to an object.
LEMMA EntryIsObject ==
  ASSUME TypeOK, NEW u \in Uuid, Known(u)
  PROVE  mDevices[u] \in Object
  BY DEF TypeOK, Known

\* A datagram makes one object, gives one a new timer or dooms one; the object
\* is in all three cases one that nothing else holds.
LEMMA ReadKeepsHeap ==
  ASSUME TypeOK, HeapInv, NEW m \in Datagrams, ReadDatagram(m)
  PROVE  HeapInv'
<1> USE DEF HeapInv, PendingDownloads, EntriesAreAlive, AliveAreHeld,
            LateTimersAreHarmless, TypeOK, Known, DoomedObjects
<1>1. phase = "select" /\ phase' = "sockets"
  BY DEF ReadDatagram
<1>2. IsComplete(m) => m.uuid \in Uuid
  BY DatagramsAssumption DEF IsComplete, Message
<1>3. CASE DetectDevice(m)
  <2>1. PICK o \in FreeObjects :
          /\ device' = [device EXCEPT ![o] = Constructed(m.uuid, m.maxAge)]
          /\ mPendingDevices' = mPendingDevices \cup {o}
    BY <1>3 DEF DetectDevice
  <2>2. /\ o \in Object /\ device[o].life = "free"
        /\ mDevices' = mDevices /\ m.uuid \in Uuid
    BY <1>2, <1>3, <2>1 DEF FreeObjects, DetectDevice, Detects
  <2>3. /\ device'[o].life = "alive" /\ device'[o].uuid = m.uuid
        /\ device'[o].reply = "loading" /\ ~ device'[o].connected
    BY <2>1, <2>2 DEF Constructed, ResetCacheTimeOut, Freed
  <2>4. \A x \in Object \ {o} : device'[x] = device[x]
    BY <2>1
  <2>5. PendingDownloads'
    BY <2>1, <2>2, <2>3, <2>4
  <2>6. EntriesAreAlive'
    BY <2>2, <2>4, EntryIsObject
  <2>7. AliveAreHeld'
    BY <2>1, <2>2, <2>4
  <2>8. LateTimersAreHarmless'
    BY <1>1, <2>2, <2>3, <2>4
  <2> QED
    BY <2>5, <2>6, <2>7, <2>8
<1>4. CASE RefreshDevice(m)
  <2> DEFINE o == mDevices[m.uuid]
  <2>1. /\ o \in Object
        /\ device' = [device EXCEPT ![o] = ResetCacheTimeOut(device[o], m.maxAge)]
        /\ mDevices' = mDevices /\ mPendingDevices' = mPendingDevices
    BY <1>2, <1>4, EntryIsObject DEF RefreshDevice, Refreshes
  <2>2. \A x \in Object :
          /\ device'[x].life = device[x].life
          /\ device'[x].uuid = device[x].uuid
          /\ device'[x].reply = device[x].reply
          /\ device'[x].connected = device[x].connected
    BY <2>1 DEF ResetCacheTimeOut, RootDeviceState
  <2> QED
    BY <1>1, <2>1, <2>2
<1>5. CASE RemoveDevice(m)
  <2> DEFINE o == mDevices[m.uuid]
  <2>1. /\ m.uuid \in Uuid /\ o \in Object /\ Known(m.uuid)
        /\ device' = [device EXCEPT ![o] = DeleteLater(device[o])]
        /\ mDevices' = [mDevices EXCEPT ![m.uuid] = NoDevice]
        /\ mPendingDevices' = mPendingDevices
    BY <1>2, <1>5, EntryIsObject DEF RemoveDevice, Removes
  <2>2. /\ device'[o].life = "doomed" /\ device'[o].uuid = m.uuid
        /\ device'[o].reply = device[o].reply
        /\ device[o].connected /\ device'[o].connected
    BY <2>1 DEF DeleteLater, RootDeviceState
  <2>3. \A x \in Object \ {o} : device'[x] = device[x]
    BY <2>1
  <2>4. PendingDownloads'
    BY <2>1, <2>2, <2>3
  <2>5. EntriesAreAlive'
    BY <2>1, <2>3, EntryIsObject
  <2>6. AliveAreHeld'
    BY <2>1, <2>2, <2>3
  <2>7. LateTimersAreHarmless'
    BY <1>1, <2>1, <2>2, <2>3
  <2> QED
    BY <2>4, <2>5, <2>6, <2>7
<1>6. CASE IgnoreMessage(m)
  BY <1>1, <1>6 DEF IgnoreMessage
<1> QED
  BY <1>3, <1>4, <1>5, <1>6 DEF ReadDatagram

\* A finished download passes its device on from mPendingDevices to mDevices,
\* or dooms it.
LEMMA ReplyKeepsHeap ==
  ASSUME TypeOK, HeapInv, NEW o \in Object, NEW s \in BOOLEAN, DeliverReply(o, s)
  PROVE  HeapInv'
<1> USE DEF HeapInv, PendingDownloads, EntriesAreAlive, AliveAreHeld,
            LateTimersAreHarmless, TypeOK, Known, DoomedObjects
<1>1. /\ phase = "posted" /\ phase' = "posted"
      /\ o \in mPendingDevices /\ mPendingDevices' = mPendingDevices \ {o}
      /\ device[o].life = "alive" /\ ~ device[o].connected
      /\ device[o].uuid \in Uuid
  BY DEF DeliverReply
<1>2. \A u \in Uuid : mDevices[u] # o
  BY <1>1, NoDeviceAssumption
<1>3. CASE DiscardPending(o)
  <2>1. /\ device'[o].life = "doomed" /\ device'[o].reply = "none"
        /\ device'[o].uuid = device[o].uuid
        /\ \A x \in Object \ {o} : device'[x] = device[x]
        /\ mDevices' = mDevices
    BY <1>3 DEF DiscardPending, DeleteLater, ReplyConsumed, RootDeviceState
  <2> QED
    BY <1>1, <1>2, <2>1, EntryIsObject
<1>4. CASE InsertPending(o) /\ ~ Known(device[o].uuid)
  <2> DEFINE d == device[o]
             e == Connected(ReplyConsumed(d))
  <2>1. /\ device' = [device EXCEPT ![o] = e]
        /\ mDevices' = [mDevices EXCEPT ![d.uuid] = o]
    BY <1>4 DEF InsertPending
  <2>2. d \in RootDeviceState
    OBVIOUS
  <2>3. /\ e.life = d.life /\ e.reply = "none" /\ e.uuid = d.uuid
        /\ e.connected
    BY <2>2 DEF Connected, ReplyConsumed, RootDeviceState
  <2>4. /\ device'[o].life = "alive" /\ device'[o].reply = "none"
        /\ device'[o].uuid = device[o].uuid /\ device'[o].connected
        /\ \A x \in Object \ {o} : device'[x] = device[x]
        /\ mDevices' = [mDevices EXCEPT ![device[o].uuid] = o]
    BY <1>1, <2>1, <2>3
  <2>5. PendingDownloads'
    BY <1>1, <2>4
  <2>6. EntriesAreAlive'
    BY <1>1, <1>2, <2>4, EntryIsObject
  <2>7. AliveAreHeld'
    BY <1>1, <1>4, <2>4, NoDeviceAssumption
  <2>8. LateTimersAreHarmless'
    BY <1>1, <2>4
  <2> QED
    BY <2>5, <2>6, <2>7, <2>8
<1> QED
  BY <1>3, <1>4 DEF DeliverReply

\* The cache timer of a device removes the entry of that device and no other:
\* the entry that onCacheTimedOut() finds by uuid is the device itself, or the
\* device was removed already and the uuid has no entry.
LEMMA TimeOutHitsOwnEntry ==
  ASSUME TypeOK, HeapInv, NEW o \in Object, FireCacheTimer(o), device[o].connected
  PROVE  /\ device[o].uuid \in Uuid
         /\ mDevices[device[o].uuid] \in {o, NoDevice}
         /\ device[o].life = "alive" => mDevices[device[o].uuid] = o
         /\ o \notin mPendingDevices
<1> USE DEF HeapInv, PendingDownloads, EntriesAreAlive, AliveAreHeld,
            LateTimersAreHarmless, TypeOK, Known
<1>1. phase = "timers"
  BY DEF FireCacheTimer
<1>2. device[o].life \in {"alive", "doomed"}
  BY DEF RootDeviceState
<1>3. CASE device[o].life = "doomed"
  BY <1>1, <1>3
<1>4. CASE device[o].life = "alive"
  BY <1>4, NoDeviceAssumption
<1> QED
  BY <1>2, <1>3, <1>4

\* A timer event either goes unheard or dooms a device without an entry.
LEMMA TimerKeepsHeap ==
  ASSUME TypeOK, HeapInv, NEW o \in Object, FireCacheTimer(o)
  PROVE  HeapInv'
<1> USE DEF HeapInv, PendingDownloads, EntriesAreAlive, AliveAreHeld,
            LateTimersAreHarmless, TypeOK, Known, DoomedObjects
<1>1. /\ phase = "timers" /\ phase' = "timers" /\ mPendingDevices' = mPendingDevices
      /\ \A x \in Object \ {o} : device'[x] = device[x]
  BY DEF FireCacheTimer, OnCacheTimedOut, MissCacheTimedOut
<1>2. CASE device[o].connected /\ OnCacheTimedOut(o)
  <2>1. /\ device'[o].life = "doomed" /\ device'[o].uuid = device[o].uuid
        /\ device'[o].reply = device[o].reply
        /\ mDevices' = [mDevices EXCEPT ![device[o].uuid] = NoDevice]
    BY <1>2 DEF OnCacheTimedOut, DeleteLater, Reload, RootDeviceState
  <2>2. /\ device[o].uuid \in Uuid
        /\ mDevices[device[o].uuid] \in {o, NoDevice}
        /\ device[o].life = "alive" => mDevices[device[o].uuid] = o
        /\ o \notin mPendingDevices
    BY <1>2, TimeOutHitsOwnEntry
  <2>3. PendingDownloads'
    BY <1>1, <2>1, <2>2
  <2>4. EntriesAreAlive'
    BY <1>1, <2>1, <2>2, EntryIsObject, NoDeviceAssumption
  <2>5. AliveAreHeld'
    BY <1>1, <2>1, <2>2, NoDeviceAssumption
  <2>6. LateTimersAreHarmless'
    BY <1>1, <2>1, <2>2
  <2> QED
    BY <2>3, <2>4, <2>5, <2>6
<1>3. CASE ~ device[o].connected /\ MissCacheTimedOut(o)
  <2>1. /\ device'[o].life = device[o].life /\ device'[o].uuid = device[o].uuid
        /\ device'[o].reply = device[o].reply
        /\ device'[o].connected = device[o].connected
        /\ mDevices' = mDevices
    BY <1>3 DEF MissCacheTimedOut, Reload, RootDeviceState
  <2> QED
    BY <1>1, <2>1, EntryIsObject
<1> QED
  BY <1>2, <1>3 DEF FireCacheTimer

\* A queued deletion frees an object that is in neither container.
LEMMA DeleteKeepsHeap ==
  ASSUME TypeOK, HeapInv, NEW o \in Object, DeferredDelete(o)
  PROVE  HeapInv'
<1> USE DEF HeapInv, PendingDownloads, EntriesAreAlive, AliveAreHeld,
            LateTimersAreHarmless, TypeOK, Known, DoomedObjects
<1>1. /\ device[o].life = "doomed" /\ device' = [device EXCEPT ![o] = Freed]
      /\ mDevices' = mDevices /\ mPendingDevices' = mPendingDevices
      /\ phase = "posted" /\ phase' = "posted"
  BY DEF DeferredDelete
<1>2. /\ device'[o].life = "free" /\ device'[o].reply = "none"
      /\ ~ device'[o].connected
      /\ \A x \in Object \ {o} : device'[x] = device[x]
  BY <1>1 DEF Freed
<1> QED
  BY <1>1, <1>2, EntryIsObject

\* The steps of the event loop touch the timers of the objects at most.
LEMMA LoopKeepsHeap ==
  ASSUME TypeOK, HeapInv,
         FireSearchTimer \/ Tick \/ EndPosted \/ (\E w \in BOOLEAN : EndSockets(w)) \/ EndTimers
         \/ (\E o \in Object : FinishDownload(o)) \/ UNCHANGED vars
  PROVE  HeapInv'
<1> USE DEF HeapInv, PendingDownloads, EntriesAreAlive, AliveAreHeld,
            LateTimersAreHarmless, TypeOK, Known, DoomedObjects
<1>1. CASE FireSearchTimer
  BY <1>1 DEF FireSearchTimer
<1>2. CASE Tick
  <2>1. /\ mDevices' = mDevices /\ mPendingDevices' = mPendingDevices
        /\ phase' = phase
        /\ \A o \in Object : device'[o] = Elapse(device[o])
    BY <1>2 DEF Tick
  <2>2. \A o \in Object :
          /\ device'[o].life = device[o].life
          /\ device'[o].uuid = device[o].uuid
          /\ device'[o].reply = device[o].reply
          /\ device'[o].connected = device[o].connected
    BY <2>1, ElapseKeeps
  <2> QED
    BY <2>1, <2>2, EntryIsObject
<1>3. CASE EndPosted
  BY <1>3 DEF EndPosted, Quiet
<1>4. CASE \E w \in BOOLEAN : EndSockets(w)
  BY <1>4 DEF EndSockets, Quiet
<1>5. CASE EndTimers
  BY <1>5 DEF EndTimers, Quiet
<1>6. CASE \E o \in Object : FinishDownload(o)
  <2>1. PICK o \in Object : FinishDownload(o)
    BY <1>6
  <2>2. /\ mDevices' = mDevices /\ mPendingDevices' = mPendingDevices
        /\ phase' = phase
        /\ device[o].reply = "loading" /\ device'[o].reply = "ready"
        /\ \A x \in Object \ {o} : device'[x] = device[x]
    BY <2>1 DEF FinishDownload, RootDeviceState
  <2>3. \A x \in Object :
          /\ device'[x].life = device[x].life
          /\ device'[x].uuid = device[x].uuid
          /\ device'[x].connected = device[x].connected
    BY <2>1 DEF FinishDownload, RootDeviceState
  <2> QED
    BY <2>2, <2>3, EntryIsObject
<1>7. CASE UNCHANGED vars
  BY <1>7 DEF vars
<1> QED
  BY <1>1, <1>2, <1>3, <1>4, <1>5, <1>6, <1>7

\* HeapInv is inductive.
LEMMA NextHeap == TypeOK /\ HeapInv /\ [Next]_vars => HeapInv'
<1> SUFFICES ASSUME TypeOK, HeapInv, [Next]_vars PROVE HeapInv'
  OBVIOUS
<1>1. ASSUME NEW m \in Datagrams, ReadDatagram(m) PROVE HeapInv'
  BY <1>1, ReadKeepsHeap
<1>2. ASSUME NEW o \in Object, NEW s \in BOOLEAN, DeliverReply(o, s) PROVE HeapInv'
  BY <1>2, ReplyKeepsHeap
<1>3. ASSUME NEW o \in Object, DeferredDelete(o) PROVE HeapInv'
  BY <1>3, DeleteKeepsHeap
<1>4. ASSUME NEW o \in Object, FireCacheTimer(o) PROVE HeapInv'
  BY <1>4, TimerKeepsHeap
<1> QED
  BY <1>1, <1>2, <1>3, <1>4, LoopKeepsHeap DEF Next, LoopStep, Posted, Timers

\* The objects that are alive are exactly those the watcher holds.
LEMMA HeapOwnership == TypeOK /\ HeapInv => Ownership
<1> SUFFICES ASSUME TypeOK, HeapInv PROVE Ownership
  OBVIOUS
<1> USE DEF HeapInv, PendingDownloads, EntriesAreAlive, AliveAreHeld,
            TypeOK, Known, AliveObjects
<1>1. AliveObjects = mPendingDevices \cup {mDevices[u] : u \in {v \in Uuid : Known(v)}}
  BY NoDeviceAssumption
<1>2. ASSUME NEW u \in Uuid, Known(u)
      PROVE  mDevices[u] \notin mPendingDevices /\ device[mDevices[u]].uuid = u
  BY <1>2
<1> QED
  BY <1>1, <1>2 DEF Ownership

\* HeapInv holds in every reachable state.
LEMMA HeapCorrect == Spec => [](TypeOK /\ HeapInv)
<1>1. Init => TypeOK /\ HeapInv
  BY InitType, InitHeap
<1>2. TypeOK /\ HeapInv /\ [Next]_vars => (TypeOK /\ HeapInv)'
  BY NextType, NextHeap
<1> QED
  BY <1>1, <1>2, PTL DEF Spec

\* A pending device downloads, alive and unconnected; an entry of mDevices is
\* alive under its uuid; nothing alive is forgotten; and a device already deleted
\* that still times out finds no other device under its uuid.
THEOREM HeapInvHolds == Spec => []HeapInv
  BY HeapCorrect, PTL

\* Every RootDevice object is held by exactly one of the watcher's containers,
\* however datagrams, downloads, timers and deletions interleave: the code
\* neither leaks one nor keeps a pointer to a deleted one.
THEOREM OwnershipHolds == Spec => []Ownership
  BY HeapCorrect, HeapOwnership, PTL

-----------------------------------------------------------------------------
(***************************************************************************)
(* Signals.                                                                *)
(***************************************************************************)

SignalledChange ==
  \A u \in Uuid : mDevices'[u] # mDevices[u] =>
     IF Known(u)
     THEN emitted' = Signal("deviceRemoved", mDevices[u]) /\ ~ Known(u)'
     ELSE emitted' = Signal("deviceDiscovered", mDevices'[u])

\* One step of the watcher signals what it does to the cache.
LEMMA StepIsSignalled == TypeOK /\ HeapInv /\ [Next]_vars => SignalledChange
<1> SUFFICES ASSUME TypeOK, HeapInv, [Next]_vars PROVE SignalledChange
  OBVIOUS
<1> USE DEF SignalledChange, TypeOK, Known
<1>1. ASSUME NEW m \in Datagrams, ReadDatagram(m) PROVE SignalledChange
  <2>1. CASE RemoveDevice(m)
    BY <2>1 DEF RemoveDevice
  <2>2. CASE DetectDevice(m) \/ RefreshDevice(m) \/ IgnoreMessage(m)
    BY <2>2 DEF DetectDevice, RefreshDevice, IgnoreMessage
  <2> QED
    BY <1>1, <2>1, <2>2 DEF ReadDatagram
<1>2. ASSUME NEW o \in Object, NEW s \in BOOLEAN, DeliverReply(o, s)
      PROVE  SignalledChange
  <2>1. CASE DiscardPending(o)
    BY <2>1 DEF DiscardPending
  <2>2. CASE InsertPending(o) /\ ~ Known(device[o].uuid)
    BY <2>2 DEF InsertPending
  <2> QED
    BY <1>2, <2>1, <2>2 DEF DeliverReply
<1>3. ASSUME NEW o \in Object, FireCacheTimer(o) PROVE SignalledChange
  <2>1. CASE device[o].connected /\ OnCacheTimedOut(o)
    <3>1. mDevices[device[o].uuid] \in {o, NoDevice} /\ device[o].uuid \in Uuid
      BY <1>3, <2>1, TimeOutHitsOwnEntry
    <3> QED
      BY <2>1, <3>1 DEF OnCacheTimedOut
  <2>2. CASE MissCacheTimedOut(o)
    BY <2>2 DEF MissCacheTimedOut
  <2> QED
    BY <1>3, <2>1, <2>2 DEF FireCacheTimer
<1>4. CASE UNCHANGED mDevices
  BY <1>4
<1>5. ASSUME NEW o \in Object, DeferredDelete(o) \/ FinishDownload(o)
      PROVE  UNCHANGED mDevices
  BY <1>5 DEF DeferredDelete, FinishDownload
<1>6. ASSUME FireSearchTimer \/ Tick \/ EndPosted \/ (\E w \in BOOLEAN : EndSockets(w)) \/ EndTimers
             \/ UNCHANGED vars
      PROVE  UNCHANGED mDevices
  BY <1>6 DEF FireSearchTimer, Tick, EndPosted, EndSockets, EndTimers, Quiet, vars
<1> QED
  BY <1>1, <1>2, <1>3, <1>4, <1>5, <1>6 DEF Next, LoopStep, Posted, Timers

\* A listener of the watcher always knows what is in the cache: whatever enters
\* or leaves mDevices is named by the signal of the same handler.
THEOREM ChangesSignalled == Spec => ChangesAreSignalled
<1>1. TypeOK /\ HeapInv /\ [Next]_vars => SignalledChange
  BY StepIsSignalled
<1>2. TypeOK /\ HeapInv /\ [Next]_vars => [SignalledChange]_vars
  BY <1>1
<1>3. [][SignalledChange]_vars => ChangesAreSignalled
  BY PTL DEF ChangesAreSignalled, SignalledChange
<1> QED
  BY <1>2, <1>3, HeapCorrect, PTL DEF Spec
=============================================================================
