----------------------------- MODULE SSDPWatcher ----------------------------
(***************************************************************************)
(* The watcher of SSDP announcements (src/daemon/ssdpwatcher.{h,cpp}) with *)
(* the RootDevice objects it creates, on one thread that runs Qt's event   *)
(* loop.                                                                   *)
(*                                                                         *)
(* One iteration of the loop (external: Qt 4, glib and UNIX dispatchers)   *)
(* goes through the phases                                                 *)
(*   "posted"   queued events: finished downloads, DeferredDelete          *)
(*   "select"   the thread sleeps until a socket or a timer wakes it       *)
(*   "sockets"  the UDP socket has been read (once: onUdpSocketReadyRead   *)
(*              takes a single datagram)                                   *)
(*   "timers"   every timer that was due fires once                        *)
(* Handlers run to completion, so a handler is one action; what may happen *)
(* between two handlers is decided by the phases.                          *)
(***************************************************************************)
EXTENDS RootDevice

CONSTANTS
  Object,         \* addresses of RootDevice objects; bounds how many exist
  NoDevice,       \* the null pointer
  SearchTimeout,  \* searchTimeout of startDiscover(), in seconds
  Datagrams       \* the datagrams the network may deliver

UnsetAge == -1    \* unsetAge: the message had no MAX-AGE

(***************************************************************************)
(* What handleMessage() reads from a datagram.                             *)
(*   http      the first line is a NOTIFY or a 200 OK                      *)
(*   type      "ST" search answer, "NT" notification                       *)
(*   nts       the state a notification announces                          *)
(*   uuid      the uuid in the USN line, location: a LOCATION line exists  *)
(*   maxAge    the MAX-AGE value; any int, the code does not look at it    *)
(***************************************************************************)
Message ==
  [http : BOOLEAN, type : {"none", "ST", "NT"},
   nts : {"none", "alive", "byebye"}, uuid : Uuid \cup {NoUuid},
   location : BOOLEAN, maxAge : Int]

ASSUME NoDeviceAssumption == NoDevice \notin Object
ASSUME SearchTimeoutAssumption == SearchTimeout \in Nat
ASSUME DatagramsAssumption == Datagrams \subseteq Message

VARIABLES
  mDevices,         \* uuid -> RootDevice*, NoDevice where there is no entry
  mPendingDevices,  \* devices whose description is being downloaded
  device,           \* the heap: the RootDevice object at each address
  searchLeft,       \* time until onSearchTimeout(), NoTimer once it has run
  phase,            \* where the event loop is
  due,              \* objects whose timer event is still to be delivered
  emitted           \* the signal the last step of the watcher emitted

vars == <<mDevices, mPendingDevices, device, searchLeft, phase, due, emitted>>

Signal(name, o) == [signal |-> name, device |-> o]
Silence == Signal("none", NoDevice)

SignalNames ==
  {"none", "initialSearchCompleted", "deviceDiscovered", "deviceRemoved"}

Known(u) == mDevices[u] # NoDevice
devicesCountIsZero == \A u \in Uuid : ~ Known(u)

FreeObjects   == {o \in Object : device[o].life = "free"}
AliveObjects  == {o \in Object : device[o].life = "alive"}
DoomedObjects == {o \in Object : device[o].life = "doomed"}
DueObjects    == {o \in Object : IsDue(device[o])}
ReadyObjects  == {o \in Object : device[o].reply = "ready"}

-----------------------------------------------------------------------------
(***************************************************************************)
(* Constructor and startDiscover(): the search is out, its timer runs.     *)
(***************************************************************************)
Init ==
  /\ mDevices = [u \in Uuid |-> NoDevice]
  /\ mPendingDevices = {}
  /\ device = [o \in Object |-> Freed]
  /\ searchLeft = SearchTimeout * MsPerSec
  /\ phase = "select"
  /\ due = {}
  /\ emitted = Silence

-----------------------------------------------------------------------------
(***************************************************************************)
(* handleMessage().  A message without uuid or location is dropped; what   *)
(* a complete one does depends on whether its uuid is in mDevices, and     *)
(* never on mPendingDevices.                                               *)
(***************************************************************************)
IsComplete(m) == m.http /\ m.uuid # NoUuid /\ m.location

IsAlive(m)  == m.type = "NT" /\ m.nts = "alive"
IsByeBye(m) == m.type = "NT" /\ m.nts = "byebye"

\* Faulty variant: every notification of an unknown device counts.
DetectsAnyState(m) ==
  IsComplete(m) /\ ~ Known(m.uuid) /\ m.type # "none"

Detects(m) ==
  IsComplete(m) /\ ~ Known(m.uuid) /\ (IsAlive(m) \/ m.type = "ST")

Refreshes(m) ==
  IsComplete(m) /\ Known(m.uuid) /\ IsAlive(m) /\ m.maxAge # UnsetAge

Removes(m) == IsComplete(m) /\ Known(m.uuid) /\ IsByeBye(m)

\* A new RootDevice starts to download its description, at a free address.
DetectDevice(m) ==
  /\ Detects(m)
  /\ \E o \in FreeObjects :
       /\ device' = [device EXCEPT ![o] = Constructed(m.uuid, m.maxAge)]
       /\ mPendingDevices' = mPendingDevices \cup {o}
  /\ emitted' = Silence
  /\ UNCHANGED mDevices

RefreshDevice(m) ==
  /\ Refreshes(m)
  /\ device' = [device EXCEPT
                  ![mDevices[m.uuid]] = ResetCacheTimeOut(@, m.maxAge)]
  /\ emitted' = Silence
  /\ UNCHANGED <<mDevices, mPendingDevices>>

\* Faulty variant: the farewell is not passed on.
RemoveDeviceQuietly(m) ==
  /\ Removes(m)
  /\ LET o == mDevices[m.uuid] IN
       /\ mDevices' = [mDevices EXCEPT ![m.uuid] = NoDevice]
       /\ device' = [device EXCEPT ![o] = DeleteLater(@)]
  /\ emitted' = Silence
  /\ UNCHANGED mPendingDevices

RemoveDevice(m) ==
  /\ Removes(m)
  /\ LET o == mDevices[m.uuid] IN
       /\ mDevices' = [mDevices EXCEPT ![m.uuid] = NoDevice]
       /\ device' = [device EXCEPT ![o] = DeleteLater(@)]
       /\ emitted' = Signal("deviceRemoved", o)
  /\ UNCHANGED mPendingDevices

IgnoreMessage(m) ==
  /\ ~ Detects(m) /\ ~ Refreshes(m) /\ ~ Removes(m)
  /\ emitted' = Silence
  /\ UNCHANGED <<mDevices, mPendingDevices, device>>

\* onUdpSocketReadyRead(): one datagram per activation of the socket.
ReadDatagram(m) ==
  /\ phase = "select"
  /\ phase' = "sockets"
  /\ DetectDevice(m) \/ RefreshDevice(m) \/ RemoveDevice(m) \/ IgnoreMessage(m)
  /\ UNCHANGED <<searchLeft, due>>

-----------------------------------------------------------------------------
(***************************************************************************)
(* The description download.                                               *)
(***************************************************************************)

\* The network access manager queues finished(), in whatever phase the loop is.
FinishDownload(o) ==
  /\ device[o].reply = "loading"
  /\ device' = [device EXCEPT ![o].reply = "ready"]
  /\ emitted' = Silence
  /\ UNCHANGED <<mDevices, mPendingDevices, searchLeft, phase, due>>

(***************************************************************************)
(* onDeviceDescriptionDownloadReply() and, through its signal,             *)
(* onDeviceDescriptionDownloadDone().  The download or the parsing may     *)
(* have failed; and of several pending devices with one uuid the first to  *)
(* be done is kept.                                                        *)
(***************************************************************************)
DiscardPending(o) ==
  /\ device' = [device EXCEPT ![o] = DeleteLater(ReplyConsumed(@))]
  /\ emitted' = Silence
  /\ UNCHANGED mDevices

InsertPending(o) ==
  /\ mDevices' = [mDevices EXCEPT ![device[o].uuid] = o]
  /\ device' = [device EXCEPT ![o] = Connected(ReplyConsumed(@))]
  /\ emitted' = Signal("deviceDiscovered", o)

\* Faulty variant: the entry of the uuid is overwritten.
DeliverReplyUnchecked(o, success) ==
  /\ phase = "posted"
  /\ device[o].reply = "ready"
  /\ mPendingDevices' = mPendingDevices \ {o}
  /\ \/ ~ success /\ DiscardPending(o)
     \/ success /\ InsertPending(o)
  /\ UNCHANGED <<searchLeft, phase, due>>

\* Faulty variant: a failed download stays in mPendingDevices.
DeliverReplyKeepPending(o, success) ==
  /\ phase = "posted"
  /\ device[o].reply = "ready"
  /\ \/ /\ ~ success /\ DiscardPending(o)
        /\ UNCHANGED mPendingDevices
     \/ /\ success
        /\ mPendingDevices' = mPendingDevices \ {o}
        /\ IF Known(device[o].uuid) THEN DiscardPending(o) ELSE InsertPending(o)
  /\ UNCHANGED <<searchLeft, phase, due>>

DeliverReply(o, success) ==
  /\ phase = "posted"
  /\ device[o].reply = "ready"
  /\ mPendingDevices' = mPendingDevices \ {o}
  /\ \/ (~ success \/ Known(device[o].uuid)) /\ DiscardPending(o)
     \/ success /\ ~ Known(device[o].uuid) /\ InsertPending(o)
  /\ UNCHANGED <<searchLeft, phase, due>>

\* The DeferredDelete event that deleteLater() has queued.
DeferredDelete(o) ==
  /\ phase = "posted"
  /\ device[o].life = "doomed"
  /\ device' = [device EXCEPT ![o] = Freed]
  /\ emitted' = Silence
  /\ UNCHANGED <<mDevices, mPendingDevices, searchLeft, phase, due>>

-----------------------------------------------------------------------------
(***************************************************************************)
(* Timers.  A doomed object still receives its timer event, and a pending  *)
(* one is not connected yet, so that its event is lost.                    *)
(***************************************************************************)

\* Faulty variant: the entry stays.
OnCacheTimedOutKeepEntry(o) ==
  /\ device' = [device EXCEPT ![o] = DeleteLater(Reload(@))]
  /\ emitted' = Signal("deviceRemoved", o)
  /\ UNCHANGED mDevices

\* onCacheTimedOut(): the entry is found by uuid, the signal names the object.
OnCacheTimedOut(o) ==
  /\ mDevices' = [mDevices EXCEPT ![device[o].uuid] = NoDevice]
  /\ device' = [device EXCEPT ![o] = DeleteLater(Reload(@))]
  /\ emitted' = Signal("deviceRemoved", o)

MissCacheTimedOut(o) ==
  /\ device' = [device EXCEPT ![o] = Reload(@)]
  /\ emitted' = Silence
  /\ UNCHANGED mDevices

\* RootDevice::timerEvent()
FireCacheTimer(o) ==
  /\ phase = "timers"
  /\ o \in due
  /\ due' = due \ {o}
  /\ \/ device[o].connected /\ OnCacheTimedOut(o)
     \/ ~ device[o].connected /\ MissCacheTimedOut(o)
  /\ UNCHANGED <<mPendingDevices, searchLeft, phase>>

\* onSearchTimeout(), the slot of a single-shot timer.
FireSearchTimer ==
  /\ phase = "timers"
  /\ searchLeft = 0
  /\ searchLeft' = NoTimer
  /\ emitted' = Signal("initialSearchCompleted", NoDevice)
  /\ UNCHANGED <<mDevices, mPendingDevices, device, phase, due>>

-----------------------------------------------------------------------------
(***************************************************************************)
(* The event loop (external).                                              *)
(***************************************************************************)

\* The thread sleeps while nothing is ready.  A timer with interval 0 does not
\* stop time: its event is delivered in every iteration.
Tick ==
  /\ phase = "select"
  /\ ReadyObjects = {}
  /\ \A o \in DueObjects : device[o].interval = 0
  /\ searchLeft # 0
  /\ device' = [o \in Object |-> Elapse(device[o])]
  /\ searchLeft' = IF searchLeft > 0 THEN searchLeft - 1 ELSE searchLeft
  /\ emitted' = Silence
  /\ UNCHANGED <<mDevices, mPendingDevices, phase, due>>

Quiet == emitted' = Silence /\ UNCHANGED <<mDevices, mPendingDevices, device, searchLeft>>

\* Queued events are delivered until none is left.
EndPosted ==
  /\ phase = "posted"
  /\ ReadyObjects = {} /\ DoomedObjects = {}
  /\ phase' = "select"
  /\ Quiet /\ UNCHANGED due

\* select() returns; woken says that something else woke the thread, a D-Bus
\* call or a timer of another object.
EndSockets(woken) ==
  /\ \/ phase = "sockets"
     \/ /\ phase = "select"
        /\ woken \/ searchLeft = 0 \/ DueObjects # {} \/ ReadyObjects # {}
  /\ phase' = "timers"
  /\ due' = DueObjects
  /\ Quiet

EndTimers ==
  /\ phase = "timers"
  /\ due = {}
  /\ searchLeft # 0
  /\ phase' = "posted"
  /\ Quiet /\ UNCHANGED due

-----------------------------------------------------------------------------
Posted == EndPosted \/ \E o \in Object : DeferredDelete(o) \/ \E s \in BOOLEAN : DeliverReply(o, s)

Timers == FireSearchTimer \/ \E o \in Object : FireCacheTimer(o)

LoopStep == Posted \/ Timers \/ EndSockets(FALSE) \/ EndTimers

Next ==
  \/ \E m \in Datagrams : ReadDatagram(m)
  \/ \E o \in Object : FinishDownload(o)
  \/ LoopStep
  \/ EndSockets(TRUE)
  \/ Tick

Spec == Init /\ [][Next]_vars

-----------------------------------------------------------------------------
(***************************************************************************)
(* Properties.                                                             *)
(***************************************************************************)

\* The types of the variables; in particular that every timer stays an int.
TypeOK ==
  /\ mDevices \in [Uuid -> Object \cup {NoDevice}]
  /\ mPendingDevices \subseteq Object
  /\ device \in [Object -> RootDeviceState]
  /\ searchLeft \in Int
  /\ phase \in {"posted", "select", "sockets", "timers"}
  /\ due \subseteq Object
  /\ emitted \in [signal : SignalNames, device : Object \cup {NoDevice}]

\* Every RootDevice that is not deleted or about to be is held by exactly one
\* of mDevices and mPendingDevices, in mDevices once and under its own uuid; and
\* these hold no other object.  So no pointer of the watcher dangles, none is
\* deleted twice by the destructor, and no object is forgotten, although
\* onCacheTimedOut() removes whatever device is filed under the uuid.
Ownership ==
  /\ AliveObjects = mPendingDevices \cup {mDevices[u] : u \in {v \in Uuid : Known(v)}}
  /\ \A u \in Uuid : Known(u) => /\ mDevices[u] \notin mPendingDevices
                               /\ device[mDevices[u]].uuid = u

(***************************************************************************)
(* Why Ownership holds, step by step.  HeapInv is inductive:               *)
(*   - a download runs exactly for the pending devices, which are alive    *)
(*     and not connected to onCacheTimedOut() yet;                         *)
(*   - a device in mDevices is alive, under its uuid and connected;        *)
(*   - a device that is alive is in one of the two;                        *)
(*   - a deleted device that could still be timed out does so only before  *)
(*     its uuid can be used again.                                         *)
(***************************************************************************)
PendingDownloads ==
  \A o \in Object :
    /\ o \in mPendingDevices <=> device[o].reply # "none"
    /\ o \in mPendingDevices => device[o].life = "alive" /\ ~ device[o].connected

EntriesAreAlive ==
  \A u \in Uuid : Known(u) =>
    LET d == device[mDevices[u]] IN d.life = "alive" /\ d.uuid = u /\ d.connected

AliveAreHeld ==
  \A o \in Object : device[o].life = "alive" =>
    o \in mPendingDevices \/ \E u \in Uuid : mDevices[u] = o

LateTimersAreHarmless ==
  /\ phase = "select" => DoomedObjects = {}
  /\ \A o \in Object :
       /\ device[o].life = "free" => ~ device[o].connected
       /\ device[o].life # "free" => device[o].uuid \in Uuid
       /\ (phase \in {"sockets", "timers"} /\ device[o].life = "doomed" /\ device[o].connected)
            => ~ Known(device[o].uuid)

HeapInv ==
  PendingDownloads /\ EntriesAreAlive /\ AliveAreHeld /\ LateTimersAreHarmless

\* The cache never changes behind the back of those who listen to the watcher:
\* an entry that disappears is the device that deviceRemoved() names in the
\* same step, one that appears is announced by deviceDiscovered(), and no entry
\* is ever replaced by another device.
ChangesAreSignalled ==
  [][\A u \in Uuid : mDevices'[u] # mDevices[u] =>
        IF Known(u)
        THEN emitted' = Signal("deviceRemoved", mDevices[u]) /\ ~ Known(u)'
        ELSE emitted' = Signal("deviceDiscovered", mDevices'[u])]_vars

Leased(o) == device[o].interval # NoTimer /\ \E u \in Uuid : mDevices[u] = o

RefreshOf(o) ==
  \E m \in Datagrams : ReadDatagram(m) /\ Refreshes(m) /\ mDevices[m.uuid] = o

\* A listed device with a cache timer that falls silent is dropped, even when
\* its timer had run out, unheard, while it was still pending.
SilentDeviceExpires ==
  \A o \in Object : []<> ~ Leased(o) \/ []<><<RefreshOf(o)>>_vars
=============================================================================
