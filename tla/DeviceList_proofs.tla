------------------------ MODULE DeviceList_proofs ---------------------------
(***************************************************************************)
(* Proofs about DeviceList, for every set of uuids, addresses, datagrams   *)
(* and descriptions, and for every shutdown timeout.                       *)
(***************************************************************************)
EXTENDS DeviceList, SSDPWatcher_proofs

-----------------------------------------------------------------------------
(***************************************************************************)
(* The device list does not disturb the watcher it listens to.             *)
(***************************************************************************)

\* A step of the composition is a step of the watcher or leaves it alone.
LEMMA ListStepIsWatcherStep == [ListNext]_allVars => [Next]_vars
<1> SUFFICES ASSUME [ListNext]_allVars PROVE [Next]_vars
  OBVIOUS
<1>1. CASE ReadSSDP
  BY <1>1 DEF ReadSSDP, Next
<1>2. CASE Download
  BY <1>2 DEF Download, Next
<1>3. CASE ServeQuery
  BY <1>3 DEF ServeQuery, Query
<1>4. CASE ListPosted
  BY <1>4 DEF ListPosted, Next, LoopStep
<1>5. CASE ListTimers
  BY <1>5 DEF ListTimers, FireShutDownTimer, ListEndTimers, Next, LoopStep
<1>6. CASE ListEndSockets(FALSE)
  <2>1. EndSockets(FALSE) \/ EndSockets(TRUE)
    BY <1>6 DEF ListEndSockets, EndSockets
  <2> QED
    BY <2>1 DEF Next, LoopStep
<1>7. CASE ListTick
  BY <1>7 DEF ListTick, Next
<1>8. CASE UNCHANGED allVars
  BY <1>8 DEF allVars
<1> QED
  BY <1>1, <1>2, <1>3, <1>4, <1>5, <1>6, <1>7, <1>8 DEF ListNext, ListLoopStep

\* The watcher inside the device list behaves as SSDPWatcher says, so all that
\* is proved of the watcher holds in the composition too.
THEOREM ListImplementsWatcher == ListSpec => Spec
<1>1. ListInit => Init
  BY DEF ListInit
<1>2. [ListNext]_allVars => [Next]_vars
  BY ListStepIsWatcherStep
<1> QED
  BY <1>1, <1>2, PTL DEF ListSpec, Spec

\* So do the invariants of the watcher.
LEMMA ListHeapCorrect == ListSpec => [](TypeOK /\ HeapInv)
  BY ListImplementsWatcher, HeapCorrect, PTL

-----------------------------------------------------------------------------
(***************************************************************************)
(* What the watcher has done when it emits a signal: the slots of          *)
(* DeviceList rely on it.                                                  *)
(***************************************************************************)

Discovered ==
  LET o == emitted'.device IN
    /\ o \in Object /\ device[o].uuid \in Uuid
    /\ ~ Known(device[o].uuid)
    /\ mDevices' = [mDevices EXCEPT ![device[o].uuid] = o]

Removed ==
  LET o == emitted'.device IN
    /\ o \in Object /\ device[o].uuid \in Uuid
    /\ mDevices' = [mDevices EXCEPT ![device[o].uuid] = NoDevice]

SearchGoesOn == searchLeft' = NoTimer => searchLeft = NoTimer

SignalMeaning ==
  \/ emitted'.signal = "deviceDiscovered" /\ Discovered /\ SearchGoesOn
  \/ emitted'.signal = "deviceRemoved" /\ Removed /\ SearchGoesOn
  \/ emitted'.signal = "initialSearchCompleted" /\ mDevices' = mDevices
  \/ emitted'.signal = "none" /\ mDevices' = mDevices /\ SearchGoesOn

\* Every handler of the watcher changes the cache first and emits what it did.
LEMMA SignalsMean == TypeOK /\ HeapInv /\ Next => SignalMeaning
<1> SUFFICES ASSUME TypeOK, HeapInv, Next PROVE SignalMeaning
  OBVIOUS
<1> USE DEF SignalMeaning, SearchGoesOn, Signal, Silence
<1>1. ASSUME NEW m \in Datagrams, ReadDatagram(m) PROVE SignalMeaning
  <2>1. CASE RemoveDevice(m)
    <3> DEFINE o == mDevices[m.uuid]
    <3>1. m.uuid \in Uuid /\ Known(m.uuid)
      BY <2>1, DatagramsAssumption DEF RemoveDevice, Removes, IsComplete, Message
    <3>2. o \in Object /\ device[o].uuid = m.uuid
      BY <3>1, EntryIsObject DEF HeapInv, EntriesAreAlive
    <3>3. emitted' = Signal("deviceRemoved", o)
          /\ mDevices' = [mDevices EXCEPT ![m.uuid] = NoDevice]
      BY <2>1 DEF RemoveDevice
    <3> QED
      BY <1>1, <3>1, <3>2, <3>3 DEF Removed, ReadDatagram
  <2>2. CASE DetectDevice(m) \/ RefreshDevice(m) \/ IgnoreMessage(m)
    BY <1>1, <2>2 DEF DetectDevice, RefreshDevice, IgnoreMessage, ReadDatagram
  <2> QED
    BY <1>1, <2>1, <2>2 DEF ReadDatagram
<1>2. ASSUME NEW o \in Object, NEW s \in BOOLEAN, DeliverReply(o, s)
      PROVE  SignalMeaning
  <2>1. CASE DiscardPending(o)
    BY <1>2, <2>1 DEF DiscardPending, DeliverReply
  <2>2. CASE InsertPending(o) /\ ~ Known(device[o].uuid)
    <3>1. device[o].uuid \in Uuid
      BY <1>2 DEF DeliverReply, HeapInv, PendingDownloads, LateTimersAreHarmless
    <3>2. emitted' = Signal("deviceDiscovered", o)
          /\ mDevices' = [mDevices EXCEPT ![device[o].uuid] = o]
      BY <2>2 DEF InsertPending
    <3> QED
      BY <1>2, <2>2, <3>1, <3>2 DEF Discovered, DeliverReply
  <2> QED
    BY <1>2, <2>1, <2>2 DEF DeliverReply
<1>3. ASSUME NEW o \in Object, FireCacheTimer(o) PROVE SignalMeaning
  <2>1. CASE device[o].connected /\ OnCacheTimedOut(o)
    <3>1. device[o].uuid \in Uuid
      BY <1>3, <2>1, TimeOutHitsOwnEntry
    <3>2. emitted' = Signal("deviceRemoved", o)
          /\ mDevices' = [mDevices EXCEPT ![device[o].uuid] = NoDevice]
      BY <2>1 DEF OnCacheTimedOut
    <3> QED
      BY <1>3, <3>1, <3>2 DEF Removed, FireCacheTimer
  <2>2. CASE MissCacheTimedOut(o)
    BY <1>3, <2>2 DEF MissCacheTimedOut, FireCacheTimer
  <2> QED
    BY <1>3, <2>1, <2>2 DEF FireCacheTimer
<1>4. ASSUME NEW o \in Object, DeferredDelete(o) \/ FinishDownload(o)
      PROVE  SignalMeaning
  BY <1>4 DEF DeferredDelete, FinishDownload
<1>5. CASE FireSearchTimer
  BY <1>5 DEF FireSearchTimer
<1>6. CASE Tick
  BY <1>6 DEF Tick, TypeOK, NoTimer
<1>7. CASE EndPosted \/ (\E w \in BOOLEAN : EndSockets(w)) \/ EndTimers
  BY <1>7 DEF EndPosted, EndSockets, EndTimers, Quiet
<1> QED
  BY <1>1, <1>2, <1>3, <1>4, <1>5, <1>6, <1>7 DEF Next, LoopStep, Posted, Timers

-----------------------------------------------------------------------------
(***************************************************************************)
(* Type correctness.                                                       *)
(***************************************************************************)

OwnTypeOK ==
  /\ shutDownLeft \in NoTimer .. ShutDownInterval
  /\ gotInactiv \in BOOLEAN
  /\ reported \subseteq Udn
  /\ idle \in 0 .. ShutDownInterval

\* The shutdown interval is a natural number, so that its timer counts down.
LEMMA IntervalIsNat == ShutDownInterval \in Nat
  BY ShutDownTimeoutAssumption, MsPerSecAssumption DEF ShutDownInterval

\* The slots keep the types of DeviceList's own variables.
LEMMA SlotsType ==
  ASSUME OwnTypeOK, SignalMeaning, Slots
  PROVE  OwnTypeOK'
<1> USE DEF OwnTypeOK, NoTimer
<1>1. CASE emitted'.signal = "deviceDiscovered" /\ Discovered
  <2>1. Names(emitted'.device) \subseteq Udn
    BY <1>1, DescribedByAssumption DEF Names, Discovered
  <2> QED
    BY <1>1, <2>1, IntervalIsNat DEF Slots, OnDeviceDiscovered
<1>2. CASE emitted'.signal = "deviceRemoved"
  BY <1>2, IntervalIsNat DEF Slots, OnDeviceRemoved, StartShutDownTimerIfEmpty
<1>3. CASE emitted'.signal = "initialSearchCompleted"
  BY <1>3, IntervalIsNat DEF Slots, OnInitialSearchCompleted, StartShutDownTimerIfEmpty
<1>4. CASE emitted'.signal = "none"
  BY <1>4, IntervalIsNat DEF Slots
<1> QED
  BY <1>1, <1>2, <1>3, <1>4 DEF SignalMeaning

\* A step is a handler of the watcher with the slot it triggers, or DeviceList's
\* own: a query, the end of the countdown, the passing of time.
ListStep ==
  (Next /\ Slots) \/ ServeQuery \/ FireShutDownTimer \/ ListTick \/ UNCHANGED allVars

\* The phases of the event loop come down to steps of these kinds.
LEMMA ListStepKinds == [ListNext]_allVars => ListStep
<1> SUFFICES ASSUME ListNext
             PROVE  (Next /\ Slots) \/ ServeQuery \/ FireShutDownTimer \/ ListTick
  BY DEF ListStep
<1>1. CASE ReadSSDP \/ Download
  BY <1>1 DEF ReadSSDP, Download, Next
<1>2. CASE ListPosted
  BY <1>2 DEF ListPosted, Next, LoopStep
<1>3. CASE ListTimers
  BY <1>3 DEF ListTimers, ListEndTimers, Next, LoopStep
<1>4. CASE ListEndSockets(FALSE)
  <2>1. EndSockets(FALSE) \/ EndSockets(TRUE)
    BY <1>4 DEF ListEndSockets, EndSockets
  <2> QED
    BY <1>4, <2>1 DEF ListEndSockets, Next, LoopStep
<1> QED
  BY <1>1, <1>2, <1>3, <1>4 DEF ListNext, ListLoopStep

\* Every step keeps the types of DeviceList's own variables.
LEMMA OwnTypeStep ==
  TypeOK /\ HeapInv /\ OwnTypeOK /\ ListStep => OwnTypeOK'
<1> SUFFICES ASSUME TypeOK, HeapInv, OwnTypeOK, ListStep PROVE OwnTypeOK'
  OBVIOUS
<1>1. CASE Next /\ Slots
  BY <1>1, SignalsMean, SlotsType
<1>2. CASE ServeQuery
  BY <1>2, IntervalIsNat DEF ServeQuery, Query, OwnTypeOK, NoTimer
<1>3. CASE FireShutDownTimer
  BY <1>3, IntervalIsNat DEF FireShutDownTimer, OwnTypeOK, NoTimer
<1>4. CASE ListTick
  BY <1>4, IntervalIsNat DEF ListTick, OwnTypeOK, NoTimer
<1>5. CASE UNCHANGED allVars
  BY <1>5 DEF allVars, listVars, OwnTypeOK
<1> QED
  BY <1>1, <1>2, <1>3, <1>4, <1>5 DEF ListStep

\* The initial values are well-typed.
LEMMA OwnTypeInit == ListInit => OwnTypeOK
<1> SUFFICES ASSUME ListInit PROVE OwnTypeOK
  OBVIOUS
<1>1. shutDownLeft \in NoTimer .. ShutDownInterval /\ idle \in 0 .. ShutDownInterval
  BY IntervalIsNat DEF ListInit, NoTimer
<1>2. gotInactiv \in BOOLEAN /\ reported \subseteq Udn
  BY DEF ListInit
<1> QED
  BY <1>1, <1>2 DEF OwnTypeOK

\* DeviceList and the watcher in it keep the types of their variables: the
\* countdown stays within the configured interval.
THEOREM ListTypeCorrect == ListSpec => []ListTypeOK
<1>1. ListInit => OwnTypeOK
  BY OwnTypeInit
<1>2. TypeOK /\ HeapInv /\ OwnTypeOK /\ [ListNext]_allVars => OwnTypeOK'
  BY OwnTypeStep, ListStepKinds
<1>3. TypeOK /\ OwnTypeOK => ListTypeOK
  BY DEF OwnTypeOK, ListTypeOK
<1> QED
  BY <1>1, <1>2, <1>3, ListHeapCorrect, PTL DEF ListSpec

-----------------------------------------------------------------------------
(***************************************************************************)
(* The shutdown timer.                                                     *)
(***************************************************************************)

CountdownInv == NoCountdownWithDevices /\ CountdownWithoutDevices

\* A slot stops the countdown when a device was added and starts it when none
\* is left or the search has found none.
LEMMA SlotsCountdown ==
  ASSUME TypeOK, OwnTypeOK, CountdownInv, SignalMeaning, Slots
  PROVE  CountdownInv'
<1> USE DEF CountdownInv, NoCountdownWithDevices, CountdownWithoutDevices,
            devicesCountIsZero, Known, TypeOK
<1>1. gotInactiv' = gotInactiv
  BY DEF Slots
<1>2. CASE emitted'.signal = "deviceDiscovered" /\ Discovered
  <2>1. shutDownLeft' = NoTimer
    BY <1>2 DEF Slots, OnDeviceDiscovered
  <2>2. ~ devicesCountIsZero'
    BY <1>2, NoDeviceAssumption DEF Discovered
  <2> QED
    BY <2>1, <2>2
<1>3. CASE emitted'.signal = "deviceRemoved" /\ Removed /\ SearchGoesOn
  <2>1. StartShutDownTimerIfEmpty
    BY <1>3 DEF Slots, OnDeviceRemoved
  <2>2. devicesCountIsZero => devicesCountIsZero'
    BY <1>3 DEF Removed
  <2> QED
    BY <2>1, <2>2, IntervalIsNat DEF StartShutDownTimerIfEmpty, NoTimer
<1>4. CASE emitted'.signal = "initialSearchCompleted" /\ mDevices' = mDevices
  <2>1. StartShutDownTimerIfEmpty
    BY <1>4 DEF Slots, OnInitialSearchCompleted
  <2> QED
    BY <1>4, <2>1, IntervalIsNat DEF StartShutDownTimerIfEmpty, NoTimer
<1>5. CASE emitted'.signal = "none" /\ mDevices' = mDevices /\ SearchGoesOn
  BY <1>1, <1>5 DEF Slots, SearchGoesOn
<1> QED
  BY <1>2, <1>3, <1>4, <1>5 DEF SignalMeaning

\* Queries and the passing of time never stop a countdown or start one.
LEMMA CountdownStep ==
  TypeOK /\ HeapInv /\ OwnTypeOK /\ CountdownInv /\ [ListNext]_allVars => CountdownInv'
<1> SUFFICES ASSUME TypeOK, HeapInv, OwnTypeOK, CountdownInv, [ListNext]_allVars
             PROVE  CountdownInv'
  OBVIOUS
<1> USE DEF CountdownInv, NoCountdownWithDevices, CountdownWithoutDevices,
            devicesCountIsZero, Known
<1>1. CASE Next /\ Slots
  BY <1>1, SignalsMean, SlotsCountdown
<1>2. CASE ServeQuery
  BY <1>2, IntervalIsNat DEF ServeQuery, Query, vars, NoTimer
<1>3. CASE FireShutDownTimer
  BY <1>3 DEF FireShutDownTimer, vars
<1>4. CASE ListTick
  BY <1>4 DEF ListTick, Tick, OwnTypeOK, TypeOK, NoTimer
<1>5. CASE UNCHANGED allVars
  BY <1>5 DEF allVars, vars, listVars
<1> QED
  BY <1>1, <1>2, <1>3, <1>4, <1>5, ListStepKinds DEF ListStep

\* CountdownInv and what it needs hold in every reachable state.
LEMMA CountdownCorrect == ListSpec => []CountdownInv
<1>1. ListInit => OwnTypeOK /\ CountdownInv
  <2>1. ListInit => searchLeft # NoTimer
    BY SearchTimeoutAssumption, MsPerSecAssumption DEF ListInit, Init, NoTimer
  <2> QED
    BY <2>1, OwnTypeInit
    DEF CountdownInv, NoCountdownWithDevices, CountdownWithoutDevices, ListInit
<1>2. TypeOK /\ HeapInv /\ OwnTypeOK /\ CountdownInv /\ [ListNext]_allVars
        => OwnTypeOK' /\ CountdownInv'
  BY OwnTypeStep, CountdownStep, ListStepKinds
<1> QED
  BY <1>1, <1>2, ListHeapCorrect, PTL DEF ListSpec

\* The daemon never counts down to its shutdown while it lists a device.
THEOREM NoCountdownWithDevicesHolds == ListSpec => []NoCountdownWithDevices
  BY CountdownCorrect, PTL DEF CountdownInv

\* Once the search is over the daemon never sits without devices and without a
\* running countdown.
THEOREM CountdownWithoutDevicesHolds == ListSpec => []CountdownWithoutDevices
  BY CountdownCorrect, PTL DEF CountdownInv

-----------------------------------------------------------------------------
(***************************************************************************)
(* When the countdown ends.                                                *)
(***************************************************************************)

\* Whatever is left of the countdown and the time that has been idle make up the
\* whole timeout.
IdleInv == shutDownLeft # NoTimer => idle + shutDownLeft >= ShutDownInterval

CountedRestart == CountedQueries \subseteq {"allDevices", "devicesByParent"}

\* A slot only leaves a countdown alone if nothing has ended the idle time.
LEMMA SlotsIdle ==
  ASSUME TypeOK, OwnTypeOK, NoCountdownWithDevices, IdleInv, SignalMeaning, Slots
  PROVE  IdleInv'
<1> USE IntervalIsNat DEF IdleInv, NoCountdownWithDevices, devicesCountIsZero, Known, TypeOK,
        OwnTypeOK, NoTimer
<1> DEFINE zero == devicesCountIsZero
<1>0. /\ ShutDownInterval' = ShutDownInterval
      /\ idle' = IF zero' /\ zero THEN idle ELSE 0
  BY DEF Slots, ShutDownInterval
<1>1. CASE emitted'.signal = "deviceDiscovered"
  BY <1>1 DEF Slots, OnDeviceDiscovered
<1>2. CASE emitted'.signal = "deviceRemoved" /\ Removed
  <2>1. StartShutDownTimerIfEmpty
    BY <1>2 DEF Slots, OnDeviceRemoved
  <2>2. zero => zero'
    BY <1>2 DEF Removed
  <2>3. CASE shutsDownOnNoActivity /\ zero'
    BY <1>0, <2>1, <2>3 DEF StartShutDownTimerIfEmpty
  <2>4. CASE ~ shutsDownOnNoActivity
    <3>1. ShutDownInterval = 0
      BY <2>4, MsPerSecAssumption DEF shutsDownOnNoActivity, ShutDownInterval
    <3> QED
      BY <1>0, <2>1, <2>4, <3>1 DEF StartShutDownTimerIfEmpty
  <2>5. CASE ~ zero'
    BY <1>0, <2>1, <2>2, <2>5 DEF StartShutDownTimerIfEmpty
  <2> QED
    BY <2>3, <2>4, <2>5
<1>3. CASE emitted'.signal = "initialSearchCompleted" /\ mDevices' = mDevices
  <2>1. StartShutDownTimerIfEmpty
    BY <1>3 DEF Slots, OnInitialSearchCompleted
  <2>2. zero' = zero
    BY <1>3
  <2> QED
    BY <1>0, <2>1, <2>2 DEF StartShutDownTimerIfEmpty
<1>4. CASE emitted'.signal = "none" /\ mDevices' = mDevices
  <2>1. shutDownLeft' = shutDownLeft /\ zero' = zero
    BY <1>4 DEF Slots
  <2> QED
    BY <1>0, <2>1
<1> QED
  BY <1>1, <1>2, <1>3, <1>4 DEF SignalMeaning

\* Every step keeps the account.
LEMMA IdleStep ==
  ASSUME CountedRestart, TypeOK, HeapInv, OwnTypeOK, NoCountdownWithDevices, IdleInv, ListStep
  PROVE  IdleInv'
<1> USE IntervalIsNat DEF IdleInv, OwnTypeOK, NoTimer
<1>0. ShutDownInterval' = ShutDownInterval
  BY DEF ShutDownInterval
<1>1. CASE Next /\ Slots
  BY <1>1, SignalsMean, SlotsIdle
<1>2. CASE ServeQuery
  <2>1. PICK q \in Queries : Query(q)
    BY <1>2 DEF ServeQuery
  <2>2. q \in CountedQueries => RestartsTimer(q)
    BY DEF CountedRestart, RestartsTimer
  <2> QED
    BY <1>0, <2>1, <2>2 DEF Query
<1>3. CASE FireShutDownTimer
  BY <1>0, <1>3 DEF FireShutDownTimer
<1>4. CASE ListTick
  BY <1>0, <1>4 DEF ListTick, NoCountdownWithDevices
<1>5. CASE UNCHANGED allVars
  BY <1>0, <1>5 DEF allVars, listVars
<1> QED
  BY <1>1, <1>2, <1>3, <1>4, <1>5 DEF ListStep

\* Only the timeout of the countdown asks for the shutdown.
LEMMA OnlyCountdownAsks ==
  ASSUME TypeOK, OwnTypeOK, IdleInv, ListStep, gotInactiv' # gotInactiv
  PROVE  idle = ShutDownInterval
<1>1. FireShutDownTimer
  BY DEF ListStep, Slots, ServeQuery, Query, ListTick, allVars, listVars
<1> QED
  BY <1>1, IntervalIsNat DEF FireShutDownTimer, IdleInv, OwnTypeOK, NoTimer

\* The daemon asks for its shutdown only when it has been without devices and
\* without the queries that start the countdown again for the whole timeout.
THEOREM ShutDownOnlyAfterTimeoutHolds ==
  ASSUME CountedRestart
  PROVE  ListSpec => ShutDownOnlyAfterTimeout
<1> DEFINE Asked == gotInactiv' # gotInactiv => idle = ShutDownInterval
<1>1. ListInit => OwnTypeOK /\ IdleInv
  BY OwnTypeInit DEF ListInit, IdleInv
<1>2. TypeOK /\ HeapInv /\ NoCountdownWithDevices /\ OwnTypeOK /\ IdleInv /\ [ListNext]_allVars
        => OwnTypeOK' /\ IdleInv'
  BY OwnTypeStep, IdleStep, ListStepKinds
<1>3. TypeOK /\ OwnTypeOK /\ IdleInv /\ [ListNext]_allVars => [Asked]_allVars
  BY OnlyCountdownAsks, ListStepKinds
<1> QED
  BY <1>1, <1>2, <1>3, ListHeapCorrect, NoCountdownWithDevicesHolds, PTL
  DEF ListSpec, ShutDownOnlyAfterTimeout

-----------------------------------------------------------------------------
(***************************************************************************)
(* Clients.                                                                *)
(***************************************************************************)

DisjointDescriptions ==
  \A u, v \in Uuid : u # v => DescribedBy[u] \cap DescribedBy[v] = {}

\* The signals keep a client up to date, one handler at a time, if no two root
\* devices describe a device of the same name.
LEMMA ReportedStep ==
  ASSUME DisjointDescriptions, TypeOK, HeapInv, ReportedIsListed, [ListNext]_allVars
  PROVE  ReportedIsListed'
<1> USE DEF ReportedIsListed, Listed, Known, TypeOK
<1>1. CASE Next /\ Slots
  <2> DEFINE o == emitted'.device
  <2>1. SignalMeaning
    BY <1>1, SignalsMean
  <2>2. CASE emitted'.signal = "deviceDiscovered" /\ Discovered
    <3>1. reported' = reported \cup DescribedBy[device[o].uuid]
      BY <1>1, <2>2 DEF Slots, OnDeviceDiscovered, Names
    <3>2. Listed' = Listed \cup DescribedBy[device[o].uuid]
      BY <2>2, NoDeviceAssumption DEF Discovered
    <3> QED
      BY <3>1, <3>2
  <2>3. CASE emitted'.signal = "deviceRemoved" /\ Removed
    <3>1. reported' = reported \ DescribedBy[device[o].uuid]
      BY <1>1, <2>3 DEF Slots, OnDeviceRemoved, Names
    <3>2. Listed' = Listed \ DescribedBy[device[o].uuid]
      BY <2>3 DEF Removed, DisjointDescriptions
    <3> QED
      BY <3>1, <3>2
  <2>4. CASE mDevices' = mDevices /\ reported' = reported
    BY <2>4
  <2> QED
    BY <1>1, <2>1, <2>2, <2>3, <2>4
    DEF SignalMeaning, Slots, OnInitialSearchCompleted
<1>2. CASE ServeQuery \/ FireShutDownTimer \/ ListTick \/ UNCHANGED allVars
  <2>1. mDevices' = mDevices /\ reported' = reported
    BY <1>2 DEF ServeQuery, Query, FireShutDownTimer, ListTick, Tick, allVars, vars, listVars
  <2> QED
    BY <2>1
<1> QED
  BY <1>1, <1>2, ListStepKinds DEF ListStep

\* A client that applies devicesAdded and devicesRemoved in order holds exactly
\* the devices that allDevices would return, as long as no two root devices
\* describe a device of the same name.
THEOREM ReportedIsListedHolds ==
  ASSUME DisjointDescriptions
  PROVE  ListSpec => []ReportedIsListed
<1>1. ListInit => ReportedIsListed
  BY DEF ListInit, Init, ReportedIsListed, Listed, Known
<1>2. TypeOK /\ HeapInv /\ ReportedIsListed /\ [ListNext]_allVars => ReportedIsListed'
  BY ReportedStep
<1> QED
  BY <1>1, <1>2, ListHeapCorrect, PTL DEF ListSpec
=============================================================================
