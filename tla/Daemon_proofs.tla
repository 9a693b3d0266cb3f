---------------------------- MODULE Daemon_proofs ---------------------------
(***************************************************************************)
(* Proofs about Daemon: for every instance a crash or a shutdown at any    *)
(* point leaves no client with a device, and the daemon with its event     *)
(* loop, timers and objects implements DeviceCache.                        *)
(***************************************************************************)
EXTENDS Daemon, DeviceList_proofs

DaemonType == daemon \in {"down", "running", "quitting"}

\* Of a process that has gone no device is left, and no countdown.
DownIsEmpty == daemon = "down" => devicesCountIsZero /\ shutDownLeft = NoTimer

\* gotInactiv() is emitted in the timers phase, and no posted phase follows in
\* which a device could be added.
InactiveIsLast == gotInactiv => phase \in {"timers", "posted"} /\ daemon = "quitting"

DaemonInv ==
  /\ TypeOK /\ HeapInv /\ OwnTypeOK /\ DaemonType
  /\ DownIsEmpty
  /\ NoCountdownWithDevices
  /\ ReportedIsHeld
  /\ InactiveIsLast /\ InactiveStaysEmpty

-----------------------------------------------------------------------------
(***************************************************************************)
(* The steps of a daemon that serves, or finishes its last iteration, are  *)
(* steps of DeviceList.                                                    *)
(***************************************************************************)

\* What the last iteration still does is what DeviceList does.
LEMMA FinishIsListStep == FinishIteration => ListStep
<1> SUFFICES ASSUME FinishIteration PROVE ListStep
  OBVIOUS
<1> USE DEF ListStep
<1>1. CASE ReadSSDP \/ Download
  BY <1>1 DEF ReadSSDP, Download, Next
<1>2. CASE ServeQuery
  BY <1>2
<1>3. CASE ListTimers
  BY <1>3 DEF ListTimers, ListEndTimers, Next, LoopStep
<1>4. CASE ListEndSockets(TRUE)
  <2>1. EndSockets(TRUE) /\ Slots
    BY <1>4 DEF ListEndSockets, EndSockets
  <2> QED
    BY <2>1 DEF Next, LoopStep
<1> QED
  BY <1>1, <1>2, <1>3, <1>4 DEF FinishIteration

\* So is a step of the daemon that serves.
LEMMA ServeIsListStep == Serve => ListStep
  BY ListStepKinds DEF Serve

\* DeviceList's steps keep what the watcher and the device list rely on.
LEMMA ListStepKeeps ==
  ASSUME TypeOK, HeapInv, OwnTypeOK, ListStep
  PROVE  TypeOK' /\ HeapInv' /\ OwnTypeOK'
<1>1. [Next]_vars
  BY DEF ListStep, ServeQuery, Query, FireShutDownTimer, ListTick, Next, allVars
<1> QED
  BY <1>1, NextType, NextHeap, OwnTypeStep

-----------------------------------------------------------------------------
(***************************************************************************)
(* What a step of DeviceList means to clients, in terms of DeviceCache.    *)
(***************************************************************************)

Entries == {u \in Uuid : Known(u)}

CacheStep ==
  \E u \in Uuid :
    \/ /\ u \notin Entries /\ Entries' = Entries \cup {u}
       /\ reported' = reported \cup DescribedBy[u]
       /\ shutDownLeft' = NoTimer /\ phase = "posted"
    \/ /\ Entries' = Entries \ {u}
       /\ reported' = reported \ DescribedBy[u]
       /\ StartShutDownTimerIfEmpty

NoCacheStep == Entries' = Entries /\ reported' = reported

\* A device is added only in the posted phase.
LEMMA AddedWhenPosted ==
  TypeOK /\ Next /\ emitted'.signal = "deviceDiscovered" => phase = "posted"
<1> SUFFICES ASSUME TypeOK, Next, emitted'.signal = "deviceDiscovered" PROVE phase = "posted"
  OBVIOUS
<1> USE DEF Signal, Silence
<1>1. CASE \E m \in Datagrams : ReadDatagram(m)
  BY <1>1 DEF ReadDatagram, DetectDevice, RefreshDevice, RemoveDevice, IgnoreMessage
<1>2. CASE Timers
  BY <1>2 DEF Timers, FireSearchTimer, FireCacheTimer, OnCacheTimedOut, MissCacheTimedOut
<1>3. CASE Posted
  BY <1>3 DEF Posted, EndPosted, DeferredDelete, DeliverReply
<1>4. CASE \E o \in Object : FinishDownload(o)
  BY <1>4 DEF FinishDownload
<1>5. CASE Tick \/ EndTimers \/ \E w \in BOOLEAN : EndSockets(w)
  BY <1>5 DEF Tick, EndTimers, EndSockets, Quiet
<1> QED
  BY <1>1, <1>2, <1>3, <1>4, <1>5 DEF Next, LoopStep

\* Each handler, with its slot, changes the cache by one device or not at all.
LEMMA SlotsMean ==
  ASSUME TypeOK, HeapInv, Next, Slots
  PROVE  CacheStep \/ NoCacheStep
<1> DEFINE o == emitted'.device
<1>1. SignalMeaning
  BY SignalsMean
<1>2. CASE emitted'.signal = "deviceDiscovered" /\ Discovered
  <2> DEFINE u == device[o].uuid
  <2>1. u \in Uuid /\ u \notin Entries /\ Entries' = Entries \cup {u}
    BY <1>2, NoDeviceAssumption DEF Discovered, Entries, Known, TypeOK
  <2>2. reported' = reported \cup DescribedBy[u] /\ shutDownLeft' = NoTimer
    BY <1>2 DEF Slots, OnDeviceDiscovered, Names
  <2>3. phase = "posted"
    BY <1>2, AddedWhenPosted
  <2> QED
    BY <2>1, <2>2, <2>3 DEF CacheStep
<1>3. CASE emitted'.signal = "deviceRemoved" /\ Removed
  <2> DEFINE u == device[o].uuid
  <2>1. u \in Uuid /\ Entries' = Entries \ {u}
    BY <1>3 DEF Removed, Entries, Known, TypeOK
  <2>2. reported' = reported \ DescribedBy[u] /\ StartShutDownTimerIfEmpty
    BY <1>3 DEF Slots, OnDeviceRemoved, Names
  <2> QED
    BY <2>1, <2>2 DEF CacheStep
<1>4. CASE emitted'.signal = "initialSearchCompleted" /\ mDevices' = mDevices
  BY <1>4 DEF Slots, OnInitialSearchCompleted, NoCacheStep, Entries, Known
<1>5. CASE emitted'.signal = "none" /\ mDevices' = mDevices
  BY <1>5 DEF Slots, NoCacheStep, Entries, Known
<1> QED
  BY <1>1, <1>2, <1>3, <1>4, <1>5 DEF SignalMeaning

\* So does every step of DeviceList.
LEMMA ListStepMeans ==
  ASSUME TypeOK, HeapInv, ListStep
  PROVE  CacheStep \/ NoCacheStep
<1>1. CASE Next /\ Slots
  BY <1>1, SlotsMean
<1>2. CASE ServeQuery \/ FireShutDownTimer \/ ListTick \/ UNCHANGED allVars
  BY <1>2 DEF ServeQuery, Query, FireShutDownTimer, ListTick, Tick, allVars, vars, listVars,
              NoCacheStep, Entries, Known
<1> QED
  BY <1>1, <1>2 DEF ListStep

-----------------------------------------------------------------------------
(***************************************************************************)
(* DaemonInv is inductive.                                                 *)
(***************************************************************************)

\* The countdown stays with a cache that is empty.
LEMMA ListStepCountdown ==
  ASSUME TypeOK, HeapInv, OwnTypeOK, NoCountdownWithDevices, ListStep
  PROVE  NoCountdownWithDevices'
<1> USE DEF NoCountdownWithDevices, devicesCountIsZero, Known
<1>1. CASE Next /\ Slots
  <2>1. SignalMeaning
    BY <1>1, SignalsMean
  <2>2. CASE emitted'.signal = "deviceDiscovered"
    BY <1>1, <2>2 DEF Slots, OnDeviceDiscovered
  <2>3. CASE emitted'.signal = "deviceRemoved" /\ Removed
    <3>1. devicesCountIsZero => devicesCountIsZero'
      BY <2>3 DEF Removed, TypeOK
    <3>2. StartShutDownTimerIfEmpty
      BY <1>1, <2>3 DEF Slots, OnDeviceRemoved
    <3> QED
      BY <3>1, <3>2 DEF StartShutDownTimerIfEmpty
  <2>4. CASE emitted'.signal = "initialSearchCompleted" /\ mDevices' = mDevices
    BY <1>1, <2>4 DEF Slots, OnInitialSearchCompleted, StartShutDownTimerIfEmpty
  <2>5. CASE emitted'.signal = "none" /\ mDevices' = mDevices
    BY <1>1, <2>5 DEF Slots
  <2> QED
    BY <2>1, <2>2, <2>3, <2>4, <2>5 DEF SignalMeaning
<1>2. CASE ServeQuery
  BY <1>2 DEF ServeQuery, Query, vars
<1>3. CASE FireShutDownTimer
  BY <1>3 DEF FireShutDownTimer
<1>4. CASE ListTick
  BY <1>4 DEF ListTick, Tick, OwnTypeOK, NoTimer
<1>5. CASE UNCHANGED allVars
  BY <1>5 DEF allVars, vars, listVars
<1> QED
  BY <1>1, <1>2, <1>3, <1>4, <1>5 DEF ListStep

\* Clients hold no more than the cache does.
LEMMA ListStepReported ==
  ASSUME TypeOK, HeapInv, ReportedIsHeld, ListStep
  PROVE  ReportedIsHeld'
<1> USE DEF ReportedIsHeld
<1>1. Listed = UNION {DescribedBy[u] : u \in Entries}
  BY DEF Listed, Entries
<1>2. Listed' = UNION {DescribedBy[u] : u \in Entries'}
  BY DEF Listed, Entries
<1>3. CASE CacheStep
  BY <1>1, <1>2, <1>3 DEF CacheStep
<1>4. CASE NoCacheStep
  BY <1>1, <1>2, <1>4 DEF NoCacheStep
<1> QED
  BY <1>3, <1>4, ListStepMeans

\* gotInactiv() is emitted in the timers phase, with an empty cache.
LEMMA InactiveWhenEmpty ==
  ASSUME TypeOK, NoCountdownWithDevices, ListStep, gotInactiv' # gotInactiv
  PROVE  phase' = "timers" /\ devicesCountIsZero /\ mDevices' = mDevices
<1>1. FireShutDownTimer
  BY DEF ListStep, Slots, ServeQuery, Query, ListTick, allVars, listVars
<1> QED
  BY <1>1 DEF FireShutDownTimer, vars, NoCountdownWithDevices, NoTimer

\* The last iteration goes from the timers to the posted phase and stops there.
LEMMA FinishPhases ==
  ASSUME TypeOK, HeapInv, FinishIteration, phase \in {"timers", "posted"}
  PROVE  /\ phase' \in {"timers", "posted"}
         /\ phase = "posted" => mDevices' = mDevices
<1>1. CASE ReadSSDP
  BY <1>1 DEF ReadSSDP, ReadDatagram
<1>2. CASE Download
  BY <1>2 DEF Download, FinishDownload
<1>3. CASE ServeQuery
  BY <1>3 DEF ServeQuery, Query
<1>4. CASE ListTimers
  BY <1>4 DEF ListTimers, Timers, FireCacheTimer, FireSearchTimer, FireShutDownTimer,
              ListEndTimers, EndTimers, vars
<1>5. CASE ListEndSockets(TRUE)
  BY <1>5 DEF ListEndSockets, EndSockets
<1> QED
  BY <1>1, <1>2, <1>3, <1>4, <1>5 DEF FinishIteration

\* An empty cache stays empty, unless a posted event adds a device.
LEMMA EmptyStaysEmpty ==
  ASSUME TypeOK, HeapInv, ListStep, devicesCountIsZero,
         phase # "posted" \/ mDevices' = mDevices
  PROVE  devicesCountIsZero'
<1>1. devicesCountIsZero = (Entries = {}) /\ devicesCountIsZero' = (Entries' = {})
  BY DEF devicesCountIsZero, Entries
<1>2. mDevices' = mDevices => Entries' = Entries
  BY DEF Entries, Known
<1> QED
  BY <1>1, <1>2, ListStepMeans DEF CacheStep, NoCacheStep

\* A process that serves stops serving when gotInactiv() is emitted.
LEMMA ServeKeeps ==
  ASSUME DaemonInv, Serve
  PROVE  DaemonInv'
<1> USE DEF DaemonInv
<1>1. ListStep
  BY ServeIsListStep
<1>2. TypeOK' /\ HeapInv' /\ OwnTypeOK' /\ NoCountdownWithDevices' /\ ReportedIsHeld'
  BY <1>1, ListStepKeeps, ListStepCountdown, ListStepReported
<1>3. daemon = "running" /\ ~ gotInactiv /\ daemon' = IF gotInactiv' THEN "quitting" ELSE "running"
  BY DEF Serve, QuitIfInactive, InactiveIsLast
<1>4. DaemonType' /\ DownIsEmpty'
  BY <1>3 DEF DaemonType, DownIsEmpty
<1>5. CASE gotInactiv'
  <2>1. phase' = "timers" /\ devicesCountIsZero'
    BY <1>1, <1>3, <1>5, InactiveWhenEmpty DEF devicesCountIsZero, Known
  <2> QED
    BY <1>2, <1>3, <1>4, <1>5, <2>1 DEF InactiveIsLast, InactiveStaysEmpty
<1>6. CASE ~ gotInactiv'
  BY <1>2, <1>4, <1>6 DEF InactiveIsLast, InactiveStaysEmpty
<1> QED
  BY <1>5, <1>6

\* The rest of the last iteration adds nothing to an empty cache.
LEMMA FinishKeeps ==
  ASSUME DaemonInv, FinishIteration
  PROVE  DaemonInv'
<1> USE DEF DaemonInv
<1>1. ListStep
  BY FinishIsListStep
<1>2. TypeOK' /\ HeapInv' /\ OwnTypeOK' /\ NoCountdownWithDevices' /\ ReportedIsHeld'
  BY <1>1, ListStepKeeps, ListStepCountdown, ListStepReported
<1>3. daemon = "quitting" /\ daemon' = "quitting"
  BY DEF FinishIteration
<1>4. DaemonType' /\ DownIsEmpty'
  BY <1>3 DEF DaemonType, DownIsEmpty
<1>5. CASE gotInactiv /\ gotInactiv'
  <2>1. phase \in {"timers", "posted"} /\ devicesCountIsZero
    BY <1>5 DEF InactiveIsLast, InactiveStaysEmpty
  <2>2. phase' \in {"timers", "posted"} /\ (phase = "posted" => mDevices' = mDevices)
    BY <2>1, FinishPhases
  <2>3. devicesCountIsZero'
    BY <1>1, <2>1, <2>2, EmptyStaysEmpty
  <2> QED
    BY <1>2, <1>3, <1>4, <2>2, <2>3 DEF InactiveIsLast, InactiveStaysEmpty
<1>6. CASE ~ gotInactiv /\ gotInactiv'
  <2>1. phase' = "timers" /\ devicesCountIsZero'
    BY <1>1, <1>6, InactiveWhenEmpty DEF devicesCountIsZero, Known
  <2> QED
    BY <1>2, <1>3, <1>4, <2>1 DEF InactiveIsLast, InactiveStaysEmpty
<1>7. CASE ~ gotInactiv'
  BY <1>2, <1>4, <1>7 DEF InactiveIsLast, InactiveStaysEmpty
<1> QED
  BY <1>5, <1>6, <1>7

\* A process that ends leaves nothing behind, and clients have nothing of it.
LEMMA EndKeeps ==
  ASSUME ProcessEnds, reported' = {}
  PROVE  DaemonInv'
<1> USE DEF ProcessEnds
<1>1. devicesCountIsZero' /\ \A u \in Uuid : mDevices'[u] = NoDevice
  BY DEF devicesCountIsZero, Known
<1>2. TypeOK'
  <2>1. device' \in [Object -> RootDeviceState]
    BY NewRootDevices
  <2>2. mDevices' \in [Uuid -> Object \cup {NoDevice}] /\ searchLeft' \in Int
    BY DEF NoTimer
  <2>3. emitted' \in [signal : SignalNames, device : Object \cup {NoDevice}]
    BY DEF Silence, Signal, SignalNames
  <2> QED
    BY <2>1, <2>2, <2>3 DEF TypeOK
<1>3. HeapInv'
  BY <1>1 DEF HeapInv, PendingDownloads, EntriesAreAlive, AliveAreHeld,
              LateTimersAreHarmless, Freed, Known, DoomedObjects
<1>4. OwnTypeOK'
  <2>1. shutDownLeft' \in NoTimer .. ShutDownInterval' /\ idle' \in 0 .. ShutDownInterval'
    BY IntervalIsNat DEF NoTimer, ShutDownInterval
  <2> QED
    BY <2>1 DEF OwnTypeOK
<1>5. daemon' = "down" /\ shutDownLeft' = NoTimer /\ ~ gotInactiv'
  OBVIOUS
<1> QED
  BY <1>1, <1>2, <1>3, <1>4, <1>5
  DEF DaemonInv, DaemonType, DownIsEmpty, NoCountdownWithDevices, ReportedIsHeld,
      InactiveIsLast, InactiveStaysEmpty

\* A process that is started finds nothing of the one before it.
LEMMA StartKeeps ==
  ASSUME DaemonInv, Start
  PROVE  DaemonInv'
<1> USE DEF DaemonInv, Start, listVars
<1>1. SearchTimeout * MsPerSec \in Int
  BY SearchTimeoutAssumption, MsPerSecAssumption
<1>2. TypeOK'
  BY <1>1 DEF TypeOK
<1>3. HeapInv'
  BY DEF HeapInv, PendingDownloads, EntriesAreAlive, AliveAreHeld, LateTimersAreHarmless,
         Known, DoomedObjects
<1>4. OwnTypeOK' /\ NoCountdownWithDevices' /\ ReportedIsHeld'
  BY DEF OwnTypeOK, NoCountdownWithDevices, ReportedIsHeld, ShutDownInterval,
         devicesCountIsZero, Listed, Known
<1>5. DaemonType' /\ DownIsEmpty'
  BY DEF DaemonType, DownIsEmpty
<1>6. ~ gotInactiv'
  BY DEF InactiveStaysEmpty
<1> QED
  BY <1>2, <1>3, <1>4, <1>5, <1>6 DEF InactiveIsLast, InactiveStaysEmpty

\* quit() touches neither the cache nor the timers.
LEMMA QuitKeeps ==
  ASSUME DaemonInv, ShutDown
  PROVE  DaemonInv'
<1> USE DEF DaemonInv, ShutDown, allVars, vars, listVars
<1>1. TypeOK' /\ HeapInv'
  BY DEF TypeOK, HeapInv, PendingDownloads, EntriesAreAlive, AliveAreHeld,
         LateTimersAreHarmless, Known, DoomedObjects
<1>2. OwnTypeOK' /\ NoCountdownWithDevices' /\ ReportedIsHeld'
  BY DEF OwnTypeOK, NoCountdownWithDevices, ReportedIsHeld, ShutDownInterval,
         devicesCountIsZero, Listed, Known
<1>3. DaemonType' /\ DownIsEmpty'
  BY DEF DaemonType, DownIsEmpty
<1>4. InactiveIsLast' /\ InactiveStaysEmpty'
  BY DEF InactiveIsLast, InactiveStaysEmpty, devicesCountIsZero, Known
<1> QED
  BY <1>1, <1>2, <1>3, <1>4

\* A process in its first moment has neither devices nor a countdown.
LEMMA DaemonInvInit == DaemonInit => DaemonInv
<1> SUFFICES ASSUME DaemonInit PROVE DaemonInv
  OBVIOUS
<1> USE DEF DaemonInit, ListInit
<1>1. TypeOK /\ HeapInv /\ OwnTypeOK
  BY InitType, InitHeap, OwnTypeInit
<1>2. devicesCountIsZero /\ shutDownLeft = NoTimer /\ reported = {} /\ ~ gotInactiv
  BY DEF Init, devicesCountIsZero, Known
<1> QED
  BY <1>1, <1>2 DEF DaemonInv, DaemonType, DownIsEmpty, NoCountdownWithDevices,
                    ReportedIsHeld, InactiveIsLast, InactiveStaysEmpty

\* What exec() leaves listed is signed off, and clients hold nothing else.
LEMMA ExitLeavesNothing ==
  ReportedIsHeld /\ Exit => ProcessEnds /\ reported' = {}
  BY DEF ReportedIsHeld, Exit

\* No step of the daemon, its last ones included, breaks DaemonInv.
LEMMA DaemonInvStep == DaemonInv /\ [DaemonNext]_daemonVars => DaemonInv'
<1> SUFFICES ASSUME DaemonInv, [DaemonNext]_daemonVars PROVE DaemonInv'
  OBVIOUS
<1>1. CASE Serve
  BY <1>1, ServeKeeps
<1>2. CASE FinishIteration
  BY <1>2, FinishKeeps
<1>3. CASE ShutDown
  BY <1>3, QuitKeeps
<1>4. CASE Exit
  BY <1>4, ExitLeavesNothing, EndKeeps DEF DaemonInv
<1>5. CASE Crash
  BY <1>5, EndKeeps DEF Crash
<1>6. CASE Start
  BY <1>6, StartKeeps
<1>7. CASE UNCHANGED daemonVars
  <2> USE <1>7 DEF daemonVars, allVars, vars, listVars
  <2>1. TypeOK' /\ HeapInv'
    BY DEF DaemonInv, TypeOK, HeapInv, PendingDownloads, EntriesAreAlive, AliveAreHeld,
           LateTimersAreHarmless, Known, DoomedObjects
  <2>2. OwnTypeOK' /\ NoCountdownWithDevices' /\ ReportedIsHeld'
    BY DEF DaemonInv, OwnTypeOK, NoCountdownWithDevices, ReportedIsHeld, ShutDownInterval,
           devicesCountIsZero, Listed, Known
  <2> QED
    BY <2>1, <2>2 DEF DaemonInv, DaemonType, DownIsEmpty, InactiveIsLast, InactiveStaysEmpty,
                      devicesCountIsZero, Known
<1> QED
  BY <1>1, <1>2, <1>3, <1>4, <1>5, <1>6, <1>7 DEF DaemonNext

\* DaemonInv holds throughout the life of the daemon.
LEMMA DaemonCorrect == DaemonSpec => []DaemonInv
  BY DaemonInvInit, DaemonInvStep, PTL DEF DaemonSpec

\* Types: the timers of a daemon that is started again and again stay within
\* their bounds.
THEOREM DaemonTypeCorrect == DaemonSpec => []DaemonTypeOK
<1>1. DaemonInv => DaemonTypeOK
  BY DEF DaemonInv, DaemonTypeOK, ListTypeOK, OwnTypeOK, DaemonType
<1> QED
  BY <1>1, DaemonCorrect, PTL

\* Clients hold no device that the cache does not have, although onDeviceRemoved()
\* may speak of a device that has gone, and although descriptions may overlap.
THEOREM ReportedIsHeldHolds == DaemonSpec => []ReportedIsHeld
<1>1. DaemonInv => ReportedIsHeld
  BY DEF DaemonInv
<1> QED
  BY <1>1, DaemonCorrect, PTL

\* Neither a shutdown nor a crash leaves a client with a device.
THEOREM DownMeansNothingReportedHolds == DaemonSpec => []DownMeansNothingReported
<1>1. DaemonInv => DownMeansNothingReported
  BY DEF DaemonInv, DownMeansNothingReported, DownIsEmpty, ReportedIsHeld, Listed,
         devicesCountIsZero
<1> QED
  BY <1>1, DaemonCorrect, PTL

\* After gotInactiv() no device slips into the cache before the process ends.
THEOREM InactiveStaysEmptyHolds == DaemonSpec => []InactiveStaysEmpty
<1>1. DaemonInv => InactiveStaysEmpty
  BY DEF DaemonInv
<1> QED
  BY <1>1, DaemonCorrect, PTL

-----------------------------------------------------------------------------
(***************************************************************************)
(* The refinement: a step of the daemon is a step of DeviceCache or none.  *)
(***************************************************************************)

\* What the running process does is one change of the cache or none.
LEMMA ListStepServes ==
  ASSUME DaemonInv, ListStep, daemon # "down", daemon' # "down"
  PROVE  [Service!Next]_Service!cacheVars
<1> USE DEF Service!Next, Service!cacheVars, Service!Appear, Service!Vanish,
            Service!VanishAgain, Entries
<1>1. CASE CacheStep
  <2>1. PICK u \in Uuid :
          \/ /\ u \notin Entries /\ Entries' = Entries \cup {u}
             /\ reported' = reported \cup DescribedBy[u]
          \/ Entries' = Entries \ {u} /\ reported' = reported \ DescribedBy[u]
    BY <1>1 DEF CacheStep
  <2>2. CASE u \in Entries
    BY <2>1, <2>2
  <2>3. CASE u \notin Entries
    BY <2>1, <2>3
  <2> QED
    BY <2>2, <2>3
<1>2. CASE NoCacheStep
  BY <1>2 DEF NoCacheStep
<1> QED
  BY <1>1, <1>2, ListStepMeans DEF DaemonInv

\* The end of a process takes all entries at once.
LEMMA EndOfService ==
  ASSUME ProcessEnds, daemon # "down"
  PROVE  /\ reported' = reported \ Listed => Service!SignOff
         /\ reported' = {} => Service!Crash
<1>1. {u \in Uuid : Known(u)}' = {} /\ daemon' = "down"
  BY DEF ProcessEnds, Known
<1> QED
  BY <1>1 DEF Service!SignOff, Service!Crash, Service!Listed, Listed

\* Every step of the daemon is one that DeviceCache allows.
LEMMA DaemonStepServes ==
  DaemonInv /\ [DaemonNext]_daemonVars => [Service!Next]_Service!cacheVars
<1> SUFFICES ASSUME DaemonInv, [DaemonNext]_daemonVars
             PROVE  [Service!Next]_Service!cacheVars
  OBVIOUS
<1>1. CASE Serve
  BY <1>1, ServeIsListStep, ListStepServes DEF Serve, QuitIfInactive
<1>2. CASE FinishIteration
  BY <1>2, FinishIsListStep, ListStepServes DEF FinishIteration
<1>3. CASE Exit
  BY <1>3, EndOfService DEF Exit, Service!Next
<1>4. CASE Crash
  BY <1>4, EndOfService DEF Crash, Service!Next
<1>5. CASE Start
  BY <1>5 DEF Start, listVars, Service!Start, Service!Next, Known
<1>6. CASE ShutDown \/ UNCHANGED daemonVars
  BY <1>6 DEF ShutDown, daemonVars, allVars, vars, listVars, Service!cacheVars, Known
<1> QED
  BY <1>1, <1>2, <1>3, <1>4, <1>5, <1>6 DEF DaemonNext

\* The daemon, with its event loop, timers, downloads, shutdowns and crashes,
\* implements the service that Client relies on.
THEOREM DaemonImplementsDeviceCache == DaemonSpec => ImplementsDeviceCache
<1>1. DaemonInit => Service!Init
  BY DEF DaemonInit, ListInit, Init, Service!Init, Known
<1> QED
  BY <1>1, DaemonStepServes, DaemonCorrect, PTL
  DEF DaemonSpec, ImplementsDeviceCache, Service!Spec
=============================================================================
