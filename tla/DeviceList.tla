----------------------------- MODULE DeviceList -----------------------------
(***************************************************************************)
(* The object behind org.kde.Cagibi.DeviceList (src/daemon/devicelist.cpp):*)
(* it answers the queries of D-Bus clients from the watcher's cache, turns *)
(* the watcher's signals into devicesAdded / devicesRemoved, and runs the  *)
(* timer that asks for a shutdown when nothing is going on.                *)
(*                                                                         *)
(* The watcher's signals are direct connections: the slot runs inside the  *)
(* handler that emits, so a step of the watcher and the slot it triggers   *)
(* are one step here (Slots reads emitted').                               *)
(***************************************************************************)
EXTENDS SSDPWatcher

CONSTANTS
  Udn,              \* device names: the keys of a DeviceTypeMap
  DescribedBy,      \* uuid -> names in the description its LOCATION leads to
  ShutDownTimeout,  \* mShutDownTimeout in seconds, 0: never shut down
  CountedQueries    \* the queries that count as activity of clients

Queries == {"allDevices", "devicesByParent", "devicesByType", "deviceDetails"}

ASSUME DescribedByAssumption == DescribedBy \in [Uuid -> SUBSET Udn]
ASSUME ShutDownTimeoutAssumption == ShutDownTimeout \in Nat
ASSUME CountedQueriesAssumption == CountedQueries \subseteq Queries

VARIABLES
  shutDownLeft,   \* time left of mShutDownTimer, NoTimer while it is inactive
  gotInactiv,     \* the signal gotInactiv() has been emitted
  reported,       \* history: names a client holds that applied every signal
  idle            \* history: time without devices and counted queries

listVars == <<shutDownLeft, gotInactiv, reported, idle>>
allVars == <<vars, listVars>>

ShutDownInterval == ShutDownTimeout * MsPerSec
shutsDownOnNoActivity == ShutDownTimeout # 0

\* fillMap() over the devices that are listed, by allDevices() for one.
Listed == UNION {DescribedBy[u] : u \in {v \in Uuid : Known(v)}}

ListInit ==
  /\ Init
  /\ shutDownLeft = NoTimer
  /\ gotInactiv = FALSE
  /\ reported = {}
  /\ idle = 0

-----------------------------------------------------------------------------
(***************************************************************************)
(* The slots.  The handler has changed mDevices before it emits, so they   *)
(* count the devices of the new state.                                     *)
(***************************************************************************)

StartShutDownTimerIfEmpty ==
  shutDownLeft' = IF shutsDownOnNoActivity /\ devicesCountIsZero'
                  THEN ShutDownInterval ELSE shutDownLeft

\* Faulty variant: the countdown only begins when a device has disappeared.
SearchCompletedUnnoticed == UNCHANGED <<shutDownLeft, reported>>

OnInitialSearchCompleted ==
  /\ StartShutDownTimerIfEmpty
  /\ UNCHANGED reported

\* The names of the description that was downloaded for the device.
Names(o) == DescribedBy[device[o].uuid]

\* Faulty variant: the countdown goes on.
DiscoveredWithoutStop(o) ==
  /\ UNCHANGED shutDownLeft
  /\ reported' = reported \cup Names(o)

OnDeviceDiscovered(o) ==
  /\ shutDownLeft' = NoTimer
  /\ reported' = reported \cup Names(o)

\* Faulty variant: the countdown is not started.
RemovedWithoutStart(o) ==
  /\ UNCHANGED shutDownLeft
  /\ reported' = reported \ Names(o)

OnDeviceRemoved(o) ==
  /\ StartShutDownTimerIfEmpty
  /\ reported' = reported \ Names(o)

Slots ==
  /\ CASE emitted'.signal = "initialSearchCompleted" -> OnInitialSearchCompleted
       [] emitted'.signal = "deviceDiscovered" -> OnDeviceDiscovered(emitted'.device)
       [] emitted'.signal = "deviceRemoved" -> OnDeviceRemoved(emitted'.device)
       [] emitted'.signal = "none" -> UNCHANGED <<shutDownLeft, reported>>
  /\ idle' = IF devicesCountIsZero' /\ devicesCountIsZero THEN idle ELSE 0
  /\ UNCHANGED gotInactiv

-----------------------------------------------------------------------------
(***************************************************************************)
(* D-Bus queries.  The names they return are those of Listed and are not   *)
(* modelled further here; allDevices() and devicesByParent() start an      *)
(* active shutdown timer again.                                            *)
(***************************************************************************)
\* Faulty variant: devicesByParent() is forgotten.
RestartsTimerOnAll(query) == query = "allDevices"

RestartsTimer(query) == query \in {"allDevices", "devicesByParent"}

\* Faulty variant: the countdown is prolonged, not started again.
QueryProlongs(query) ==
  /\ phase \in {"select", "sockets"}
  /\ shutDownLeft' = IF RestartsTimer(query) /\ shutDownLeft # NoTimer
                     THEN shutDownLeft + ShutDownInterval ELSE shutDownLeft
  /\ idle' = IF query \in CountedQueries THEN 0 ELSE idle
  /\ UNCHANGED <<vars, gotInactiv, reported>>

Query(query) ==
  /\ phase \in {"select", "sockets"}
  /\ shutDownLeft' = IF RestartsTimer(query) /\ shutDownLeft # NoTimer
                     THEN ShutDownInterval ELSE shutDownLeft
  /\ idle' = IF query \in CountedQueries THEN 0 ELSE idle
  /\ UNCHANGED <<vars, gotInactiv, reported>>

\* timeout() of the single-shot timer is connected to gotInactiv().
FireShutDownTimer ==
  /\ phase = "timers"
  /\ shutDownLeft = 0
  /\ shutDownLeft' = NoTimer
  /\ gotInactiv' = TRUE
  /\ UNCHANGED <<vars, reported, idle>>

-----------------------------------------------------------------------------
(***************************************************************************)
(* The event loop, with the third kind of timer.                           *)
(***************************************************************************)

\* idle is counted up to the point where it makes a difference.
ListTick ==
  /\ shutDownLeft # 0
  /\ Tick
  /\ shutDownLeft' = IF shutDownLeft > 0 THEN shutDownLeft - 1 ELSE shutDownLeft
  /\ idle' = IF devicesCountIsZero /\ idle < ShutDownInterval THEN idle + 1 ELSE idle
  /\ UNCHANGED <<gotInactiv, reported>>

ListEndTimers == shutDownLeft # 0 /\ EndTimers /\ Slots

ListEndSockets(woken) == EndSockets(woken \/ shutDownLeft = 0) /\ Slots

ListPosted == Posted /\ Slots
ListTimers == (Timers /\ Slots) \/ FireShutDownTimer \/ ListEndTimers

ListLoopStep == ListPosted \/ ListTimers \/ ListEndSockets(FALSE)

ReadSSDP == \E m \in Datagrams : ReadDatagram(m) /\ Slots

Download == \E o \in Object : FinishDownload(o) /\ Slots

ServeQuery == \E q \in Queries : Query(q)

ListNext ==
  \/ ReadSSDP
  \/ Download
  \/ ServeQuery
  \/ ListLoopStep
  \/ ListTick

ListSpec == ListInit /\ [][ListNext]_allVars

-----------------------------------------------------------------------------
(***************************************************************************)
(* Properties.                                                             *)
(***************************************************************************)

ListTypeOK ==
  /\ TypeOK
  /\ shutDownLeft \in NoTimer .. ShutDownInterval
  /\ gotInactiv \in BOOLEAN
  /\ reported \subseteq Udn
  /\ idle \in 0 .. ShutDownInterval

\* The shutdown timer never runs while a device is listed; otherwise the daemon
\* would quit under the eyes of its clients.
NoCountdownWithDevices == shutDownLeft # NoTimer => devicesCountIsZero

\* Once the initial search is over, a daemon without devices counts down (or
\* has asked for the shutdown), whichever way it came to have none: otherwise
\* it would never stop.
CountdownWithoutDevices ==
  (shutsDownOnNoActivity /\ searchLeft = NoTimer /\ devicesCountIsZero) =>
     (shutDownLeft # NoTimer \/ gotInactiv)

\* A client that applies the signals in order holds exactly the devices that
\* a query would return now.
ReportedIsListed == reported = Listed

\* The shutdown is asked for only after ShutDownTimeout seconds without any
\* device and any counted query.
ShutDownOnlyAfterTimeout ==
  [][gotInactiv' # gotInactiv => idle = ShutDownInterval]_allVars

\* devicesRemoved() is only sent for devices that a client still holds.
RemovedOnlyIfReported ==
  [][(emitted' # emitted /\ emitted'.signal = "deviceRemoved") =>
        Names(emitted'.device) \subseteq reported]_allVars
=============================================================================
