------------------------------- MODULE Daemon -------------------------------
(***************************************************************************)
(* The life of the cagibid process (src/daemon/daemon.cpp, main.cpp): it   *)
(* is started by D-Bus activation, serves until gotInactiv() or a call of  *)
(* Control.shutDown() quits the event loop, and signs off all devices in   *)
(* the destructor of DeviceList.  It may also crash, and it is started     *)
(* again by the next client that needs it.                                 *)
(***************************************************************************)
EXTENDS DeviceList

VARIABLE daemon    \* "down", "running", or "quitting": quit() was called

daemonVars == <<allVars, daemon>>

\* exec() in a new process: DeviceList and SSDPWatcher are constructed.
DaemonInit == ListInit /\ daemon = "running"

(***************************************************************************)
(* Nothing of the process is left.  The values are those of ListInit, save *)
(* that no timer runs.                                                     *)
(***************************************************************************)
ProcessEnds ==
  /\ mDevices' = [u \in Uuid |-> NoDevice]
  /\ mPendingDevices' = {}
  /\ device' = [o \in Object |-> Freed]
  /\ searchLeft' = NoTimer
  /\ phase' = "select"
  /\ due' = {}
  /\ emitted' = Silence
  /\ shutDownLeft' = NoTimer
  /\ gotInactiv' = FALSE
  /\ idle' = 0
  /\ daemon' = "down"

-----------------------------------------------------------------------------
\* gotInactiv() is connected to quit().
QuitIfInactive == daemon' = IF gotInactiv' THEN "quitting" ELSE "running"

Serve == daemon = "running" /\ ListNext /\ QuitIfInactive

\* Faulty variant: the event loop goes on to another iteration.
FinishLate ==
  /\ daemon = "quitting"
  /\ ReadSSDP \/ Download \/ ServeQuery \/ ListPosted \/ ListTimers \/ ListEndSockets(TRUE)
  /\ UNCHANGED daemon

\* quit() only flags the event loop: the iteration it was called in still reads
\* its sockets and fires its timers, but no other iteration follows.
FinishIteration ==
  /\ daemon = "quitting"
  /\ ReadSSDP \/ Download \/ ServeQuery \/ ListTimers \/ ListEndSockets(TRUE)
  /\ UNCHANGED daemon

\* Control::shutDown(), called over D-Bus.
ShutDown ==
  /\ daemon \in {"running", "quitting"}
  /\ phase \in {"select", "sockets"}
  /\ daemon' = "quitting"
  /\ UNCHANGED allVars

\* Faulty variant: the devices are not signed off.
ExitSilently ==
  /\ daemon = "quitting"
  /\ phase = "posted"
  /\ ProcessEnds
  /\ UNCHANGED reported

\* Faulty variant: the end waits for the downloads.
ExitAfterDownloads ==
  /\ daemon = "quitting"
  /\ phase = "posted"
  /\ mPendingDevices = {}
  /\ reported' = reported \ Listed
  /\ ProcessEnds

\* exec() returns; ~DeviceList() sends devicesRemoved() for what is still listed,
\* then ~SSDPWatcher() deletes all devices.
Exit ==
  /\ daemon = "quitting"
  /\ phase = "posted"
  /\ reported' = reported \ Listed
  /\ ProcessEnds

\* The process dies.  A client learns of it from serviceOwnerChanged and takes
\* all devices for disappeared, the simple strategy the README describes.
Crash ==
  /\ daemon # "down"
  /\ reported' = {}
  /\ ProcessEnds

\* D-Bus activation: a client has called the service.
Start ==
  /\ daemon = "down"
  /\ daemon' = "running"
  /\ searchLeft' = SearchTimeout * MsPerSec
  /\ UNCHANGED <<mDevices, mPendingDevices, device, phase, due, emitted, listVars>>

DaemonNext ==
  \/ Serve
  \/ FinishIteration
  \/ ShutDown
  \/ Exit
  \/ Crash
  \/ Start

(***************************************************************************)
(* The event loop of a running process runs whenever it has something to   *)
(* run, and time passes, also between the events of a timer that is always *)
(* due.  Neither datagrams, queries nor the end of a download can be       *)
(* relied upon, and nobody needs to start the daemon again.                *)
(***************************************************************************)
DaemonLoopStep ==
  \/ daemon = "running" /\ ListLoopStep /\ QuitIfInactive
  \/ daemon = "quitting" /\ (ListTimers \/ ListEndSockets(TRUE)) /\ UNCHANGED daemon
  \/ Exit

DaemonTick == daemon = "running" /\ ListTick /\ QuitIfInactive

DaemonFairness ==
  WF_daemonVars(DaemonLoopStep) /\ SF_daemonVars(DaemonTick)

DaemonSpec == DaemonInit /\ [][DaemonNext]_daemonVars
DaemonFairSpec == DaemonSpec /\ DaemonFairness

(***************************************************************************)
(* To its clients the daemon is a DeviceCache: all that is left of the     *)
(* RootDevice objects, the timers and the event loop is which uuids have   *)
(* an entry, and whether the process runs.                                 *)
(***************************************************************************)
Service ==
  INSTANCE DeviceCache WITH
    serving <- daemon # "down",
    entries <- {u \in Uuid : Known(u)}

-----------------------------------------------------------------------------
(***************************************************************************)
(* Properties.                                                             *)
(***************************************************************************)

DaemonTypeOK == ListTypeOK /\ daemon \in {"down", "running", "quitting"}

\* When the daemon has gone, no client that followed the signals still holds a
\* device: the shutdown signs all of them off, those included whose names
\* several root devices share.
DownMeansNothingReported == daemon = "down" => reported = {}

\* A client never holds a device that the cache does not have.
ReportedIsHeld == reported \subseteq Listed

\* Between the decision to stop for inactivity and the end of the process no
\* device is added to the cache, whatever the rest of the iteration brings.
InactiveStaysEmpty == gotInactiv => devicesCountIsZero /\ daemon = "quitting"

\* Every handler, in whatever order the event loop calls them, changes the cache
\* by one root device at most, and only together with the signal that tells
\* clients so; a shutdown tells them of all devices in one go.
ImplementsDeviceCache == Service!Spec

\* Whatever quits the event loop, the process ends.
QuitEnds == daemon = "quitting" ~> daemon = "down"

\* A daemon that is configured to does not idle forever: it goes down again and
\* again, unless there are devices or queries again and again.
IdleDaemonGoesDown ==
  shutsDownOnNoActivity =>
    ([]<>(daemon = "down") \/ []<> ~ devicesCountIsZero
       \/ []<><<ServeQuery>>_daemonVars)
=============================================================================
