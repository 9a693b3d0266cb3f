----------------------------- MODULE RootDevice -----------------------------
(***************************************************************************)
(* One RootDevice object of the daemon (src/daemon/rootdevice.{h,cpp}): a  *)
(* device that was announced on the network, its description download and  *)
(* its cache timer.  The module is stateless: an object is a record, and   *)
(* each method of the class is an operator from the old to the new record. *)
(* SSDPWatcher keeps the heap of these objects.                            *)
(*                                                                         *)
(* Time is counted in milliseconds, the unit of QObject::startTimer().     *)
(* IntMax and MsPerSec scale the arithmetic of the code (2147483647 and    *)
(* 1000) down so that the wrap-around is within reach of a small instance. *)
(***************************************************************************)
EXTENDS Integers

CONSTANTS
  Uuid,       \* the uuids that announcements carry in their USN line
  NoUuid,     \* the empty uuid
  IntMax,     \* the largest value of the int type
  MsPerSec    \* the factor resetCacheTimeOut() multiplies seconds with

ASSUME UuidAssumption == NoUuid \notin Uuid
ASSUME IntMaxAssumption == IntMax \in Nat \ {0}
ASSUME MsPerSecAssumption == MsPerSec \in Nat \ {0}

NoTimer == -1    \* mTimerId = 0: no timer is registered

(***************************************************************************)
(* life      "doomed" is the time between deleteLater() and the            *)
(*           DeferredDelete event: the object still receives timer events  *)
(* interval  the period of the registered timer, NoTimer without one       *)
(* left      the time until the timer is due                               *)
(* reply     the one description download: running in the network access   *)
(*           manager ("loading"), its finished() signal queued ("ready"),  *)
(*           or delivered / never started ("none")                         *)
(* connected cacheTimedOut() is connected to SSDPWatcher::onCacheTimedOut  *)
(***************************************************************************)
RootDeviceState ==
  [life      : {"free", "alive", "doomed"},
   uuid      : Uuid \cup {NoUuid},
   interval  : NoTimer .. IntMax,
   left      : NoTimer .. IntMax,
   reply     : {"none", "loading", "ready"},
   connected : BOOLEAN]

\* Memory that holds no object.
Freed ==
  [life |-> "free", uuid |-> NoUuid, interval |-> NoTimer, left |-> NoTimer,
   reply |-> "none", connected |-> FALSE]

-----------------------------------------------------------------------------
(***************************************************************************)
(* The timer.                                                              *)
(***************************************************************************)

\* What an int holds after an addition or multiplication gave x.
Int32(x) == ((x + IntMax + 1) % (2 * (IntMax + 1))) - (IntMax + 1)

\* Faulty variant: the product is not confined to an int.
WideInterval(timeout) ==
  IF timeout < 0 THEN NoTimer ELSE timeout * MsPerSec

\* startTimer( timeout * 1000 ): a negative interval registers no timer.
Interval(timeout) ==
  LET ms == Int32(timeout * MsPerSec)
  IN  IF ms < 0 THEN NoTimer ELSE ms

\* Faulty variant: a timer that is running already is kept.
KeepCacheTimeOut(dev, timeout) ==
  IF dev.interval # NoTimer THEN dev
  ELSE [dev EXCEPT !.interval = Interval(timeout), !.left = Interval(timeout)]

\* killTimer() on the old timer, startTimer() for the new one.
ResetCacheTimeOut(dev, timeout) ==
  [dev EXCEPT !.interval = Interval(timeout), !.left = Interval(timeout)]

\* One millisecond passes.
Elapse(dev) == [dev EXCEPT !.left = IF @ > 0 THEN @ - 1 ELSE @]

IsDue(dev) == dev.left = 0

\* Faulty variant: the timer is not started again.
SingleShot(dev) == [dev EXCEPT !.left = NoTimer]

\* A timer of QObject is periodic: delivering its event starts it again.
Reload(dev) == [dev EXCEPT !.left = dev.interval]

-----------------------------------------------------------------------------
(***************************************************************************)
(* Life and download.                                                      *)
(***************************************************************************)

\* Faulty variant: the time-out is connected at once, not after the download.
ConstructedConnected(u, maxAge) ==
  ResetCacheTimeOut(
    [Freed EXCEPT !.life = "alive", !.uuid = u, !.reply = "loading",
                  !.connected = TRUE], maxAge)

\* The constructor, resetCacheTimeOut() and startDeviceDescriptionDownload().
Constructed(u, maxAge) ==
  ResetCacheTimeOut(
    [Freed EXCEPT !.life = "alive", !.uuid = u, !.reply = "loading"], maxAge)

DeleteLater(dev) == [dev EXCEPT !.life = "doomed"]

\* onDeviceDescriptionDownloadReply() has run: the one reply is consumed.
ReplyConsumed(dev) == [dev EXCEPT !.reply = "none"]

\* connect( device, SIGNAL(cacheTimedOut(..)), SLOT(onCacheTimedOut(..)) )
Connected(dev) == [dev EXCEPT !.connected = TRUE]
=============================================================================
