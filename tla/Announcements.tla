--------------------------- MODULE Announcements ----------------------------
(***************************************************************************)
(* SSDPWatcher next to what the devices themselves have announced.  Two    *)
(* history variables follow the datagrams that have been read; nothing in  *)
(* the daemon depends on them.                                             *)
(***************************************************************************)
EXTENDS SSDPWatcher

VARIABLES
  lease,      \* uuid -> time left of the lease it announced last
  farewell    \* uuids whose last complete message was a byebye

histories == <<lease, farewell>>
allVars == <<vars, histories>>

Announces(m) ==
  IsComplete(m) /\ (IsAlive(m) \/ (m.type = "ST" /\ ~ Known(m.uuid)))

HistoryInit ==
  /\ Init
  /\ lease = [u \in Uuid |-> 0]
  /\ farewell = {}

\* The watcher reads a datagram; an announced lease counts in full seconds.
HearDatagram(m) ==
  /\ ReadDatagram(m)
  /\ lease' = IF Announces(m) /\ m.maxAge >= 0
              THEN [lease EXCEPT ![m.uuid] = m.maxAge * MsPerSec]
              ELSE lease
  /\ farewell' = IF Announces(m) THEN farewell \ {m.uuid}
                 ELSE IF IsComplete(m) /\ IsByeBye(m) THEN farewell \cup {m.uuid}
                 ELSE farewell

HistoryTick ==
  /\ Tick
  /\ lease' = [u \in Uuid |-> IF lease[u] > 0 THEN lease[u] - 1 ELSE 0]
  /\ UNCHANGED farewell

OtherStep ==
  /\ LoopStep \/ EndSockets(TRUE) \/ \E o \in Object : FinishDownload(o)
  /\ UNCHANGED histories

\* The devices may speak at any time.
HistoryNext == (\E m \in Datagrams : HearDatagram(m)) \/ HistoryTick \/ OtherStep

HistorySpec == HistoryInit /\ [][HistoryNext]_allVars

\* No message about a device arrives while its description is downloaded.
IsPending(u) == \E o \in mPendingDevices : device[o].uuid = u

CalmNext ==
  \/ \E m \in Datagrams : ~ IsPending(m.uuid) /\ HearDatagram(m)
  \/ HistoryTick
  \/ OtherStep

CalmSpec == HistoryInit /\ [][CalmNext]_allVars

-----------------------------------------------------------------------------
(***************************************************************************)
(* Properties.                                                             *)
(***************************************************************************)

\* A cache time-out never drops a device before the lease that the device
\* announced last has run out.
LeaseHonoured ==
  [][\A u \in Uuid :
       (phase = "timers" /\ Known(u) /\ ~ Known(u)') => lease[u] = 0]_allVars

\* A device whose last message was a byebye is not added to the cache.
DiscoveredIsPresent ==
  [][\A u \in Uuid : (~ Known(u) /\ Known(u)') => u \notin farewell]_allVars
=============================================================================
