# A TLA+ verification of Cagibi

Cagibi is a cache of UPnP/SSDP announcements: the daemon `cagibid` listens to the
multicast group of SSDP, downloads the description of every root device that
announces itself, and serves the devices it knows to local clients over D-Bus.
These modules model the daemon (`src/daemon/`), TLC checks them on small
instances, and TLAPS proves the central invariants for every value of the
constants. To its clients the daemon is a small abstract cache, `DeviceCache`, which it is
shown and proved to implement, and on which the model of a client is built.

1. [The system](#1-the-system)
2. [Modules and how they correspond to the code](#2-modules-and-how-they-correspond-to-the-code)
3. [Runs](#3-runs)
4. [Bounds](#4-bounds)
5. [Fairness](#5-fairness)
6. [Proofs](#6-proofs)
7. [Disagreements between code and documentation](#7-disagreements-between-code-and-documentation)
8. [Hazards that no property covers](#8-hazards-that-no-property-covers)
9. [Not modelled](#9-not-modelled)
10. [Plan](#10-plan)

Run `tlc -config X.cfg M` with the module and the configuration that a run of
section 3 names, and `tlapm M.tla` on the `*_proofs` modules.

## 1. The system

The daemon has one thread and no lock. All that happens is a handler that the
event loop of Qt 4 calls, and a handler runs to its end. What is hard about it is
*between* handlers: the order in which the loop delivers datagrams, D-Bus calls,
queued signals, deferred deletions and timers.

| Component | State | Operations | Interacts with |
| --- | --- | --- | --- |
| `SSDPWatcher` (`ssdpwatcher.cpp`) | `mDevices` (uuid → device), `mPendingDevices`, the UDP socket, a single-shot search timer | `startDiscover`, `onUdpSocketReadyRead` / `handleMessage`, `onDeviceDescriptionDownloadDone`, `onCacheTimedOut`, `onSearchTimeout` | creates `RootDevice`s; signals `deviceDiscovered`, `deviceRemoved`, `initialSearchCompleted` |
| `RootDevice` (`rootdevice.cpp`) | its periodic cache timer, one running download, the parsed `Device` | `resetCacheTimeOut`, `startDeviceDescriptionDownload`, `onDeviceDescriptionDownloadReply`, `timerEvent`, `deleteLater` | signals `deviceDescriptionDownloadDone`, `cacheTimedOut` to the watcher |
| `DeviceDescriptionXMLHandler` | a stack of open elements, a stack of open devices, the current device, service and icon | the SAX callbacks | fills the `Device` of a `RootDevice` |
| `Device`, `Service`, `Icon` | explicitly shared property records | getters and setters by element name | nested: a device lists its embedded devices |
| `DeviceList` (`devicelist.cpp`) | the shutdown timer | `allDevices`, `devicesByParent`, `devicesByType`, `deviceDetails`; three slots; the destructor | reads the watcher's cache; sends `devicesAdded`, `devicesRemoved`; emits `gotInactiv` |
| `Daemon`, `Control` (`daemon.cpp`, `control.cpp`) | the life of the process | `exec`, `quit`, `shutDown` | owns `DeviceList`; started by D-Bus activation |
| D-Bus adaptors, `dbuscodec` | none | forwarding and marshalling | clients |
| Clients (external) | the devices they hold | one `allDevices()` call, then `devicesAdded`, `devicesRemoved` and the loss of the service (`src/README`) | the bus, which activates the daemon for a call |

One iteration of the loop goes through four phases: posted events (the queued
`finished()` of a download, `DeferredDelete`), `select()`, socket notifiers (one
datagram per activation; D-Bus calls are read here too), and timers (each timer that
is due fires once). This is Qt's documented and observable behaviour, not this
repository's; the definitions that model it are marked external in `PROJECT.json`.

Hard behaviours, and what correctness means for each component:

* **Watcher.** Several `RootDevice` objects may exist for one uuid: each
  announcement that arrives while a description is still downloaded makes
  another one. Downloads end in any order, or fail. An object that was
  `deleteLater()`ed still has a timer that runs and is connected. *Correct*: no
  object is lost, held twice or dangling; the cache changes only together with the
  signal that says so; a lease that was announced is honoured; a device that
  falls silent expires; only devices that are present are added.
* **DeviceList.** The countdown to the shutdown is started by two slots, stopped by
  a third, restarted by queries, and fires in the timer phase, in any order with the others. *Correct*:
  it runs exactly while there is no device; clients that follow the signals hold what
  the queries list.
* **Daemon.** `quit()` does not stop the iteration it is called in. *Correct*: the
  process ends, after a shutdown no client is left with a device, and no device is
  added between the decision to stop for inactivity and the end.
* **Clients and the bus.** A reply crosses signals, a call the end of the process it was sent to; a daemon that is
  started again begins with nothing. *Correct*: a client that has read its messages holds what is listed, and
  it gets to know of the devices in the end.
* **Shared data.** `Device`, `Service` and `Icon` share their data, and point back with raw pointers.
  *Correct*: no such pointer dangles, and what is marshalled is complete.
* **Description handler and queries.** Trees of devices, with the order and nesting
  of elements left to the document. *Correct*: the tree is what the document
  describes, and the four queries agree with each other and with the tree.

## 2. Modules and how they correspond to the code

```
RootDevice <- SSDPWatcher <- DeviceList <- Daemon        (EXTENDS)
                         ^- Announcements     |
                                              v implements (INSTANCE)
                                         DeviceCache <- Client
DeviceData <- DescriptionHandler <- DescriptionMeaning   (on their own)
DeviceTree

SSDPWatcher_proofs        (SSDPWatcher, TLAPS)
DeviceList_proofs         (DeviceList, SSDPWatcher_proofs)
Announcements_proofs      (Announcements, SSDPWatcher_proofs)
Daemon_proofs             (Daemon, DeviceList_proofs)
Client_proofs             (Client, TLAPS)
DescriptionHandler_proofs (DescriptionHandler, TLAPS)
DescriptionMeaning_proofs (DescriptionMeaning, DescriptionHandler_proofs)
DeviceTree_proofs         (DeviceTree, TLAPS)
MC*                       instances for TLC
```

**`RootDevice`** holds no variables: an object is a record and each method an
operator from record to record. `interval`/`left` are the timer, `reply` the
download, `connected` whether `cacheTimedOut()` leads to the watcher, and `life` tells
an object after `deleteLater()` ("doomed") from one that is gone ("free").
`resetCacheTimeOut()` multiplies seconds with 1000 in an `int`: `Int32` wraps, and a
negative interval registers no timer.

**`SSDPWatcher`** keeps these records at addresses (`device`), with `mDevices` and
`mPendingDevices` pointing at them. Each handler is one action:

| Code | Action |
| --- | --- |
| `handleMessage()` | `ReadDatagram(m)`: one of `DetectDevice`, `RefreshDevice`, `RemoveDevice`, `IgnoreMessage` |
| `QNetworkAccessManager` | `FinishDownload(o)` (external), at any time |
| `onDeviceDescriptionDownloadReply()` → `...Done()` | `DeliverReply(o, success)`; parsing may fail, so `success` is free |
| `RootDevice::timerEvent()` → `onCacheTimedOut()` | `FireCacheTimer(o)`; lost while the object is not connected |
| `onSearchTimeout()` | `FireSearchTimer` |
| `deleteLater()`, `DeferredDelete` | `DeleteLater`, `DeferredDelete(o)` |
| event loop, passing time | `EndPosted`, `EndSockets`, `EndTimers`, `Tick` (external) |

The text of a datagram is abstracted to the record of what `handleMessage()` extracts
from it; the guard of each alternative is the chain of conditions in the code,
incomplete and contradictory messages included. A signal is the variable `emitted`, the
signal of the last step, with the object it names.

**`Announcements`** adds two history variables to the watcher: the rest of the lease
a device announced last, and the devices whose last message was a byebye. Nothing in
the daemon depends on them. `CalmSpec` restricts the *environment*: no message about a
device arrives while its description is downloaded.

**`DeviceList`** adds the shutdown timer and the slots. The signals of the watcher are direct
connections, so a slot runs in the emitting handler: `Slots` reads `emitted'` and is
conjoined to every step of the watcher. `reported` is a history variable, the
names that a client holds that applies every `devicesAdded` and
`devicesRemoved`; `idle` is one too, the time without devices and queries. `DescribedBy`
gives for a uuid the names in the description of its LOCATION; two uuids may lead to the same
description, since an embedded device announces itself under its own uuid.

**`Daemon`** adds the process: `Serve` while it runs, `FinishIteration` for what the
last iteration still does after `quit()`, `ShutDown` for `Control.shutDown()`, `Exit`
for the destructors, `Crash`, and `Start` for the D-Bus activation.

**`DeviceCache`** is the abstract specification: whether the service runs, which uuids have an entry, and what a client
holds that has applied all signals. Its actions are one root device that appears or vanishes, a second farewell for
one that has gone (disagreement 4 of section 7), the sign-off, a crash and a start. `Daemon` has the refinement mapping: `serving` is `daemon # "down"`,
`entries` the uuids that are `Known`; objects, downloads, timers and the event loop have no counterpart.

**`Client`** extends `DeviceCache` with the bus and one client: `inbox` is what the bus still has to deliver, in the
order in which it was sent, `call` the call of `allDevices()`, `held` the client's devices. Each action of the service
sends its signal in the same step (`SignalAdded`, `SignalRemoved`, `LeaveInOrder`, in the last one in every order of a `QHash`);
`Leave` is the loss of the process, with the error reply for a call that the bus had passed on; a call that it had not is kept
for the process it activates. The client is external: it does what `src/README` tells clients to do.

**`DeviceTree`** has the recursive walks (`fillMap`, `fillMapByType`, `find`) and the
four queries over a sequence of root devices in any order, the order of a
`QHash`. The walks are recursive functions on the set `Device`, whose members have the devices embedded in them in a field; the operators
`FillMap`, `FillMapByType` and `Find` are what they do at one device, given the results for those below. The code fills one map in passing; here
`Inserted` puts the maps of the parts together as `QHash::insert()` does, the last value of a name stays. The
reference they are compared with (`Devices`) collects the devices level by level.

**`DeviceData`** has the records behind `Device`, `Service` and `Icon` and the methods that change them, on a heap, since
copies share their data. The raw pointers `parent` and `device` and the `RootDevice` pointer are fields. `Details` is the map that
`operator<<` of `dbuscodec.cpp` marshals for `deviceDetails()`.

**`DescriptionHandler`** is the SAX handler on that heap. A document is the sequence of calls the reader makes for it,
`Calls`, of which it is only assumed that they are `Balanced`: as many ends as starts, and the outermost element ends last.
`StartElement`, `EndElement`, `Characters` do what the
callbacks do to the two stacks, to the current device, service and icon, and to the `RootDevice`
(`rootDevice`, `mBaseUrl`). A text is passed on in pieces; the pieces are opaque, and
`Numerals` says which texts are numbers for `QString::toInt()`. The reader may give up after any tag (`ParseError`).
`top()`/`pop()` of an empty `QStack` is undefined behaviour: `Underflow`, with an
outcome of its own. `Below` (the devices that a device keeps alive) is the least set that is closed under embedding.

**`DescriptionMeaning`** is the reference for it. Two history variables keep what the reader has read: `elements`, a table of all
elements with name, text and the element around each, and `open`, the ones that have not ended. The handler has neither, it
only ever sees the kinds of the open elements. `Describes` says by that table alone when an element describes a device: the last text of each
name, and icons, services and embedded devices in the order of the document (`InOrder`). The reader knows the open elements, so that for an end tag
of another name than the element it ends no call is made (`NoteEnd`); it gives up there. No operator is recursive.
A document is `Conforming` if its root element is `root` with exactly one `device` in it, and no element is inside of a text; unknown elements may be
anywhere. What happens in the others is in section 8.
The documents for TLC are made in `MCDescriptionHandler`, as trees.

Operators called "Faulty variant" are plausible bugs of the definition after them. Each
property is checked to fail when one of them takes the place of the original; the
pairs are in `PROJECT.json` under "mutants".

## 3. Runs

| Run | Configuration | Shows |
| --- | --- | --- |
| `watcher_safety` | `SSDPWatcher_safety` | two uuids, three objects and all kinds of datagrams: `Ownership` (no object leaked, dangling or held twice), its inductive form `HeapInv`, `ChangesAreSignalled` |
| `announcements_calm` | `Announcements_calm` | `LeaseHonoured`: no time-out before the lease has run out; `DiscoveredIsPresent`: no device is added after its byebye — if the devices are quiet during downloads |
| `announcements_farewell` | `Announcements_farewell` | without that restriction `DiscoveredIsPresent` is violated (section 7) |
| `devicelist_safety` | `DeviceList_safety` | two root devices with different descriptions: the countdown runs exactly while there are no devices, not before the time-out, and `ReportedIsListed` |
| `devicelist_nested` | `DeviceList_nested` | with a shared description `ReportedIsListed` is violated |
| `devicelist_queries` | `DeviceList_queries` | if all four queries count as activity, the shutdown comes too early |
| `devicelist_farewell` | `DeviceList_farewell` | `RemovedOnlyIfReported` is violated: a removal is reported twice |
| `daemon_life` | `Daemon_life` | shutdowns, crashes and restarts anywhere, with a shared description: `ImplementsDeviceCache`; nothing stays reported when the process is gone, clients never hold what the cache has not, inactivity is final; with a fair event loop `QuitEnds`, `IdleDaemonGoesDown`, `SilentDeviceExpires` |
| `client_view` | `Client_view` | `CaughtUp`: a client that has read its messages holds what is listed, whatever crossed; `NoGhosts`: also with shared descriptions it holds nothing else; `LearnsDevices`: its call is answered in the end |
| `devicetree_queries` | `DeviceTree_queries` | the queries agree with the reference, and the signals with the queries |
| `devicetree_parent` | `DeviceTree_parent` | `devicesByParent()` of an embedded device is wrong |
| `description_parse` | `DescriptionHandler_parse` | some three thousand documents: `DescriptionBuilt`; `PlainIsRead` (what is read to its end), `StacksAgree`, `ParentsAgree`, `HandlerTypeOK` (no dangling address); `BackPointersLive` (no raw pointer dangles, wherever the parsing breaks off) and `DetailsComplete` (what is marshalled) |

Deadlock is checked in all of them save `description_parse`, where the end of the
document is the end.

## 4. Bounds

* `Uuid`, `Object`: two uuids and three objects. Two objects of one uuid are needed for
  competing downloads and for a doomed object next to its successor, a third one for
  another device at the same time. When all addresses are taken, a datagram that would
  need one is not read, so the bound cuts behaviours off and adds none. Objects are
  symmetric in the safety runs. `announcements_farewell` needs one uuid only.
* Time: `MsPerSec` stands for 1000 and `IntMax` for 2147483647. With `IntMax` = 7 and
  `MsPerSec` = 2 leases of 1 and 3 seconds fit, and that of 5 overflows to a negative int, so every
  case of `Interval` occurs, and that of 0 gives a timer that is due in each iteration. With
  `MsPerSec` = 1 the MAX-AGE 8 overflows; leases are 1 and 2.
* `SearchTimeout` = 1 and `ShutDownTimeout` = 1 or 2: shorter than, as long as and longer than
  the leases. Timers are counted down and stop, no clock grows. `idle` is counted up
  to the time-out, where it stops to matter.
* `daemon_life` has two uuids, whose descriptions share a name, and two objects, without symmetry, since it checks liveness.
  One object of each uuid, or two of one, exist at a time.
* `client_view`: `MaxInbox` = 5 messages on their way, enough for the sign-off of two root devices, the loss of the service and an
  error behind two signals; the service waits while the inbox is full. Two descriptions with a name in common and one of their own.
* Descriptions in `DeviceTree`: all trees of up to three devices over four names, and those of
  four devices with three levels, and some in which two devices of different types have the same name; caches of up to two of them, also two
  that share names. `Height` is how deep devices are embedded, up to `MaxDepth` = 2.
* Documents: devices with up to two of eight kinds of content (services, icons and unknown elements among them), a device with all properties, nested up to three levels, with unknown
  elements, elements inside of text, and lists before and after the properties. About half of them are `Conforming`.

## 5. Fairness

Safety is stated without fairness. `DaemonFairness` is all that the run `daemon_life` assumes:

* weak fairness of `DaemonLoopStep`: a loop that has something to deliver delivers it.
  The process has one thread, and each handler returns;
* strong fairness of `DaemonTick`: time passes. It must be strong, because a timer with interval 0
  (MAX-AGE 0) makes the loop spin and disables `Tick` for a while in each iteration; real
  time goes on all the same.

Nothing is assumed about datagrams, queries, `ShutDown`, `Crash` or `Start`, and
nothing about downloads: `QNetworkAccessManager` of Qt 4 has no
time-out, so that a server may keep a device pending forever.

`ClientFairness` is about a client and the bus (both external):

* weak fairness of `Receive`, `Ask` and of the activation for a call that waits: a client reads its connection and
  asks, and the bus starts a service that a call needs;
* strong fairness of `Answer`: a process may shut down or crash before it has read the call, but not every process that is
  started for it does. Each one reads its connection in its first iterations.

The client may be started anew at any time, and `LearnsDevices` is about one that is not, again and again.

## 6. Proofs

All theorems hold for every set of uuids, objects and datagrams, every int width and every
time-out, of names, descriptions and documents, under the named ASSUMEs of the modules: null values are no members, sizes are natural,
the numerals mean integers and an empty text is none, the calls of the reader are typed and balanced, and the embedding of devices in devices ends (`Height`), as it does in what a document describes.

`SSDPWatcher_proofs`:

* `TypeCorrect`: `TypeOK`. The only arithmetic is `Int32Range` and `IntervalRange`:
  whatever MAX-AGE is, a registered period is between 0 and `IntMax`.
* `HeapCorrect`, `OwnershipHolds`: `Ownership` is not inductive. `onCacheTimedOut()` removes
  *by uuid*, so a stale object whose timer fires could remove its successor. It does not: a doomed
  object can only fire before the next posted phase, that phase ends only when the doomed objects are
  deleted, and a successor can only be inserted in such a phase.
  `HeapInv` says this: `PendingDownloads`, `EntriesAreAlive`, `AliveAreHeld` and
  `LateTimersAreHarmless`. `TimeOutHitsOwnEntry` is the lemma that a connected timer finds its own entry or
  none; `NextHeap` has a case for each action.
* `ChangesSignalled`: `ChangesAreSignalled`, an action property, from `HeapInv` by
  `StepIsSignalled`.

`DeviceList_proofs`:

* `ListImplementsWatcher`: `ListSpec => Spec`. Each step of the composition is a step of the watcher or leaves it
  unchanged, so the watcher's theorems hold in it.
* `ListTypeCorrect`; `NoCountdownWithDevicesHolds` and `CountdownWithoutDevicesHolds`, by one invariant on
  the countdown and `ChangesAreSignalled`, which guarantees that a slot has run whenever the cache changed;
* `ShutDownOnlyAfterTimeoutHolds`, assuming `CountedRestart` (only `allDevices` and `devicesByParent` count as activity;
  the run `devicelist_queries` shows that this is needed), by `IdleInv`: the time that has been idle and what is left of the countdown
  make up at least the time-out;
* `ReportedIsListedHolds`: clients hold what is listed, assuming `DisjointDescriptions` (no two
  uuids share a name). The run `devicelist_nested` shows that it is needed.

`Announcements_proofs`, for `CalmSpec`:

* `LeaseHonouredHolds`, assuming `LeasesFit` (every MAX-AGE in milliseconds is an int). `LeaseInv`: an object that is alive has no
  timer or at least as much time left on it as the lease, and timers about to fire have none left. It rests on
  `AliveIsPendingOrEntry`: of a uuid that nobody is downloading only the object in `mDevices` is alive, so that
  a datagram renews the right timer.
* `DiscoveredIsPresentHolds`: no pending device has said goodbye (`PresentInv`), and devices enter the cache from the pending ones.

`Daemon_proofs`, without assumptions:

* `DaemonImplementsDeviceCache`: `DaemonSpec => ImplementsDeviceCache`. `ListStepMeans` is the heart of it: a step of the composed
  watcher and device list adds an entry with its names, removes one, removes names of an entry that has gone, or changes neither. The end of
  the process is a sign-off or a crash, `ShutDown` a stutter.
* `DaemonTypeCorrect`, `ReportedIsHeldHolds`, `DownMeansNothingReportedHolds` and `InactiveStaysEmptyHolds` from one inductive invariant,
  `DaemonInv`. That no device is added after `gotInactiv()` needs the phase of the loop: the signal is emitted in
  the timers phase, with an empty cache (`InactiveWhenEmpty`); a device could only be added in a posted phase (`AddedWhenPosted`), and the last
  iteration runs none (`FinishPhases`).

`Client_proofs`, without assumptions:

* `ClientTypeCorrect`, `CaughtUpHolds` and `NoGhostsHolds`. Neither of the last two is inductive: while messages are on their way,
  what the client holds may be wrong in both directions. `ClientInv` is about what it will hold: `After(seq, names)` gives the
  last message of `seq` that says something about a name the last word. `AfterConcat` (to read two sequences is to read one after
  the other) makes each case short: a signal is appended, a message is read. The sign-off may send its signals in *every* order of the hash:
  they are followed by the loss of the service, after which nothing is held whatever came before (`AfterVanished`).
* `ClientKeepsService`: the service inside the composition is `DeviceCache`, which the daemon is proved to implement.

`DescriptionHandler_proofs`, for documents of any depth and size:

* `HandlerTypeCorrect`, `StacksAgreeHolds`, `ParentsAgreeHolds`, `BackPointersLiveHolds`, `DetailsCompleteHolds`, all from the
  inductive `HandlerInv`. `StacksAgree` alone is not inductive: that closing a `DeviceElement` pops a device needs that such an
  element is only ever in the root or in a device list, also when the stack names the wrong elements (`Nesting`).
  `ParentsAgree` needs that a device is embedded once, when it is closed: open devices are all different
  and in no list (`DevicesNest`, `Forest`), and the outermost one, address 1, is the only one that becomes the `RootDevice`'s.
* For the properties about whole trees no induction over the tree is needed. What is reachable is the *least* closed set, so that
  to exhibit one closed set is enough: `BelowSteps` says how `Below` meets a device and its children,
  `Holders` that whatever holds a child holds its parent as well.
* `PlainIsReadHolds`: a document without elements inside of texts is neither rejected nor does a stack run empty. `ReadingInv`
  ties the stack to the document: after n calls it is as high as the elements that are open (`InStep`), elements that hold text are only ever on top of it
  (`TextsOnTop`), and one is on top only if no call since its start closed it (`InText`).

`DescriptionMeaning_proofs`, for documents of any length and depth:

* `DocumentsAreHandled`: `DocumentSpec => Spec`. The history variables add nothing to the handler, so the theorems above hold of it.
* `DescriptionBuiltHolds`: the device tree at the end is the one that the document describes. `DescriptionBuilt` says something of the last state only;
  `MeaningInv` says after *each* call what has been built so far, in these parts:
  * `DocumentInv` is about the table alone: elements are in the order of their starts, each open one is in the one before it, so what has started after an open
    element is inside of it (`Table`); and where the reader is in the document (`Reading`).
  * `StackInv`: `mStatusStack` has the kind of each open element, of whatever depth, by where it is. It holds as long as no element is inside of a text and
    there is one root device (`SoFar`, part of what `Conforming` says of the whole document).
  * `Built(at)`: there is a map `at` from devices to the elements they have been made for, one to one. `OpenPlaced` says that the current device
    is that of the innermost open device element, and those on `mDeviceStack` are of the ones around it, one device list apart; `RootPlaced` that
    address 1 is the device of the root element, and the `RootDevice` has got it when that element has ended; `Filled` that each device is
    described by what has *ended* of its element.
  * `InHand`: what has ended of an icon or a service that is still open is in `mCurrentIcon` or `mCurrentService`.
* Only an end tag changes the reference, and `EndReference` says how: the element `y` that ends is the last one of its name in the element around it, and in
  a list of the one around that. `EndKinds` and `EndDevices` are the two directions of the same fact: the handler adds something to a device exactly if the
  table adds it to what the element of that device describes. `InOrderAppend` makes them agree on the place: a member of a list is
  found by its rank, the number of members that started no later, so that no recursion over the document is needed.

`DeviceTree_proofs`, for descriptions of any depth and width, in any order, whether names are used once or twice:

* `AllDevicesCompleteHolds`, `TypesPartitionHolds`, `DetailsOfListedHolds`, `ParentIsRootHolds`, `SentExplainsChangeHolds`. The only
  invariant of the states they need is `RootsType`; the rest is about the operators.
* A recursive function is a CHOOSE, so that it first has to be shown that it exists. `Recursion` does that for anything that descends along a
  height, by approximations that grow together; `FillMapDefined`, `FillMapByTypeDefined`, `FindDefined` and `LevelDefined` follow from it.
  `TreeInduction` is induction over the trees, as a counterexample of least height (`NatMinimum`), stated about sets and not about operators.
* `Within(d)`, the devices in the tree of `d`, is the least closed set with `d`. `FillMapDescribes`, `FillMapByTypeDescribes` and
  `FindFinds` say what a walk returns in terms of it, each with one step at a device (`EntryFirstDescribes`, `FirstFoundFinds`), and
  `DevicesAreInTrees` that the reference, level by level, collects the same devices: at level n only devices remain that are at least n lower.

Only model-checked: liveness, which is out of the prover's reach: `QuitEnds`, `IdleDaemonGoesDown`, `SilentDeviceExpires`, `LearnsDevices`. Every
invariant and action property of the passing runs is proved, those of `announcements_calm` and `devicelist_safety` under the assumptions named there.

## 7. Disagreements between code and documentation

1. `devicesByParent()` (`devicelist.cpp:134`) returns the children of the *root* device of the
   description in which the name was found, not those of the named device (`devicetree_parent`).
2. `devicesByType()` and `deviceDetails()` do not restart the shutdown timer, although
   `cagibid.conf.cmake` speaks of "any client query activity" (`devicelist_queries`).
3. If an embedded device announces itself, its description is downloaded and listed a second time under
   its uuid; when either entry leaves, `devicesRemoved` names devices that are still listed (`devicelist_nested`).
4. A byebye leaves the cache timer of the doomed device connected. If it is due in the same iteration,
   `devicesRemoved` is sent twice (`devicelist_farewell`).
5. A byebye during the download is dropped, and the device is added after it has left
   (`announcements_farewell`).

## 8. Hazards that no property covers

`PROJECT.json` lists all hazards at their lines. These have no property:

* Two consequences of the same gaps as 5.: an alive that arrives during a download starts another one, and
  does not extend the lease of the first, which may then expire early (`CalmSpec` excludes it); a MAX-AGE above 2147483
  overflows, and the device expires early or never (`LeaseHonoured` is checked for leases that fit).
* A server that never answers: each announcement adds a pending object, without limit.
* A byebye without LOCATION is dropped as incomplete. An alive with a new LOCATION only renews the
  lease.
* A second device in the root element is merged into the first, and a description without any device is
  accepted with an empty name. An element inside of a text element upsets the stack of the handler, and
  the end of the document pops it while it is empty: `StacksAgree` shows that the stacks stay
  consistent with each other until then, `PlainIsRead` (proved) that documents without such elements are safe.
* `CACHE-CONTROL: max-age=1800, must-revalidate` is read as a MAX-AGE of 0, and the device expires at once; datagrams with a
  MAX-AGE of 0 are in the runs, their text is not modelled.
* `registerService()` may fail unnoticed.

## 9. Not modelled

* The splitting of a datagram into lines, keys and values, and of texts into characters: a datagram is what `handleMessage()` reads from it,
  a property is the sequence of opaque pieces of its text.
* The signature of a Device on the bus and `operator>>`, which is empty.
* `Service::setReady()`, `Device::operator==` and those getters that nothing calls.
* The settings file and the build files: `SearchTimeout` and `ShutDownTimeout` are constants.
* Setting up the socket and the multicast group: system calls whose results are ignored.
* `#if 0` code.

## 10. Plan

Done, in this order: `RootDevice` and `SSDPWatcher` with the heap invariant and its proof;
`DeviceList` and `Daemon` on top of it; `Announcements`; the two pure parts, `DeviceTree` and
`DescriptionHandler`; the abstract `DeviceCache` with the refinement, `Client` on top of it; `DeviceData`, shared by the
handler and the codec; the proofs about `Daemon` and `Announcements`; `DescriptionMeaning` apart from the handler, and the proofs
about `Client` and `DescriptionHandler`; the walks of `DeviceTree` as functions, and the proofs about them; `DescriptionMeaning` as a
table of elements without recursion, and the proof that the handler builds what a document means.

What could follow: the lines of a datagram as a loop of its own, with the `CACHE-CONTROL` and `USN` values taken apart as the code does.
