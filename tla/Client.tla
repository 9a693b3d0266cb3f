------------------------------- MODULE Client -------------------------------
(***************************************************************************)
(* A client of org.kde.Cagibi as src/README describes it: it queries       *)
(* allDevices() once, follows devicesAdded and devicesRemoved, and takes   *)
(* all devices for disappeared when the service is lost from the bus.      *)
(*                                                                         *)
(* The service is DeviceCache, which Daemon implements.  Between the two   *)
(* is the bus (external), which delivers what one connection sends to      *)
(* another in order, starts the service for a call if it is not there, and *)
(* tells clients that it has gone after everything it sent.                *)
(***************************************************************************)
EXTENDS DeviceCache, SequencesExt

CONSTANTS MaxInbox    \* bounds the messages on their way to the client

VARIABLES
  inbox,    \* messages for the client, oldest first
  call,     \* its call of allDevices(): "none", "sent", "answered": in the inbox
  held,     \* the names it takes for present
  knows     \* it has something to apply signals to

clientVars == <<inbox, call, held, knows>>
allVars == <<cacheVars, clientVars>>

Message(kind, names) == [kind |-> kind, names |-> names]
Vanished == Message("serviceVanished", {})
NoReply  == Message("error", {})

Send(messages) ==
  /\ Len(inbox) + Len(messages) <= MaxInbox
  /\ inbox' = inbox \o messages

ClientInit ==
  /\ Init
  /\ inbox = <<>> /\ call = "none" /\ held = {} /\ knows = FALSE

-----------------------------------------------------------------------------
(***************************************************************************)
(* The service and the bus.                                                *)
(***************************************************************************)

\* Faulty variant: the signal overtakes those that were sent before.
SignalAddedLate(u) ==
  /\ Appear(u)
  /\ inbox' = <<Message("devicesAdded", DescribedBy[u])>> \o inbox
  /\ Len(inbox) < MaxInbox
  /\ UNCHANGED <<call, held, knows>>

SignalAdded(u) ==
  /\ Appear(u)
  /\ Send(<<Message("devicesAdded", DescribedBy[u])>>)
  /\ UNCHANGED <<call, held, knows>>

\* Faulty variant: the removal is not signalled.
RemovedUnsignalled(u) ==
  /\ Vanish(u) \/ VanishAgain(u)
  /\ UNCHANGED clientVars

SignalRemoved(u) ==
  /\ Vanish(u) \/ VanishAgain(u)
  /\ Send(<<Message("devicesRemoved", DescribedBy[u])>>)
  /\ UNCHANGED <<call, held, knows>>

\* Faulty variant: the call is taken, and nobody answers it.
LeaveUnanswered(last) ==
  /\ Send(last \o <<Vanished>>)
  /\ call' = IF call = "sent" THEN "answered" ELSE call
  /\ UNCHANGED <<held, knows>>

\* The process has gone, after it sent last.  A call it did not answer ends with
\* an error, if the bus had passed it on; otherwise it goes to the next process.
Leave(last) ==
  /\ \/ Send(last \o <<Vanished>>) /\ UNCHANGED call
     \/ call = "sent" /\ Send(last \o <<Vanished, NoReply>>) /\ call' = "answered"
  /\ UNCHANGED <<held, knows>>

\* ~DeviceList(): a signal for each root device, in the order of a QHash.
LeaveInOrder ==
  /\ SignOff
  /\ \E order \in SetToSeqs(entries) :
       Leave([i \in DOMAIN order |-> Message("devicesRemoved", DescribedBy[order[i]])])

LeaveByCrash == Crash /\ Leave(<<>>)

\* The call that waits, or somebody else, starts the service.
Activate == Start /\ UNCHANGED clientVars

\* Faulty variant: the devices are counted first, and no reply is sent for none.
AnswerNonEmpty ==
  /\ serving
  /\ call = "sent"
  /\ Listed # {}
  /\ call' = "answered"
  /\ Send(<<Message("reply", Listed)>>)
  /\ UNCHANGED <<cacheVars, held, knows>>

\* allDevices()
Answer ==
  /\ serving
  /\ call = "sent"
  /\ call' = "answered"
  /\ Send(<<Message("reply", Listed)>>)
  /\ UNCHANGED <<cacheVars, held, knows>>

-----------------------------------------------------------------------------
(***************************************************************************)
(* The client.                                                             *)
(***************************************************************************)
Ask ==
  /\ ~ knows
  /\ call = "none"
  /\ call' = "sent"
  /\ UNCHANGED <<cacheVars, inbox, held, knows>>

\* A client that has lost the service holds nothing, and the next process will
\* signal every device it finds: there is nothing left to ask for.
Receive ==
  /\ inbox # <<>>
  /\ LET m == Head(inbox) IN
       /\ held' = CASE m.kind = "devicesAdded"    -> held \cup m.names
                    [] m.kind = "devicesRemoved"  -> held \ m.names
                    [] m.kind = "reply"           -> m.names
                    [] m.kind = "serviceVanished" -> {}
                    [] m.kind = "error"           -> held
       /\ knows' = (knows \/ m.kind \in {"reply", "serviceVanished"})
       /\ call' = IF m.kind \in {"reply", "error"} THEN "none" ELSE call
  /\ inbox' = Tail(inbox)
  /\ UNCHANGED cacheVars

\* The client is started anew, with a new connection to the bus.
Reconnect ==
  /\ inbox' = <<>> /\ call' = "none" /\ held' = {} /\ knows' = FALSE
  /\ UNCHANGED cacheVars

ClientNext ==
  \/ \E u \in Uuid : SignalAdded(u) \/ SignalRemoved(u)
  \/ LeaveInOrder
  \/ LeaveByCrash
  \/ Activate
  \/ Answer
  \/ Ask
  \/ Receive
  \/ Reconnect

(***************************************************************************)
(* The client does what it can, and the bus activates the service for it.  *)
(* Answer is fair in the strong sense: a process may end before it has     *)
(* read the call, but not each one that is started for it.                 *)
(***************************************************************************)
ClientFairness ==
  /\ WF_allVars(Receive)
  /\ WF_allVars(Ask)
  /\ WF_allVars(call = "sent" /\ Activate)
  /\ SF_allVars(Answer)

ClientSpec == ClientInit /\ [][ClientNext]_allVars /\ ClientFairness

-----------------------------------------------------------------------------
(***************************************************************************)
(* Properties.                                                             *)
(***************************************************************************)

Names == UNION {DescribedBy[u] : u \in Uuid}

\* Names that a single description mentions.
OwnNames ==
  {n \in Names : \A u, v \in Uuid : n \in DescribedBy[u] \cap DescribedBy[v] => u = v}

\* The types; a call is answered exactly when its reply or error is under way.
ClientTypeOK ==
  /\ serving \in BOOLEAN /\ entries \subseteq Uuid /\ reported \subseteq Names
  /\ inbox \in Seq([kind : {"devicesAdded", "devicesRemoved", "reply", "error", "serviceVanished"},
                    names : SUBSET Names])
  /\ call \in {"none", "sent", "answered"} /\ held \subseteq Names /\ knows \in BOOLEAN
  /\ call = "answered" <=> \E m \in ToSet(inbox) : m.kind \in {"reply", "error"}

\* A client that has read all its messages holds exactly what allDevices() would
\* list, whatever came and went between its call, the reply and the signals, and
\* also without another query after the service was lost or started again.
\* Names that several descriptions mention are left aside.
CaughtUp ==
  knows /\ inbox = <<>> => held \cap OwnNames = Listed \cap OwnNames

\* Even while it waits for its first reply, and with names that several
\* descriptions mention, such a client never holds a device that is not listed.
NoGhosts == inbox = <<>> => held \subseteq Listed

\* A client learns of the devices, although the service may not be running, may
\* shut down before it has read the call, or crash; unless the client itself is
\* started again and again.
LearnsDevices == []<>knows \/ []<><<Reconnect>>_allVars
=============================================================================
