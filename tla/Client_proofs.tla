---------------------------- MODULE Client_proofs ---------------------------
(***************************************************************************)
(* Proofs about Client: for all root devices and descriptions, whatever    *)
(* the order of calls, replies, signals, crashes and restarts.             *)
(*                                                                         *)
(* What the client holds is right only when it has read its messages.  The *)
(* inductive invariant is about what it will hold then: the last message   *)
(* that says something about a name has the last word.                     *)
(***************************************************************************)
EXTENDS Client, SequenceTheorems, FiniteSetTheorems, TLAPS

Kinds == {"devicesAdded", "devicesRemoved", "reply", "error", "serviceVanished"}
Messages == [kind : Kinds, names : SUBSET Names]

Answers(m) == m.kind \in {"reply", "error"}
Informs(m) == m.kind \in {"reply", "serviceVanished"}

\* After m the client knows whether the device is present; Asserts: it is.
Decides(m, n) == Informs(m) \/ (m.kind \in {"devicesAdded", "devicesRemoved"} /\ n \in m.names)
Asserts(m, n) == m.kind \in {"devicesAdded", "reply"} /\ n \in m.names

Silent(seq, n) == \A j \in DOMAIN seq : ~ Decides(seq[j], n)
SilentAfter(seq, i, n) == \A j \in DOMAIN seq : j > i => ~ Decides(seq[j], n)
AssertedLast(seq, n) == \E i \in DOMAIN seq : Asserts(seq[i], n) /\ SilentAfter(seq, i, n)

\* What a client that holds names will hold after it has read seq.
After(seq, names) ==
  {n \in Names : AssertedLast(seq, n) \/ (n \in names /\ Silent(seq, n))}

WillHold == After(inbox, held)
WillKnow == knows \/ \E i \in DOMAIN inbox : Informs(inbox[i])

HasAnswer(seq) == \E i \in DOMAIN seq : Answers(seq[i])
OneAnswer(seq) == \A i, j \in DOMAIN seq : Answers(seq[i]) /\ Answers(seq[j]) => i = j

\* CaughtUp and NoGhosts, ahead of the messages on their way.
WillCatchUp == WillKnow => WillHold \cap OwnNames = Listed \cap OwnNames
NoGhostsLeft == WillHold \subseteq Listed

ClientInv ==
  /\ ClientTypeOK /\ OneAnswer(inbox) /\ IsFiniteSet(entries)
  /\ WillCatchUp /\ NoGhostsLeft

-----------------------------------------------------------------------------
(***************************************************************************)
(* Laws of After.                                                          *)
(***************************************************************************)

\* The elements of a concatenation are those of its parts, in this order.
LEMMA ConcatElements ==
  ASSUME NEW s \in Seq(Messages), NEW t \in Seq(Messages)
  PROVE  /\ Len(s) \in Nat /\ DOMAIN s \subseteq Int /\ DOMAIN t \subseteq Int
         /\ \A i \in DOMAIN s : i \in DOMAIN (s \o t) /\ (s \o t)[i] = s[i] /\ i <= Len(s)
         /\ \A i \in DOMAIN t :
              Len(s) + i \in DOMAIN (s \o t) /\ (s \o t)[Len(s) + i] = t[i] /\ Len(s) + i > Len(s)
         /\ \A j \in DOMAIN (s \o t) : j \in DOMAIN s \/ \E i \in DOMAIN t : j = Len(s) + i
<1>1. /\ Len(s) \in Nat /\ Len(t) \in Nat /\ Len(s \o t) = Len(s) + Len(t)
      /\ DOMAIN s = 1 .. Len(s) /\ DOMAIN t = 1 .. Len(t) /\ DOMAIN (s \o t) = 1 .. Len(s) + Len(t)
  BY ConcatProperties, LenProperties
<1>2. \A i \in 1 .. Len(s) + Len(t) : (s \o t)[i] = IF i <= Len(s) THEN s[i] ELSE t[i - Len(s)]
  BY ConcatProperties
<1>3. \A i \in 1 .. Len(s) : (s \o t)[i] = s[i] /\ i \in 1 .. Len(s) + Len(t)
  BY <1>1, <1>2
<1>4. \A i \in 1 .. Len(t) : /\ Len(s) + i \in 1 .. Len(s) + Len(t)
                             /\ (s \o t)[Len(s) + i] = t[i]
  BY <1>1, <1>2
<1>5. \A j \in 1 .. Len(s) + Len(t) : j \in 1 .. Len(s) \/ \E i \in 1 .. Len(t) : j = Len(s) + i
  <2> SUFFICES ASSUME NEW j \in 1 .. Len(s) + Len(t), j \notin 1 .. Len(s)
               PROVE  j - Len(s) \in 1 .. Len(t) /\ j = Len(s) + (j - Len(s))
    BY Zenon
  <2> QED
    BY <1>1
<1>6. /\ \A i \in 1 .. Len(s) : i <= Len(s)
      /\ \A i \in 1 .. Len(t) : Len(s) + i > Len(s)
      /\ 1 .. Len(s) \subseteq Int /\ 1 .. Len(t) \subseteq Int
  BY <1>1
<1> QED
  BY <1>1, <1>3, <1>4, <1>5, <1>6, Zenon

\* Nothing is decided by no message.
LEMMA AfterNone == \A names \in SUBSET Names : After(<<>>, names) = names
  BY DEF After, AssertedLast, Silent

\* To read two sequences is to read one after the other.
LEMMA AfterConcat ==
  ASSUME NEW s \in Seq(Messages), NEW t \in Seq(Messages), NEW names
  PROVE  After(s \o t, names) = After(t, After(s, names))
<1> DEFINE k == Len(s)
           st == s \o t
<1>1. /\ k \in Nat /\ DOMAIN s \subseteq Int /\ DOMAIN t \subseteq Int
      /\ \A i \in DOMAIN s : i \in DOMAIN st /\ st[i] = s[i] /\ i <= k
      /\ \A i \in DOMAIN t : k + i \in DOMAIN st /\ st[k + i] = t[i] /\ k + i > k
      /\ \A j \in DOMAIN st : j \in DOMAIN s \/ \E i \in DOMAIN t : j = k + i
  BY ConcatElements
<1> HIDE DEF k, st
<1>2. \A n : Silent(st, n) <=> Silent(s, n) /\ Silent(t, n)
  BY <1>1 DEF Silent
<1>3. \A n : \A i \in DOMAIN t : SilentAfter(st, k + i, n) <=> SilentAfter(t, i, n)
  BY <1>1 DEF SilentAfter
<1>4. \A n : \A i \in DOMAIN s : SilentAfter(st, i, n) <=> SilentAfter(s, i, n) /\ Silent(t, n)
  BY <1>1 DEF SilentAfter, Silent
<1>5. \A n : AssertedLast(st, n) <=> (AssertedLast(s, n) /\ Silent(t, n)) \/ AssertedLast(t, n)
  BY <1>1, <1>3, <1>4 DEF AssertedLast
<1>6. \A n : n \in After(st, names) <=>
               n \in Names /\ (AssertedLast(st, n) \/ (n \in names /\ Silent(st, n)))
  BY DEF After
<1>7. \A n : n \in After(s, names) <=>
               n \in Names /\ (AssertedLast(s, n) \/ (n \in names /\ Silent(s, n)))
  BY DEF After
<1>8. \A n : n \in After(t, After(s, names)) <=>
               n \in Names /\ (AssertedLast(t, n) \/ (n \in After(s, names) /\ Silent(t, n)))
  BY DEF After
<1>9. After(st, names) = After(t, After(s, names))
  BY <1>2, <1>5, <1>6, <1>7, <1>8
<1> QED
  BY <1>9 DEF st

\* One message.
LEMMA AfterOne ==
  ASSUME NEW m, NEW names
  PROVE  After(<<m>>, names) =
           {n \in Names : Asserts(m, n) \/ (n \in names /\ ~ Decides(m, n))}
<1> DEFINE s == <<m>>
<1>1. DOMAIN s = {1} /\ s[1] = m
  OBVIOUS
<1> HIDE DEF s
<1>2. \A n : AssertedLast(s, n) <=> Asserts(m, n)
  BY <1>1 DEF AssertedLast, SilentAfter
<1>3. \A n : Silent(s, n) <=> ~ Decides(m, n)
  BY <1>1 DEF Silent
<1>4. After(s, names) = {n \in Names : Asserts(m, n) \/ (n \in names /\ ~ Decides(m, n))}
  BY <1>2, <1>3 DEF After
<1> QED
  BY <1>4 DEF s

\* Messages that the service and the bus make.
LEMMA MessageType ==
  /\ \A kind \in Kinds, names \in SUBSET Names : Message(kind, names) \in Messages
  /\ Vanished \in Messages /\ NoReply \in Messages
  BY DEF Messages, Kinds, Message, Vanished, NoReply

\* The first message, and then the others.
LEMMA AfterHead ==
  ASSUME NEW s \in Seq(Messages), s # <<>>, NEW names
  PROVE  After(s, names) = After(Tail(s), After(<<Head(s)>>, names))
<1>1. Head(s) \in Messages /\ Tail(s) \in Seq(Messages)
  BY HeadTailProperties
<1>2. s = <<Head(s)>> \o Tail(s) /\ <<Head(s)>> \in Seq(Messages)
  BY <1>1
<1> DEFINE h == <<Head(s)>>  r == Tail(s)
<1>3. After(h \o r, names) = After(r, After(h, names))
  BY <1>1, <1>2, AfterConcat
<1> QED
  BY <1>2, <1>3

\* Two messages are one after the other.
LEMMA PairIsConcat ==
  ASSUME NEW a \in Messages, NEW b \in Messages
  PROVE  <<a, b>> = <<a>> \o <<b>>
<1> DEFINE s == <<a>>
           t == <<b>>
           p == <<a, b>>
<1>1. /\ s \in Seq(Messages) /\ Len(s) = 1 /\ s[1] = a
      /\ t \in Seq(Messages) /\ Len(t) = 1 /\ t[1] = b
      /\ p \in Seq(Messages) /\ Len(p) = 2 /\ p[1] = a /\ p[2] = b
  OBVIOUS
<1> HIDE DEF s, t, p
<1>2. s \o t \in Seq(Messages) /\ Len(s \o t) = 2 /\ \A i \in 1 .. 2 : (s \o t)[i] = p[i]
  BY <1>1, ConcatProperties
<1>3. p = s \o t
  BY <1>1, <1>2, SeqEqual
<1> QED
  BY <1>3 DEF s, t, p

\* Nothing is held after the loss of the service.
LEMMA AfterVanished ==
  ASSUME NEW s \in Seq(Messages), NEW names
  PROVE  /\ After(s \o <<Vanished>>, names) = {}
         /\ After(s \o <<Vanished, NoReply>>, names) = {}
<1>1. ASSUME NEW before PROVE After(<<Vanished>>, before) = {}
  BY AfterOne DEF Asserts, Decides, Informs, Vanished, Message
<1>2. ASSUME NEW before PROVE After(<<NoReply>>, before) \subseteq before
  BY AfterOne DEF Asserts, NoReply, Message
<1>3. <<Vanished>> \in Seq(Messages) /\ <<NoReply>> \in Seq(Messages)
  BY MessageType
<1>4. After(s \o <<Vanished>>, names) = {}
  <2>1. After(s \o <<Vanished>>, names) = After(<<Vanished>>, After(s, names))
    BY <1>3, AfterConcat
  <2> QED
    BY <2>1, <1>1
<1>5. After(s \o <<Vanished, NoReply>>, names) = {}
  <2>1. <<Vanished, NoReply>> = <<Vanished>> \o <<NoReply>>
    BY MessageType, PairIsConcat
  <2>2. /\ s \o <<Vanished>> \in Seq(Messages)
        /\ s \o <<Vanished, NoReply>> = (s \o <<Vanished>>) \o <<NoReply>>
    BY <1>3, <2>1, ConcatProperties, ConcatAssociative
  <2>3. After((s \o <<Vanished>>) \o <<NoReply>>, names) =
          After(<<NoReply>>, After(s \o <<Vanished>>, names))
    BY <1>3, <2>2, AfterConcat
  <2> QED
    BY <2>2, <2>3, <1>2, <1>4
<1> QED
  BY <1>4, <1>5

-----------------------------------------------------------------------------
(***************************************************************************)
(* Sending: the inbox grows, and the call of the client stays in step.     *)
(***************************************************************************)
InboxType == inbox \in Seq(Messages)

AnswerInv == OneAnswer(inbox) /\ (call = "answered" <=> HasAnswer(inbox))

\* ClientTypeOK in these terms.
ClientTypeParts ==
  /\ serving \in BOOLEAN /\ entries \subseteq Uuid /\ reported \subseteq Names
  /\ InboxType /\ call \in {"none", "sent", "answered"} /\ held \subseteq Names
  /\ knows \in BOOLEAN
  /\ call = "answered" <=> HasAnswer(inbox)

LEMMA TypeParts ==
  (ClientTypeOK <=> ClientTypeParts) /\ (ClientTypeOK' <=> ClientTypeParts')
  BY DEF ClientTypeOK, ClientTypeParts, InboxType, Messages, Kinds, HasAnswer, Answers, ToSet

\* Messages that are not answers change nothing about the answers.
LEMMA ConcatNoAnswer ==
  ASSUME NEW s \in Seq(Messages), NEW t \in Seq(Messages), ~ HasAnswer(t)
  PROVE  (HasAnswer(s \o t) <=> HasAnswer(s)) /\ (OneAnswer(s) => OneAnswer(s \o t))
<1> DEFINE st == s \o t
<1>1. /\ \A i \in DOMAIN s : i \in DOMAIN st /\ st[i] = s[i]
      /\ \A i \in DOMAIN t : Len(s) + i \in DOMAIN st /\ st[Len(s) + i] = t[i]
      /\ \A j \in DOMAIN st : j \in DOMAIN s \/ \E i \in DOMAIN t : j = Len(s) + i
  BY ConcatElements
<1> HIDE DEF st
<1>2. \A j \in DOMAIN st : Answers(st[j]) => j \in DOMAIN s /\ Answers(s[j])
  BY <1>1 DEF HasAnswer
<1>3. (HasAnswer(st) <=> HasAnswer(s)) /\ (OneAnswer(s) => OneAnswer(st))
  BY <1>1, <1>2 DEF HasAnswer, OneAnswer
<1> QED
  BY <1>3 DEF st

\* The first answer is the only one.
LEMMA AppendAnswer ==
  ASSUME NEW s \in Seq(Messages), ~ HasAnswer(s), NEW m \in Messages, Answers(m)
  PROVE  HasAnswer(s \o <<m>>) /\ OneAnswer(s \o <<m>>)
<1> DEFINE t == <<m>>
           st == s \o t
<1>1. t \in Seq(Messages) /\ DOMAIN t = {1} /\ t[1] = m
  OBVIOUS
<1> HIDE DEF t
<1>2. /\ \A i \in DOMAIN s : i \in DOMAIN st /\ st[i] = s[i]
      /\ \A i \in DOMAIN t : Len(s) + i \in DOMAIN st /\ st[Len(s) + i] = t[i]
      /\ \A j \in DOMAIN st : j \in DOMAIN s \/ \E i \in DOMAIN t : j = Len(s) + i
  BY <1>1, ConcatElements
<1> HIDE DEF st
<1>3. \A j \in DOMAIN st : Answers(st[j]) => j = Len(s) + 1
  BY <1>1, <1>2 DEF HasAnswer
<1>4. HasAnswer(st) /\ OneAnswer(st)
  BY <1>1, <1>2, <1>3 DEF HasAnswer, OneAnswer
<1> QED
  BY <1>4 DEF st, t

\* The client will hold what the new messages make of what it would have held.
LEMMA SendHolds ==
  ASSUME InboxType, NEW t \in Seq(Messages), inbox' = inbox \o t, held' = held
  PROVE  InboxType' /\ WillHold' = After(t, WillHold)
<1>1. After(inbox \o t, held) = After(t, After(inbox, held))
  BY AfterConcat DEF InboxType
<1> QED
  BY <1>1, ConcatProperties DEF WillHold, InboxType

\* A message that does not inform leaves a client without knowledge without it.
LEMMA SendKnows ==
  ASSUME InboxType, NEW m \in Messages, ~ Informs(m), inbox' = inbox \o <<m>>, knows' = knows
  PROVE  WillKnow' <=> WillKnow
<1> DEFINE k == Len(inbox)
           t == <<m>>
<1>1. t \in Seq(Messages) /\ DOMAIN t = {1} /\ t[1] = m /\ inbox' = inbox \o t
  OBVIOUS
<1> HIDE DEF t
<1>2. /\ \A i \in DOMAIN inbox : i \in DOMAIN (inbox \o t) /\ (inbox \o t)[i] = inbox[i]
      /\ \A i \in DOMAIN t : k + i \in DOMAIN (inbox \o t) /\ (inbox \o t)[k + i] = t[i]
      /\ \A j \in DOMAIN (inbox \o t) : j \in DOMAIN inbox \/ \E i \in DOMAIN t : j = k + i
  BY <1>1, ConcatElements DEF InboxType
<1> QED
  BY <1>1, <1>2 DEF WillKnow

\* When the service leaves, the client will hold nothing, and is answered if the
\* bus has passed its call on.
LEMMA LeaveHolds ==
  ASSUME InboxType, AnswerInv, call \in {"none", "sent", "answered"},
         NEW last \in Seq(Messages), ~ HasAnswer(last), Leave(last)
  PROVE  /\ InboxType' /\ AnswerInv' /\ call' \in {"none", "sent", "answered"}
         /\ WillHold' = {}
<1> DEFINE gone == last \o <<Vanished>>
<1>1. <<Vanished>> \in Seq(Messages) /\ <<NoReply>> \in Seq(Messages)
  BY MessageType
<1>2. gone \in Seq(Messages) /\ ~ HasAnswer(gone)
  <2>1. ~ HasAnswer(<<Vanished>>)
    BY DEF HasAnswer, Answers, Vanished, Message
  <2> QED
    BY <1>1, <2>1, ConcatNoAnswer, ConcatProperties
<1> HIDE DEF gone
<1>3. /\ inbox \o gone \in Seq(Messages)
      /\ OneAnswer(inbox \o gone) /\ (HasAnswer(inbox \o gone) <=> HasAnswer(inbox))
  BY <1>2, ConcatNoAnswer, ConcatProperties DEF InboxType, AnswerInv
<1>4. CASE inbox' = inbox \o gone /\ call' = call
  <2>1. InboxType' /\ WillHold' = After(gone, WillHold)
    BY <1>2, <1>4, SendHolds DEF Leave
  <2>2. After(gone, WillHold) = {}
    BY AfterVanished DEF gone
  <2> QED
    BY <1>3, <1>4, <2>1, <2>2 DEF AnswerInv
<1>5. CASE call = "sent" /\ inbox' = inbox \o (last \o <<Vanished, NoReply>>) /\ call' = "answered"
  <2>1. last \o <<Vanished, NoReply>> = gone \o <<NoReply>>
    BY <1>1, MessageType, PairIsConcat, ConcatAssociative DEF gone
  <2>2. inbox' = (inbox \o gone) \o <<NoReply>> /\ gone \o <<NoReply>> \in Seq(Messages)
    <3>1. inbox \o (gone \o <<NoReply>>) = (inbox \o gone) \o <<NoReply>>
      BY <1>1, <1>2, ConcatAssociative DEF InboxType
    <3>2. gone \o <<NoReply>> \in Seq(Messages)
      BY <1>1, <1>2, ConcatProperties
    <3> QED
      BY <1>5, <2>1, <3>1, <3>2
  <2>3. InboxType' /\ WillHold' = After(last \o <<Vanished, NoReply>>, WillHold)
    BY <1>5, <2>1, <2>2, SendHolds DEF Leave
  <2>4. After(last \o <<Vanished, NoReply>>, WillHold) = {}
    BY AfterVanished
  <2>5. HasAnswer(inbox') /\ OneAnswer(inbox')
    <3>1. Answers(NoReply)
      BY DEF Answers, NoReply, Message
    <3> QED
      BY <1>3, <1>5, <2>2, <3>1, MessageType, AppendAnswer DEF AnswerInv
  <2> QED
    BY <1>5, <2>3, <2>4, <2>5 DEF AnswerInv
<1> QED
  BY <1>4, <1>5 DEF Leave, Send, gone

-----------------------------------------------------------------------------
(***************************************************************************)
(* The inductive step.                                                     *)
(***************************************************************************)

\* Names of one description, and of all in the cache.
LEMMA NamesType ==
  /\ \A u \in Uuid : DescribedBy[u] \subseteq Names
  /\ entries \subseteq Uuid => Listed \subseteq Names
  BY DEF Names, Listed

\* A signal on its way decides about the names it is about, and no other.
LEMMA SignalHolds ==
  ASSUME InboxType, AnswerInv, call \in {"none", "sent", "answered"},
         NEW kind \in {"devicesAdded", "devicesRemoved"}, NEW names \in SUBSET Names,
         Send(<<Message(kind, names)>>), UNCHANGED <<call, held, knows>>
  PROVE  /\ InboxType' /\ AnswerInv' /\ (WillKnow' <=> WillKnow)
         /\ WillHold' = IF kind = "devicesAdded" THEN WillHold \cup names ELSE WillHold \ names
<1> DEFINE m == Message(kind, names)
<1>1. m \in Messages /\ <<m>> \in Seq(Messages) /\ ~ Answers(m) /\ ~ Informs(m)
  BY DEF Messages, Kinds, Answers, Informs, Message
<1>2. inbox' = inbox \o <<m>>
  BY DEF Send
<1>3. AnswerInv'
  <2>1. ~ HasAnswer(<<m>>)
    BY <1>1 DEF HasAnswer
  <2> QED
    BY <1>1, <1>2, <2>1, ConcatNoAnswer DEF AnswerInv, InboxType
<1>4. InboxType' /\ WillHold' = After(<<m>>, WillHold)
  BY <1>1, <1>2, SendHolds
<1>5. WillKnow' <=> WillKnow
  BY <1>1, <1>2, SendKnows
<1>6. WillHold \subseteq Names
  BY DEF WillHold, After
<1>7. After(<<m>>, WillHold) =
        IF kind = "devicesAdded" THEN WillHold \cup names ELSE WillHold \ names
  <2>1. /\ After(<<m>>, WillHold) =
             {n \in Names : Asserts(m, n) \/ (n \in WillHold /\ ~ Decides(m, n))}
        /\ m.kind = kind /\ m.names = names
    BY AfterOne DEF Message
  <2> QED
    BY <1>6, <2>1 DEF Asserts, Decides, Informs
<1> QED
  BY <1>3, <1>4, <1>5, <1>7

\* Devices that come.
LEMMA AddedKeeps ==
  ASSUME ClientInv, NEW u \in Uuid, SignalAdded(u)
  PROVE  ClientInv'
<1> USE DEF SignalAdded, Appear
<1>1. DescribedBy[u] \in SUBSET Names
  BY NamesType
<1>2. InboxType /\ AnswerInv /\ call \in {"none", "sent", "answered"}
  BY TypeParts DEF ClientTypeParts, ClientInv, AnswerInv
<1>3. /\ InboxType' /\ AnswerInv' /\ (WillKnow' <=> WillKnow)
      /\ WillHold' = WillHold \cup DescribedBy[u]
  BY <1>1, <1>2, SignalHolds
<1>4. Listed' = Listed \cup DescribedBy[u]
  BY DEF Listed
<1>5. IsFiniteSet(entries')
  BY FS_AddElement DEF ClientInv
<1>6. ClientTypeOK'
  BY <1>1, <1>2, <1>3, TypeParts DEF ClientTypeParts, ClientInv, AnswerInv
<1> QED
  BY <1>3, <1>4, <1>5, <1>6 DEF ClientInv, AnswerInv, WillCatchUp, NoGhostsLeft, OwnNames

\* Devices that go: of the names of such a description nobody else has one.
LEMMA RemovedKeeps ==
  ASSUME ClientInv, NEW u \in Uuid, SignalRemoved(u)
  PROVE  ClientInv'
<1> USE DEF SignalRemoved, Vanish, VanishAgain
<1>1. DescribedBy[u] \in SUBSET Names
  BY NamesType
<1>2. InboxType /\ AnswerInv /\ call \in {"none", "sent", "answered"}
  BY TypeParts DEF ClientTypeParts, ClientInv, AnswerInv
<1>3. /\ InboxType' /\ AnswerInv' /\ (WillKnow' <=> WillKnow)
      /\ WillHold' = WillHold \ DescribedBy[u]
  BY <1>1, <1>2, SignalHolds
<1>4. entries' = entries \ {u} /\ reported' = reported \ DescribedBy[u] /\ serving' = serving
  OBVIOUS
<1>5. Listed \ DescribedBy[u] \subseteq Listed' /\ Listed' \subseteq Listed
  BY <1>4 DEF Listed
<1>6. OwnNames \cap Listed' = (OwnNames \cap Listed) \ DescribedBy[u]
  <2>1. entries \subseteq Uuid
    BY TypeParts DEF ClientTypeParts, ClientInv
  <2>2. \A n \in OwnNames : n \in DescribedBy[u] => n \notin Listed'
    BY <1>4, <2>1 DEF Listed, OwnNames
  <2> QED
    BY <1>5, <2>2
<1>7. IsFiniteSet(entries')
  BY <1>4, FS_RemoveElement DEF ClientInv
<1>8. ClientTypeOK'
  BY <1>2, <1>3, <1>4, TypeParts DEF ClientTypeParts, ClientInv, AnswerInv
<1>9. OwnNames' = OwnNames
  BY DEF OwnNames
<1> QED
  BY <1>3, <1>5, <1>6, <1>7, <1>8, <1>9 DEF ClientInv, AnswerInv, WillCatchUp, NoGhostsLeft

\* The service goes, with its last signals or without.
LEMMA LeaveKeeps ==
  ASSUME ClientInv, LeaveInOrder \/ LeaveByCrash
  PROVE  ClientInv'
<1>1. InboxType /\ AnswerInv /\ call \in {"none", "sent", "answered"}
  BY TypeParts DEF ClientTypeParts, ClientInv, AnswerInv
<1>2. PICK last \in Seq(Messages) : ~ HasAnswer(last) /\ Leave(last)
  <2>1. CASE LeaveInOrder
    <3>1. PICK order \in SetToSeqs(entries) :
            Leave([i \in DOMAIN order |-> Message("devicesRemoved", DescribedBy[order[i]])])
      BY <2>1 DEF LeaveInOrder
    <3> DEFINE last == [i \in DOMAIN order |-> Message("devicesRemoved", DescribedBy[order[i]])]
    <3>2. Cardinality(entries) \in Nat
      BY FS_CardinalityType DEF ClientInv
    <3>3. DOMAIN order = 1 .. Cardinality(entries) /\ \A i \in DOMAIN order : order[i] \in entries
      BY <3>1 DEF SetToSeqs
    <3>4. \A i \in DOMAIN order : DescribedBy[order[i]] \in SUBSET Names
      BY <3>3, NamesType, TypeParts DEF ClientTypeParts, ClientInv
    <3>5. \A i \in DOMAIN order :
            last[i] \in Messages /\ ~ Answers(last[i])
      BY <3>4, MessageType DEF Answers, Kinds, Message
    <3>6. last \in Seq(Messages)
      BY <3>2, <3>3, <3>5
    <3>7. ~ HasAnswer(last)
      BY <3>5 DEF HasAnswer
    <3> QED
      BY <3>1, <3>6, <3>7
  <2>2. CASE LeaveByCrash
    <3>1. ~ HasAnswer(<<>>) /\ <<>> \in Seq(Messages)
      BY DEF HasAnswer
    <3> QED
      BY <2>2, <3>1 DEF LeaveByCrash
  <2> QED
    BY <2>1, <2>2
<1>3. /\ InboxType' /\ AnswerInv' /\ call' \in {"none", "sent", "answered"}
      /\ WillHold' = {}
  BY <1>1, <1>2, LeaveHolds
<1>4. entries' = {} /\ reported' \subseteq reported /\ serving' = FALSE
  BY DEF LeaveInOrder, LeaveByCrash, SignOff, Crash
<1>5. held' = held /\ knows' = knows
  BY <1>2 DEF Leave
<1>6. Listed' = {} /\ IsFiniteSet(entries')
  BY <1>4, FS_EmptySet DEF Listed
<1>7. ClientTypeOK'
  BY <1>3, <1>4, <1>5, TypeParts DEF ClientTypeParts, ClientInv, AnswerInv
<1> QED
  BY <1>3, <1>6, <1>7 DEF ClientInv, AnswerInv, WillCatchUp, NoGhostsLeft

\* The reply lists what is there now, whatever was sent before.
LEMMA AnswerKeeps ==
  ASSUME ClientInv, Answer
  PROVE  ClientInv'
<1> USE DEF Answer, cacheVars
<1> DEFINE m == Message("reply", Listed)
<1>1. InboxType /\ AnswerInv /\ Listed \in SUBSET Names
  BY TypeParts, NamesType DEF ClientTypeParts, ClientInv, AnswerInv
<1>2. m \in Messages /\ <<m>> \in Seq(Messages) /\ Answers(m) /\ inbox' = inbox \o <<m>>
  BY <1>1 DEF Messages, Kinds, Answers, Message, Send
<1>3. AnswerInv'
  <2>1. ~ HasAnswer(inbox)
    BY <1>1 DEF AnswerInv
  <2> QED
    BY <1>1, <1>2, <2>1, AppendAnswer DEF AnswerInv, InboxType
<1>4. InboxType' /\ WillHold' = After(<<m>>, WillHold)
  BY <1>1, <1>2, SendHolds
<1>5. After(<<m>>, WillHold) = Listed
  <2>1. /\ After(<<m>>, WillHold) =
             {n \in Names : Asserts(m, n) \/ (n \in WillHold /\ ~ Decides(m, n))}
        /\ m.kind = "reply" /\ m.names = Listed
    BY AfterOne DEF Message
  <2> QED
    BY <1>1, <2>1 DEF Asserts, Decides, Informs
<1>6. Listed' = Listed /\ OwnNames' = OwnNames
  BY DEF Listed, OwnNames
<1>7. ClientTypeOK'
  BY <1>3, <1>4, TypeParts DEF ClientTypeParts, ClientInv, AnswerInv
<1> QED
  BY <1>3, <1>4, <1>5, <1>6, <1>7 DEF ClientInv, AnswerInv, WillCatchUp, NoGhostsLeft

\* To read a message changes nothing about what will be held in the end.
LEMMA ReceiveKeeps ==
  ASSUME ClientInv, Receive
  PROVE  ClientInv'
<1> USE DEF Receive, cacheVars
<1> DEFINE m == Head(inbox)
<1>1. /\ InboxType /\ AnswerInv /\ held \subseteq Names /\ knows \in BOOLEAN
      /\ call \in {"none", "sent", "answered"}
  BY TypeParts DEF ClientTypeParts, ClientInv, AnswerInv
<1>2. /\ m \in Messages /\ InboxType' /\ m = inbox[1] /\ 1 \in DOMAIN inbox
      /\ \A i \in DOMAIN inbox' : i + 1 \in DOMAIN inbox /\ inbox'[i] = inbox[i + 1] /\ i \in Nat
      /\ \A j \in DOMAIN inbox : j # 1 => j - 1 \in DOMAIN inbox' /\ inbox[j] = inbox'[j - 1]
  BY <1>1, HeadTailProperties, LenProperties DEF InboxType
<1>3. held' = After(<<m>>, held)
  <2>1. /\ After(<<m>>, held) = {n \in Names : Asserts(m, n) \/ (n \in held /\ ~ Decides(m, n))}
        /\ m.kind \in Kinds /\ m.names \subseteq Names
    BY <1>2, AfterOne DEF Messages
  <2>2. held' \subseteq Names
    BY <1>1, <2>1 DEF Kinds
  <2>3. \A n \in Names : n \in held' <=> Asserts(m, n) \/ (n \in held /\ ~ Decides(m, n))
    BY <1>1, <2>1 DEF Kinds, Asserts, Decides, Informs
  <2> QED
    BY <2>1, <2>2, <2>3
<1>4. WillHold' = WillHold
  BY <1>1, <1>3, AfterHead DEF WillHold, InboxType
<1>5. WillKnow' <=> WillKnow
  <2>1. knows' <=> knows \/ Informs(m)
    BY DEF Informs
  <2>2. (\E i \in DOMAIN inbox : Informs(inbox[i])) <=>
          Informs(m) \/ \E i \in DOMAIN inbox' : Informs(inbox'[i])
    BY <1>2
  <2> QED
    BY <2>1, <2>2 DEF WillKnow
<1>6. AnswerInv'
  <2>1. HasAnswer(inbox) <=> Answers(m) \/ HasAnswer(inbox')
    BY <1>2 DEF HasAnswer
  <2>2. OneAnswer(inbox') /\ (Answers(m) => ~ HasAnswer(inbox'))
    <3>1. \A i, j \in DOMAIN inbox' : i + 1 = j + 1 => i = j
      BY <1>2
    <3>2. \A i \in DOMAIN inbox' : i + 1 # 1
      BY <1>2
    <3> QED
      BY <1>1, <1>2, <3>1, <3>2 DEF AnswerInv, OneAnswer, HasAnswer
  <2>3. call' = IF Answers(m) THEN "none" ELSE call
    BY DEF Answers
  <2> QED
    BY <1>1, <2>1, <2>2, <2>3 DEF AnswerInv
<1>7. Listed' = Listed /\ OwnNames' = OwnNames
  BY DEF Listed, OwnNames
<1>8. held' \subseteq Names
  BY <1>3 DEF After
<1>9. ClientTypeOK'
  BY <1>1, <1>2, <1>6, <1>8, TypeParts DEF ClientTypeParts, ClientInv, AnswerInv
<1> QED
  BY <1>4, <1>5, <1>6, <1>7, <1>9 DEF ClientInv, AnswerInv, WillCatchUp, NoGhostsLeft

\* The start of the service, the call and a new client.
LEMMA OthersKeep ==
  ASSUME ClientInv, Activate \/ Ask \/ Reconnect \/ UNCHANGED allVars
  PROVE  ClientInv'
<1>1. InboxType /\ AnswerInv
  BY TypeParts DEF ClientTypeParts, ClientInv, AnswerInv
<1>2. entries' = entries /\ reported' = reported /\ Listed' = Listed /\ OwnNames' = OwnNames
  BY DEF Activate, Ask, Reconnect, Start, allVars, cacheVars, Listed, OwnNames
<1>3. CASE inbox' = inbox /\ held' = held /\ knows' = knows /\ (call' = call \/ (call = "none" /\ call' = "sent"))
  <2>1. InboxType' /\ AnswerInv' /\ WillHold' = WillHold /\ (WillKnow' <=> WillKnow)
    BY <1>1, <1>3 DEF InboxType, AnswerInv, WillHold, WillKnow
  <2>2. ClientTypeOK'
    BY <1>2, <1>3, <2>1, TypeParts DEF ClientTypeParts, ClientInv, AnswerInv, Activate, Ask, Reconnect, Start, allVars, cacheVars
  <2> QED
    BY <1>2, <2>1, <2>2 DEF ClientInv, AnswerInv, WillCatchUp, NoGhostsLeft
<1>4. CASE Reconnect
  <2>1. InboxType' /\ AnswerInv'
    BY <1>4 DEF Reconnect, InboxType, AnswerInv, OneAnswer, HasAnswer
  <2>2. WillHold' = {} /\ ~ WillKnow'
    BY <1>4, AfterNone DEF Reconnect, WillHold, WillKnow
  <2>3. ClientTypeOK'
    BY <1>2, <1>4, <2>1, TypeParts DEF ClientTypeParts, ClientInv, AnswerInv, Reconnect, cacheVars
  <2> QED
    BY <1>2, <2>1, <2>2, <2>3 DEF ClientInv, AnswerInv, WillCatchUp, NoGhostsLeft
<1> QED
  BY <1>3, <1>4 DEF Activate, Ask, allVars, clientVars

\* The invariant holds at all times.
LEMMA ClientCorrect == ClientSpec => []ClientInv
<1>1. ClientInit => ClientInv
  <2> SUFFICES ASSUME ClientInit PROVE ClientInv
    OBVIOUS
  <2>1. InboxType /\ AnswerInv
    BY DEF ClientInit, InboxType, AnswerInv, OneAnswer, HasAnswer
  <2>2. WillHold = {} /\ ~ WillKnow /\ IsFiniteSet(entries)
    BY AfterNone, FS_EmptySet DEF ClientInit, Init, WillHold, WillKnow
  <2>3. ClientTypeOK
    BY <2>1, TypeParts DEF ClientTypeParts, ClientInit, Init, AnswerInv
  <2> QED
    BY <2>1, <2>2, <2>3 DEF ClientInv, AnswerInv, WillCatchUp, NoGhostsLeft
<1>2. ClientInv /\ [ClientNext]_allVars => ClientInv'
  <2> SUFFICES ASSUME ClientInv, [ClientNext]_allVars PROVE ClientInv'
    OBVIOUS
  <2>1. CASE \E u \in Uuid : SignalAdded(u) \/ SignalRemoved(u)
    BY <2>1, AddedKeeps, RemovedKeeps
  <2>2. CASE LeaveInOrder \/ LeaveByCrash
    BY <2>2, LeaveKeeps
  <2>3. CASE Answer
    BY <2>3, AnswerKeeps
  <2>4. CASE Receive
    BY <2>4, ReceiveKeeps
  <2>5. CASE Activate \/ Ask \/ Reconnect \/ UNCHANGED allVars
    BY <2>5, OthersKeep
  <2> QED
    BY <2>1, <2>2, <2>3, <2>4, <2>5 DEF ClientNext
<1> QED
  BY <1>1, <1>2, PTL DEF ClientSpec

-----------------------------------------------------------------------------
(***************************************************************************)
(* Theorems.                                                               *)
(***************************************************************************)

\* The types, and a call is answered exactly when its reply or error is under way.
THEOREM ClientTypeCorrect == ClientSpec => []ClientTypeOK
<1>1. ClientInv => ClientTypeOK
  BY DEF ClientInv
<1> QED
  BY <1>1, ClientCorrect, PTL

\* A client that has read all its messages holds what allDevices() would list,
\* with the names that only one description has.
THEOREM CaughtUpHolds == ClientSpec => []CaughtUp
<1>1. ClientInv => CaughtUp
  <2> SUFFICES ASSUME ClientInv, knows, inbox = <<>>
               PROVE  held \cap OwnNames = Listed \cap OwnNames
    BY DEF CaughtUp
  <2>1. WillKnow /\ WillHold = held
    BY AfterNone, TypeParts DEF ClientTypeParts, ClientInv, WillKnow, WillHold
  <2> QED
    BY <2>1 DEF ClientInv, WillCatchUp
<1> QED
  BY <1>1, ClientCorrect, PTL

\* And with all names, also before its first reply, it holds nothing else.
THEOREM NoGhostsHolds == ClientSpec => []NoGhosts
<1>1. ClientInv => NoGhosts
  <2> SUFFICES ASSUME ClientInv, inbox = <<>> PROVE held \subseteq Listed
    BY DEF NoGhosts
  <2>1. WillHold = held
    BY AfterNone, TypeParts DEF ClientTypeParts, ClientInv, WillHold
  <2> QED
    BY <2>1 DEF ClientInv, NoGhostsLeft
<1> QED
  BY <1>1, ClientCorrect, PTL

\* Whatever the client and the bus do, the service is the one DeviceCache
\* describes, of which Daemon is an implementation.
THEOREM ClientKeepsService == ClientSpec => Spec
<1>1. ClientInit => Init
  BY DEF ClientInit
<1>2. [ClientNext]_allVars => [Next]_cacheVars
  BY DEF ClientNext, Next, allVars, SignalAdded, SignalRemoved, LeaveInOrder, LeaveByCrash,
         Activate, Answer, Ask, Receive, Reconnect
<1> QED
  BY <1>1, <1>2, PTL DEF ClientSpec, Spec
=============================================================================
