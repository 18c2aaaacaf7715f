------------------------- MODULE PlayerSessionProofs -------------------------
(***************************************************************************)
(* Theorems about PlayerSession, for any devices, any drivers and however  *)
(* far the server is ahead of the client, and about PlayerCtrl, the loop   *)
(* the owner of a client runs in.                                          *)
(***************************************************************************)
EXTENDS PlayerSession, PlayerCtrl, SequenceTheorems, TLAPS

Request == [type : {"subscribe", "command"}, dev : Devices]

ClientTypeOK ==
  /\ isThreaded \in BOOLEAN /\ seenThreaded \in BOOLEAN
  /\ isRunning \in BOOLEAN /\ seenRunning \in BOOLEAN
  /\ owner \in {"idle", "wait", "close", "closed", "refused"}
  /\ waited \in BOOLEAN
  /\ reader \in Alive \cup {"new", "done", "dead"}

StreamTypeOK ==
  /\ threadedDrivers \subseteq Devices
  /\ outbox \in Seq(Request)
  /\ inbox \in Seq(Message)
  /\ inStep \in BOOLEAN
  /\ asked \in Devices \cup {Nobody}
  /\ asking \in {"no", "reading", "waiting"}

SessionTypeOK == ClientTypeOK /\ StreamTypeOK

(* What setNotThreaded relies on: isRunning is set while the reader runs   *)
(* and after it was lost, and whoever has seen it set, or waited for it,   *)
(* goes on only when it was reset.                                         *)
RunningKnown ==
  /\ isRunning <=> reader \in {"loop", "read", "leaving", "dead"}
  /\ seenRunning \/ waited => reader \notin {"new", "started"}
  /\ waited /\ owner \in {"wait", "close"} => seenRunning \/ reader = "done"
  /\ waited /\ owner \notin {"wait", "close"} => reader = "done"

(* A request keeps the owner from everything else, and is only read for by *)
(* an owner that is not threaded.                                          *)
AskingAlone ==
  /\ asking # "no" => asked # Nobody /\ owner \in {"idle", "refused"}
  /\ asking = "reading" => ~isThreaded

(* Before the i-th message of s is read, by a client that knows the devices *)
(* in known, it will know the device d.                                    *)
KnownBefore(s, known, i, d) ==
  d \in known \/ \E j \in 1..(i - 1) : s[j] = Msg("ack", d)

(* Data in s is of devices known by then, and so are those that publish    *)
(* next.                                                                   *)
Expected(s, known, publish) ==
  /\ \A i \in 1..Len(s) : s[i].type = "data" => KnownBefore(s, known, i, s[i].dev)
  /\ \A d \in publish : KnownBefore(s, known, Len(s) + 1, d)

DataExpected == threadedDrivers = {} /\ inStep => Expected(inbox, deviceList, feeds)

SessionInv == SessionTypeOK /\ RunningKnown /\ AskingAlone /\ DataExpected /\ StreamInStep

(* One thread reads, and has not been given an exception.                  *)
Watched ==
  /\ threadedDrivers = {}
  /\ owner # "refused" /\ reader # "dead"
  /\ reader = "new" \/ isThreaded

LEMMA RemoveAtType ==
  ASSUME NEW S, NEW s \in Seq(S), NEW i \in 1..Len(s)
  PROVE  RemoveAt(s, i) \in Seq(S)
<1>1. Len(s) \in Nat /\ \A k \in 1..Len(s) : s[k] \in S
  BY LenProperties, ElementOfSeq
<1>2. \A k \in 1..(i - 1) : s[k] \in S
  BY <1>1
<1>3. \A k \in (i + 1)..Len(s) : s[k] \in S
  BY <1>1
<1>4. SubSeq(s, 1, i - 1) \in Seq(S)
  BY <1>1, <1>2, SubSeqProperties
<1>5. SubSeq(s, i + 1, Len(s)) \in Seq(S)
  BY <1>1, <1>3, SubSeqProperties
<1> QED
  BY <1>4, <1>5, ConcatProperties DEF RemoveAt

-----------------------------------------------------------------------------
(* What the steps do to the parts of the state.                            *)

\* The thread pair of PlayerClient moves by its own rules, or the owner gets
\* an exception out of a request.
LEMMA ClientStep ==
  ASSUME SessionTypeOK, AskingAlone, SessionNext
  PROVE  \/ (OwnerStep /\ asked = Nobody) \/ ReaderStep \/ SeeThreaded \/ SeeRunning
         \/ UNCHANGED vars
         \/ Exception /\ owner \in {"idle", "refused"}
<1>1. CASE OwnerActs \/ ReaderActs \/ ReaderLost \/ ((SeeThreaded \/ SeeRunning) /\ UNCHANGED sessionVars)
  BY <1>1 DEF OwnerActs, ReaderActs, ReaderLost, ReaderStep
<1>2. CASE SeeReady \/ SeeNewpd \/ ServerAnswers
  BY <1>2 DEF SeeReady, SeeNewpd, ServerAnswers
<1>3. CASE ReaderTakes
  BY <1>3 DEF ReaderTakes, ReaderStep
<1>4. CASE OwnerTakes \/ GetRequestedDevice
  BY <1>4 DEF OwnerTakes, GetRequestedDevice, AskingAlone
<1>5. ASSUME NEW d \in Devices, Publish(d) \/ RequestInterface(d) \/ Command(d)
      PROVE  UNCHANGED vars \/ (Exception /\ owner \in {"idle", "refused"})
  BY <1>5 DEF Publish, RequestInterface, Ask, AskUnlisted, Command, AtLeisure
<1> QED
  BY <1>1, <1>2, <1>3, <1>4, <1>5 DEF SessionNext

\* The server appends one answer, or data and the acknowledgement of a driver
\* with a thread of its own.
LEMMA ServerEffect ==
  ASSUME SessionTypeOK, ServerAnswers
  PROVE  /\ outbox' \in Seq(Request)
         /\ \E d \in Devices :
              \/ d \in threadedDrivers /\ inbox' = inbox \o <<Msg("data", d), Msg("ack", d)>>
              \/ /\ inbox' = Append(inbox, Msg("ack", d))
                 /\ feeds' = feeds \cup {d}
              \/ /\ \E t \in {"error", "done", "nack"} : inbox' = Append(inbox, Msg(t, d))
                 /\ feeds' = feeds
<1>1. PICK i \in 1..Len(outbox) :
        LET d == outbox[i].dev IN
        /\ outbox' = RemoveAt(outbox, i)
        /\ \/ /\ outbox[i].type = "subscribe"
              /\ \A j \in 1..(i - 1) : outbox[j].type # "subscribe"
              /\ Grant(d) \/ Refuse(d)
           \/ outbox[i].type = "command" /\ Obey(d)
  BY DEF ServerAnswers
<1>2. outbox \in Seq(Request) /\ outbox[i] \in Request
  BY ElementOfSeq DEF SessionTypeOK, StreamTypeOK
<1>3. outbox' \in Seq(Request)
  BY <1>1, <1>2, RemoveAtType
<1>4. outbox[i].dev \in Devices
  BY <1>2 DEF Request
<1> QED
  BY <1>1, <1>3, <1>4 DEF Grant, Refuse, Obey

LEMMA MessagesAppended ==
  ASSUME inbox \in Seq(Message), NEW d \in Devices
  PROVE  /\ \A t \in {"data", "ack", "error", "done", "nack"} :
              Append(inbox, Msg(t, d)) \in Seq(Message)
         /\ inbox \o <<Msg("data", d), Msg("ack", d)>> \in Seq(Message)
<1>1. \A t \in {"data", "ack", "error", "done", "nack"} : Msg(t, d) \in Message
  BY DEF Msg, Message
<1>2. <<Msg("data", d), Msg("ack", d)>> \in Seq(Message)
  BY <1>1
<1> QED
  BY <1>1, <1>2, AppendProperties, ConcatProperties

-----------------------------------------------------------------------------
(* Types.                                                                  *)

LEMMA ClientTypes ==
  ASSUME SessionTypeOK, AskingAlone, SessionNext
  PROVE  ClientTypeOK'
<1> USE DEF SessionTypeOK, ClientTypeOK, flags
<1>1. CASE OwnerStep
  BY <1>1 DEF OwnerStep, RunThreaded, SetNotThreaded, CloseUnthreaded, KeepWaiting,
              StopWaiting, Alive
<1>2. CASE ReaderStep
  BY <1>2 DEF ReaderStep, ReaderBegins, ReaderTests, ReaderReads, ReaderFails, ReaderLeaves,
              ReaderGoes, Alive
<1>3. CASE SeeThreaded \/ SeeRunning
  BY <1>3 DEF SeeThreaded, SeeRunning
<1>4. CASE UNCHANGED vars \/ Exception
  BY <1>4 DEF vars, Exception
<1> QED
  BY <1>1, <1>2, <1>3, <1>4, ClientStep

LEMMA TakesType ==
  ASSUME SessionTypeOK, inbox # << >>, Takes(Head(inbox))
  PROVE  inbox' \in Seq(Message) /\ inStep' \in BOOLEAN /\ UNCHANGED <<threadedDrivers, outbox>>
<1>1. inbox \in Seq(Message) /\ inStep \in BOOLEAN
  BY DEF SessionTypeOK, StreamTypeOK
<1>2. inbox' \in Seq(Message)
  BY <1>1, HeadTailProperties DEF Takes
<1>3. inStep' \in BOOLEAN
  BY DEF Takes, StepAfter
<1> QED
  BY <1>2, <1>3 DEF Takes

LEMMA SessionTypes ==
  ASSUME SessionTypeOK, AskingAlone, SessionNext
  PROVE  SessionTypeOK'
<1> SUFFICES StreamTypeOK'
  BY ClientTypes DEF SessionTypeOK
<1> USE DEF StreamTypeOK, SessionTypeOK
<1>1. CASE UNCHANGED <<threadedDrivers, outbox, inbox, inStep, asked, asking>>
  BY <1>1
<1>2. CASE ServerAnswers
  <2>1. inbox' \in Seq(Message)
    BY <1>2, ServerEffect, MessagesAppended
  <2> QED
    BY <1>2, <2>1, ServerEffect DEF ServerAnswers, request
<1>3. CASE ReaderTakes
  BY <1>3, TakesType DEF ReaderTakes, request
<1>4. CASE OwnerTakes
  BY <1>4, TakesType DEF OwnerTakes
<1>5. CASE GetRequestedDevice
  BY <1>5 DEF GetRequestedDevice, server, request
<1>6. ASSUME NEW d \in Devices, Publish(d) PROVE StreamTypeOK'
  BY <1>6, MessagesAppended DEF Publish, request
<1>7. ASSUME NEW d \in Devices, Ask(d) \/ Command(d) PROVE StreamTypeOK'
  <2>1. outbox' \in Seq(Request)
    <3>1. \A t \in {"subscribe", "command"} : [type |-> t, dev |-> d] \in Request
      BY DEF Request
    <3>2. \E e \in Request : outbox' = Append(outbox, e)
      BY <1>7, <3>1 DEF Ask, Command
    <3> QED
      BY <3>2, AppendProperties
  <2> QED
    BY <1>7, <2>1 DEF Ask, Command, request
<1>8. \/ UNCHANGED <<threadedDrivers, outbox, inbox, inStep, asked, asking>>
      \/ ServerAnswers \/ ReaderTakes \/ OwnerTakes \/ GetRequestedDevice
      \/ \E d \in Devices : Publish(d) \/ Ask(d) \/ Command(d)
  BY DEF SessionNext, OwnerActs, ReaderActs, ReaderLost, SeeReady, SeeNewpd,
         RequestInterface, AskUnlisted, sessionVars, server, request
<1> QED
  BY <1>1, <1>2, <1>3, <1>4, <1>5, <1>6, <1>7, <1>8

-----------------------------------------------------------------------------
(* The two threads.                                                        *)

LEMMA RunningKept ==
  ASSUME SessionTypeOK, AskingAlone, RunningKnown, SessionNext
  PROVE  RunningKnown'
<1> USE DEF SessionTypeOK, ClientTypeOK, RunningKnown, flags, Alive
<1>1. CASE OwnerStep
  BY <1>1 DEF OwnerStep, RunThreaded, SetNotThreaded, CloseUnthreaded, KeepWaiting,
              StopWaiting
<1>2. CASE ReaderStep
  BY <1>2 DEF ReaderStep, ReaderBegins, ReaderTests, ReaderReads, ReaderFails, ReaderLeaves,
              ReaderGoes
<1>3. CASE SeeThreaded \/ SeeRunning
  BY <1>3 DEF SeeThreaded, SeeRunning
<1>4. CASE UNCHANGED vars \/ (Exception /\ owner \in {"idle", "refused"})
  BY <1>4 DEF vars, Exception
<1> QED
  BY <1>1, <1>2, <1>3, <1>4, ClientStep

LEMMA AskingKept ==
  ASSUME SessionTypeOK, AskingAlone, SessionNext
  PROVE  AskingAlone'
<1> USE DEF AskingAlone, sessionVars, request, flags
<1>1. CASE OwnerActs
  BY <1>1 DEF OwnerActs, OwnerStep, RunThreaded, SetNotThreaded, CloseUnthreaded, KeepWaiting,
              StopWaiting
<1>2. CASE ReaderActs \/ ReaderLost \/ ReaderTakes
  BY <1>2 DEF ReaderActs, ReaderLost, ReaderTakes, ReaderBegins, ReaderTests, ReaderReads,
              ReaderFails, ReaderLeaves
<1>3. CASE (SeeThreaded \/ SeeRunning) /\ UNCHANGED sessionVars
  BY <1>3 DEF SeeThreaded, SeeRunning
<1>4. CASE SeeReady \/ SeeNewpd \/ ServerAnswers
  BY <1>4 DEF SeeReady, SeeNewpd, ServerAnswers, vars
<1>5. CASE OwnerTakes
  BY <1>5 DEF OwnerTakes, Exception, vars
<1>6. CASE GetRequestedDevice
  BY <1>6 DEF GetRequestedDevice, Exception, vars
<1>7. ASSUME NEW d \in Devices, Publish(d) \/ RequestInterface(d) \/ Command(d)
      PROVE  AskingAlone'
  BY <1>7, SessionAssumption
     DEF Publish, RequestInterface, Ask, AskUnlisted, Command, AtLeisure, Exception, vars
<1> QED
  BY <1>1, <1>2, <1>3, <1>4, <1>5, <1>6, <1>7 DEF SessionNext

-----------------------------------------------------------------------------
(* The stream.                                                             *)

\* One message more changes nothing for those before it.
LEMMA OneMore ==
  ASSUME NEW s \in Seq(Message), NEW m \in Message, NEW known, NEW publish, NEW more,
         Expected(s, known, publish),
         m.type = "data" => m.dev \in publish,
         \A d \in more : d \in publish \/ m = Msg("ack", d)
  PROVE  Expected(Append(s, m), known, more)
<1> DEFINE t == Append(s, m)
<1>1. /\ Len(t) = Len(s) + 1
      /\ t[Len(s) + 1] = m
      /\ \A i \in 1..Len(s) : t[i] = s[i]
      /\ Len(s) \in Nat
  BY AppendProperties
<1> HIDE DEF t
<1>2. \A i \in 1..(Len(s) + 1) : \A d :
        KnownBefore(s, known, i, d) => KnownBefore(t, known, i, d)
  BY <1>1 DEF KnownBefore
<1>3. ASSUME NEW i \in 1..Len(t), t[i].type = "data"
      PROVE  KnownBefore(t, known, i, t[i].dev)
  <2>1. CASE i \in 1..Len(s)
    <3>1. t[i] = s[i] /\ KnownBefore(s, known, i, s[i].dev)
      BY <1>1, <1>3, <2>1 DEF Expected
    <3> QED
      BY <1>2, <2>1, <3>1, <1>1
  <2>2. CASE i = Len(s) + 1
    <3>1. t[i] = m /\ KnownBefore(s, known, i, m.dev)
      BY <1>1, <1>3, <2>2 DEF Expected
    <3> QED
      BY <1>2, <3>1, <1>1
  <2> QED
    BY <1>1, <2>1, <2>2
<1>4. ASSUME NEW d \in more PROVE KnownBefore(t, known, Len(t) + 1, d)
  <2>1. CASE m = Msg("ack", d)
    <3>1. Len(s) + 1 \in 1..((Len(t) + 1) - 1)
      BY <1>1
    <3> QED
      BY <1>1, <2>1, <3>1 DEF KnownBefore
  <2>2. CASE d \in publish
    <3>1. KnownBefore(s, known, Len(s) + 1, d)
      BY <2>2 DEF Expected
    <3>2. KnownBefore(t, known, Len(s) + 1, d)
      BY <1>1, <1>2, <3>1
    <3> QED
      BY <1>1, <3>2 DEF KnownBefore
  <2> QED
    BY <1>4, <2>1, <2>2
<1> QED
  BY <1>3, <1>4 DEF t, Expected

\* Reading the first message is not too early for the others.
LEMMA OneLess ==
  ASSUME NEW s \in Seq(Message), s # << >>, NEW known, NEW publish, NEW knownNext,
         Expected(s, known, publish),
         \A d : d \in known \/ Head(s) = Msg("ack", d) => d \in knownNext
  PROVE  Expected(Tail(s), knownNext, publish)
<1> DEFINE t == Tail(s)
<1>1. /\ Len(s) \in Nat /\ Len(s) >= 1
      /\ Head(s) = s[1]
      /\ Len(t) = Len(s) - 1
      /\ \A i \in 1..Len(t) : t[i] = s[i + 1]
  BY HeadTailProperties, EmptySeq, LenProperties
<1> HIDE DEF t
<1>2. ASSUME NEW i \in 1..(Len(t) + 1), NEW d, KnownBefore(s, known, i + 1, d)
      PROVE  KnownBefore(t, knownNext, i, d)
  <2>1. CASE d \in known
    BY <2>1 DEF KnownBefore
  <2>2. CASE \E j \in 1..((i + 1) - 1) : s[j] = Msg("ack", d)
    <3>1. PICK j \in 1..((i + 1) - 1) : s[j] = Msg("ack", d)
      BY <2>2
    <3>2. CASE j = 1
      BY <1>1, <3>1, <3>2 DEF KnownBefore
    <3>3. CASE j # 1
      <4>1. j - 1 \in 1..(i - 1) /\ j - 1 \in 1..Len(t) /\ (j - 1) + 1 = j
        BY <1>1, <3>3
      <4>2. t[j - 1] = s[j]
        BY <1>1, <4>1
      <4> QED
        BY <3>1, <4>1, <4>2 DEF KnownBefore
    <3> QED
      BY <3>2, <3>3
  <2> QED
    BY <1>2, <2>1, <2>2 DEF KnownBefore
<1>3. ASSUME NEW i \in 1..Len(t), t[i].type = "data"
      PROVE  KnownBefore(t, knownNext, i, t[i].dev)
  <2>1. i + 1 \in 1..Len(s) /\ t[i] = s[i + 1]
    BY <1>1
  <2>2. KnownBefore(s, known, i + 1, s[i + 1].dev)
    BY <1>3, <2>1 DEF Expected
  <2> QED
    BY <1>1, <1>2, <2>1, <2>2
<1>4. ASSUME NEW d \in publish PROVE KnownBefore(t, knownNext, Len(t) + 1, d)
  <2>1. KnownBefore(s, known, (Len(t) + 1) + 1, d)
    BY <1>1 DEF Expected
  <2> QED
    BY <1>1, <1>2, <2>1
<1> QED
  BY <1>3, <1>4 DEF t, Expected

LEMMA TakesKeepsData ==
  ASSUME SessionTypeOK, DataExpected, inbox # << >>, Takes(Head(inbox))
  PROVE  DataExpected'
<1>1. /\ inbox \in Seq(Message) /\ inbox' = Tail(inbox)
      /\ UNCHANGED <<threadedDrivers, feeds>>
  BY DEF SessionTypeOK, StreamTypeOK, Takes
<1>2. inStep' => inStep
  BY DEF Takes, StepAfter
<1> SUFFICES ASSUME threadedDrivers = {}, inStep
             PROVE  Expected(Tail(inbox), deviceList', feeds)
  BY <1>1, <1>2 DEF DataExpected
<1>3. \A d : d \in deviceList \/ Head(inbox) = Msg("ack", d) => d \in deviceList'
  BY DEF Takes, Subscribes, Register, Msg
<1> QED
  BY <1>1, <1>3, OneLess DEF DataExpected

LEMMA DataKept ==
  ASSUME SessionTypeOK, DataExpected, SessionNext
  PROVE  DataExpected'
<1> USE DEF server, fields, sessionVars
<1>0. inbox \in Seq(Message)
  BY DEF SessionTypeOK, StreamTypeOK
<1>1. CASE UNCHANGED <<threadedDrivers, inbox, feeds, inStep, deviceList>>
  BY <1>1 DEF DataExpected
<1>2. CASE ReaderTakes \/ OwnerTakes
  BY <1>2, TakesKeepsData DEF ReaderTakes, OwnerTakes
<1>3. CASE ServerAnswers
  <2>1. UNCHANGED <<threadedDrivers, inStep, deviceList>>
    BY <1>3 DEF ServerAnswers
  <2> SUFFICES ASSUME threadedDrivers = {}, inStep
               PROVE  Expected(inbox', deviceList, feeds')
    BY <2>1 DEF DataExpected
  <2>0. Expected(inbox, deviceList, feeds)
    BY DEF DataExpected
  <2>2. PICK d \in Devices :
          \/ d \in threadedDrivers /\ inbox' = inbox \o <<Msg("data", d), Msg("ack", d)>>
          \/ /\ inbox' = Append(inbox, Msg("ack", d))
             /\ feeds' = feeds \cup {d}
          \/ /\ \E t \in {"error", "done", "nack"} : inbox' = Append(inbox, Msg(t, d))
             /\ feeds' = feeds
    BY <1>3, ServerEffect
  <2>3. CASE d \in threadedDrivers
    BY <2>3
  <2>4. CASE inbox' = Append(inbox, Msg("ack", d)) /\ feeds' = feeds \cup {d}
    <3>1. Msg("ack", d) \in Message /\ Msg("ack", d).type = "ack"
      BY DEF Msg, Message
    <3> QED
      BY <1>0, <2>0, <2>4, <3>1, OneMore
  <2>5. ASSUME NEW t \in {"error", "done", "nack"}, inbox' = Append(inbox, Msg(t, d)), feeds' = feeds
        PROVE  Expected(inbox', deviceList, feeds')
    <3>1. Msg(t, d) \in Message /\ Msg(t, d).type # "data"
      BY DEF Msg, Message
    <3> QED
      BY <1>0, <2>0, <2>5, <3>1, OneMore
  <2> QED
    BY <2>2, <2>3, <2>4, <2>5
<1>4. ASSUME NEW d \in Devices, Publish(d) PROVE DataExpected'
  <2>1. Msg("data", d) \in Message /\ Msg("data", d).dev = d
    BY DEF Msg, Message
  <2>2. /\ d \in feeds /\ inbox' = Append(inbox, Msg("data", d))
        /\ UNCHANGED <<threadedDrivers, inStep, deviceList, feeds>>
    BY <1>4 DEF Publish
  <2>3. Expected(inbox, deviceList, feeds) => Expected(inbox', deviceList', feeds')
    BY <1>0, <2>1, <2>2, OneMore
  <2> QED
    BY <2>2, <2>3 DEF DataExpected
<1>5. \/ UNCHANGED <<threadedDrivers, inbox, feeds, inStep, deviceList>>
      \/ ReaderTakes \/ OwnerTakes \/ ServerAnswers \/ \E d \in Devices : Publish(d)
  BY DEF SessionNext, OwnerActs, ReaderActs, ReaderLost, SeeReady, SeeNewpd,
         GetRequestedDevice, RequestInterface, Ask, AskUnlisted, Command
<1> QED
  BY <1>1, <1>2, <1>3, <1>4, <1>5

\* A client that is read by one thread was so before.
LEMMA WatchedBefore ==
  ASSUME SessionTypeOK, AskingAlone, SessionNext, Watched'
  PROVE  Watched
<1>1. threadedDrivers' = threadedDrivers
  BY DEF SessionNext, OwnerActs, ReaderActs, ReaderLost, SeeReady, SeeNewpd, ServerAnswers,
         ReaderTakes, OwnerTakes, Takes, GetRequestedDevice, Publish, RequestInterface, Ask,
         AskUnlisted, Command, server, sessionVars
<1> USE DEF Watched, flags
<1>2. CASE OwnerStep
  BY <1>1, <1>2 DEF OwnerStep, RunThreaded, SetNotThreaded, CloseUnthreaded, KeepWaiting,
                    StopWaiting
<1>3. CASE ReaderStep
  BY <1>1, <1>3 DEF ReaderStep, ReaderBegins, ReaderTests, ReaderReads, ReaderFails,
                    ReaderLeaves, ReaderGoes
<1>4. CASE SeeThreaded \/ SeeRunning
  BY <1>1, <1>4 DEF SeeThreaded, SeeRunning
<1>5. CASE UNCHANGED vars \/ Exception
  BY <1>1, <1>5 DEF vars, Exception
<1> QED
  BY <1>2, <1>3, <1>4, <1>5, ClientStep

\* A read that does not throw ends where the next header begins.
LEMMA TakesInStep ==
  ASSUME SessionTypeOK, AskingAlone, DataExpected, Watched, inStep,
         inbox # << >>, Takes(Head(inbox)), ~Throws(Head(inbox))
  PROVE  inStep'
<1> DEFINE m == Head(inbox)
<1>1. inbox[1] = m /\ 1 \in 1..Len(inbox)
  BY DEF SessionTypeOK, StreamTypeOK
<1>2. ~Orphan(m)
  <2>1. m.type = "data" => KnownBefore(inbox, deviceList, 1, m.dev)
    BY <1>1 DEF DataExpected, Expected, Watched
  <2> QED
    BY <2>1 DEF Orphan, KnownBefore
<1>3. ~TwoReaders
  BY DEF TwoReaders, Watched, AskingAlone
<1> QED
  BY <1>2, <1>3 DEF Takes, StepAfter

\* Whoever takes a refusal is turned back or lost.
LEMMA RefusalThrown ==
  ASSUME ReaderTakes \/ OwnerTakes, inStep, Throws(Head(inbox))
  PROVE  owner' = "refused" \/ reader' = "dead"
<1>1. CASE ReaderTakes
  BY <1>1 DEF ReaderTakes, ReaderFails, ReaderGoes
<1>2. CASE OwnerTakes
  BY <1>2 DEF OwnerTakes, Exception, Throws, Acknowledges
<1> QED
  BY <1>1, <1>2

LEMMA InStepKept ==
  ASSUME SessionTypeOK, AskingAlone, DataExpected, StreamInStep, SessionNext
  PROVE  StreamInStep'
<1> SUFFICES ASSUME Watched' PROVE inStep'
  BY DEF StreamInStep, Watched
<1>1. Watched /\ inStep
  BY WatchedBefore DEF StreamInStep, Watched
<1>2. CASE ReaderTakes \/ OwnerTakes
  <2>1. ~Throws(Head(inbox))
    BY <1>1, <1>2, RefusalThrown DEF Watched
  <2> QED
    BY <1>1, <1>2, <2>1, TakesInStep DEF ReaderTakes, OwnerTakes
<1>3. CASE UNCHANGED inStep
  BY <1>1, <1>3
<1> QED
  BY <1>2, <1>3
  DEF SessionNext, OwnerActs, ReaderActs, ReaderLost, SeeReady, SeeNewpd, ServerAnswers,
      GetRequestedDevice, Publish, RequestInterface, Ask, AskUnlisted, Command, sessionVars

-----------------------------------------------------------------------------
LEMMA SessionInvHolds == SessionSpec => []SessionInv
<1>1. SessionInit => SessionInv
  <2> SUFFICES ASSUME SessionInit PROVE SessionInv
    OBVIOUS
  <2>1. ClientTypeOK /\ RunningKnown
    BY DEF SessionInit, Init, ClientTypeOK, RunningKnown, Alive
  <2>2. StreamTypeOK
    BY SessionAssumption DEF SessionInit, StreamTypeOK
  <2>3. AskingAlone /\ StreamInStep
    BY DEF SessionInit, AskingAlone, StreamInStep
  <2>4. Expected(<< >>, deviceList, {})
    BY DEF Expected
  <2>5. DataExpected
    BY <2>4 DEF SessionInit, DataExpected
  <2> QED
    BY <2>1, <2>2, <2>3, <2>5 DEF SessionInv, SessionTypeOK
<1>2. SessionInv /\ [SessionNext]_allVars => SessionInv'
  <2> SUFFICES ASSUME SessionInv, [SessionNext]_allVars PROVE SessionInv'
    OBVIOUS
  <2> USE DEF SessionInv
  <2>1. CASE SessionNext
    BY <2>1, SessionTypes, RunningKept, AskingKept, DataKept, InStepKept
  <2>2. CASE UNCHANGED allVars
    BY <2>2 DEF allVars, vars, flags, sessionVars, server, fields, request, SessionTypeOK,
                ClientTypeOK, StreamTypeOK, RunningKnown, AskingAlone, DataExpected,
                StreamInStep
  <2> QED
    BY <2>1, <2>2
<1> QED
  BY <1>1, <1>2, PTL DEF SessionSpec

(***************************************************************************)
(* A setNotThreaded that saw the reader run returns only when the reader   *)
(* has run to its end, although neither thread sees the other's flag at    *)
(* once: what the owner has seen set is reset by the reader's last step    *)
(* only, and not by an exception.                                          *)
(***************************************************************************)
THEOREM WaitingIsEnough == SessionSpec => []WaitedMeansGone
<1>1. SessionInv => WaitedMeansGone
  BY DEF SessionInv, RunningKnown, WaitedMeansGone
<1> QED
  BY <1>1, SessionInvHolds, PTL

(***************************************************************************)
(* While one thread reads, and drivers publish only what was acknowledged, *)
(* the client does not go on out of step: data comes after the             *)
(* acknowledgement that makes its device known, the stream keeps that      *)
(* order, and a refusal, whose padding is left in the stream, reaches      *)
(* whoever took it as an exception.                                        *)
(***************************************************************************)
THEOREM OneReaderStaysInStep == SessionSpec => []StreamInStep
<1>1. SessionInv => StreamInStep
  BY DEF SessionInv
<1> QED
  BY <1>1, SessionInvHolds, PTL

-----------------------------------------------------------------------------
(* The control loop that uses the client, for whatever process() does and  *)
(* however many rounds are counted.                                        *)

CtrlTypeOK ==
  /\ swallows \in BOOLEAN
  /\ stopSignal \in BOOLEAN /\ seenStop \in BOOLEAN /\ flag \in BOOLEAN
  /\ pc \in {"start", "unstarted", "test", "process", "sleep", "after", "ended", "dead"}
  /\ failures \in 0..MaxRounds
  /\ rounds \in 0..MaxRounds

(* The interrupt flag carries the failure from round to round: nobody      *)
(* clears it, and no sleep can.                                            *)
FlagStays == failures > 0 /\ ~swallows => flag /\ rounds = 0

CtrlInv == CtrlTypeOK /\ FlagStays

LEMMA CountedUp ==
  ASSUME NEW n \in 0..MaxRounds
  PROVE  CountUp(n) \in 0..MaxRounds
BY RoundsAssumption DEF CountUp

LEMMA CtrlTypes ==
  ASSUME CtrlTypeOK, CtrlNext
  PROVE  CtrlTypeOK'
<1> USE DEF CtrlTypeOK
<1>0. 0 \in 0..MaxRounds /\ CountUp(failures) \in 0..MaxRounds /\ CountUp(rounds) \in 0..MaxRounds
  BY RoundsAssumption, CountedUp
<1>1. CASE BeforeStart \/ LoopTest \/ ProcessDies \/ AfterEnd
  BY <1>1 DEF BeforeStart, LoopTest, ProcessDies, AfterEnd, Goes
<1>2. CASE ProcessReturns
  BY <1>2 DEF ProcessReturns, Goes
<1>3. CASE ProcessThrows \/ SleepThrows
  BY <1>0, <1>3 DEF ProcessThrows, SleepThrows, Caught
<1>4. CASE Sleep
  BY <1>0, <1>4 DEF Sleep, Goes
<1>5. CASE SendStopSignal \/ SeeStop \/ Interrupt
  BY <1>5 DEF SendStopSignal, SeeStop, Interrupt
<1> QED
  BY <1>1, <1>2, <1>3, <1>4, <1>5 DEF CtrlNext, LoopStep

LEMMA FlagKept ==
  ASSUME CtrlTypeOK, FlagStays, CtrlNext
  PROVE  FlagStays'
<1> USE DEF CtrlTypeOK, FlagStays
<1>1. CASE BeforeStart \/ LoopTest \/ ProcessDies \/ AfterEnd
  BY <1>1 DEF BeforeStart, LoopTest, ProcessDies, AfterEnd
<1>2. CASE ProcessReturns
  BY <1>2 DEF ProcessReturns
<1>3. CASE ProcessThrows \/ SleepThrows
  BY <1>3 DEF ProcessThrows, SleepThrows, Caught
<1>4. CASE Sleep
  BY <1>4 DEF Sleep
<1>5. CASE SendStopSignal \/ SeeStop \/ Interrupt
  BY <1>5 DEF SendStopSignal, SeeStop, Interrupt
<1> QED
  BY <1>1, <1>2, <1>3, <1>4, <1>5 DEF CtrlNext, LoopStep

(***************************************************************************)
(* Once process() or a sleep has thrown what run() catches, the loop never *)
(* sleeps again, unless process() itself takes the interrupt: the catch    *)
(* clauses set the flag that makes the next sleep throw.                   *)
(***************************************************************************)
THEOREM FailureEndsSleep == CtrlSpec => []FailedLoopNeverSleeps
<1>1. CtrlInit => CtrlInv
  <2>1. 0 \in 0..MaxRounds /\ ~(0 > 0)
    BY RoundsAssumption
  <2>2. CtrlInit => CtrlTypeOK
    BY <2>1 DEF CtrlInit, CtrlTypeOK
  <2>3. CtrlInit => FlagStays
    BY <2>1 DEF CtrlInit, FlagStays
  <2> QED
    BY <2>2, <2>3 DEF CtrlInv
<1>2. CtrlInv /\ [CtrlNext]_ctrlVars => CtrlInv'
  <2> SUFFICES ASSUME CtrlInv, [CtrlNext]_ctrlVars PROVE CtrlInv'
    OBVIOUS
  <2> USE DEF CtrlInv
  <2>1. CASE CtrlNext
    BY <2>1, CtrlTypes, FlagKept
  <2>2. CASE UNCHANGED ctrlVars
    BY <2>2 DEF ctrlVars, CtrlTypeOK, FlagStays
  <2> QED
    BY <2>1, <2>2
<1>3. CtrlInv => FailedLoopNeverSleeps
  BY DEF CtrlInv, FlagStays, FailedLoopNeverSleeps
<1> QED
  BY <1>1, <1>2, <1>3, PTL DEF CtrlSpec
=============================================================================
