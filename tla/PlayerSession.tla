--------------------------- MODULE PlayerSession ---------------------------
(***************************************************************************)
(* A client's session with the Player server: the owner subscribes to      *)
(* devices and sends them commands, the server answers and publishes, and  *)
(* whoever reads the stream, the owner or the reader thread of module      *)
(* PlayerClient, takes one message after the other from it                 *)
(* (PlayerClient.java: requestDeviceAccess, getRequestedDevice, read).     *)
(*                                                                         *)
(* The server subscribes a client before it queues the acknowledgement; a  *)
(* driver with a thread of its own may publish in between.                 *)
(***************************************************************************)
EXTENDS PlayerClient, Sequences, SequencesExt

CONSTANTS
  Devices,
  Listed,     (* devices in the list the server gave to the constructor    *)
  Threadable, (* devices whose drivers may have a thread of their own      *)
  Simulations, (* devices the client sends requests to, such as set2DPose  *)
  Nobody,     (* null                                                      *)
  MaxInbox,   (* bound of the model on messages the server is ahead        *)
  MaxUnderWay (* bound of the model on commands sent and answers not read  *)

ASSUME SessionAssumption ==
  /\ Listed \subseteq Devices /\ Threadable \cup Simulations \subseteq Listed
  /\ Nobody \notin Devices
  /\ MaxInbox \in Nat \ {0} /\ MaxUnderWay \in Nat \ {0}

VARIABLES
  threadedDrivers,  (* devices whose drivers have a thread of their own    *)
  outbox,      (* requests the server has not handled yet                  *)
  inbox,       (* messages of the server nobody has read yet               *)
  feeds,       (* devices that publish to this client                      *)
  inStep,      (* is the next thing in the stream the header of a message? *)
  deviceList,  (* a Vector, which is synchronised                          *)
  newpd, seenNewpd,  (* the last device subscribed to: as last written,    *)
  ready, seenReady,  (* readyRequestDevice;    and as the owner sees it    *)
  asked,       (* the device requestDeviceAccess is asking for, or Nobody  *)
  asking,      (* where it is                                              *)
  alone,       (* history: asked with no thread and no answer under way    *)
  got          (* history: what each request was answered                  *)

server == <<threadedDrivers, outbox, inbox, feeds>>
fields == <<deviceList, newpd, seenNewpd, ready, seenReady>>
request == <<asked, asking, alone, got>>
sessionVars == <<server, inStep, fields, request>>
allVars == <<vars, sessionVars>>

Message == [type : {"data", "ack", "error", "done", "nack"}, dev : Devices]
Msg(type, d) == [type |-> type, dev |-> d]

\* The constructor has read all answers to its own requests.
SessionInit ==
  /\ Init
  /\ threadedDrivers \in SUBSET Threadable
  /\ outbox = << >> /\ inbox = << >>
  /\ feeds = {}
  /\ inStep = TRUE
  /\ deviceList = {}
  /\ newpd = Nobody /\ seenNewpd = Nobody
  /\ ready = FALSE /\ seenReady = FALSE
  /\ asked = Nobody /\ asking = "no"
  /\ alone = [d \in Devices |-> FALSE]
  /\ got = [d \in Devices |-> "unasked"]

-----------------------------------------------------------------------------
(* The server.                                                             *)

\* A driver publishes and the server writes it out, unless buffers are full.
Publish(d) ==
  /\ d \in feeds
  /\ Len(inbox) < MaxInbox
  /\ inbox' = Append(inbox, Msg("data", d))
  /\ UNCHANGED <<vars, threadedDrivers, outbox, feeds, inStep, fields, request>>

Grant(d) ==
  /\ \/ d \in threadedDrivers /\ inbox' = inbox \o <<Msg("data", d), Msg("ack", d)>>
     \/ inbox' = Append(inbox, Msg("ack", d))
  /\ feeds' = feeds \cup {d}
\* Subscribing failed: an acknowledgement that grants PLAYER_ERROR_MODE.
Refuse(d) == inbox' = Append(inbox, Msg("error", d)) /\ UNCHANGED feeds
Obey(d) ==
  /\ \E answer \in {"done", "nack"} : inbox' = Append(inbox, Msg(answer, d))
  /\ UNCHANGED feeds

\* The server handles subscriptions as they come, and passes commands on to
\* drivers, which answer when they get to them.
ServerAnswers ==
  /\ \E i \in 1..Len(outbox) :
       LET d == outbox[i].dev IN
       /\ outbox' = RemoveAt(outbox, i)
       /\ \/ /\ outbox[i].type = "subscribe"
             /\ \A j \in 1..(i - 1) : outbox[j].type # "subscribe"
             /\ Grant(d) \/ Refuse(d)
          \/ outbox[i].type = "command" /\ Obey(d)
  /\ UNCHANGED <<vars, threadedDrivers, inStep, fields, request>>

-----------------------------------------------------------------------------
(* read(): one message.                                                    *)

\* A plausible slip: the new device is not added to the list.
Register_Forgets(m) == deviceList

Register(m) == deviceList \cup {m.dev}

\* Data of a device that is not in the list is left in the stream.  What is
\* read where a header should be makes read() throw, or is no message to the
\* client, or looks like an answer; no property counts on what comes of it.
Orphan(m) == m.type = "data" /\ m.dev \notin deviceList

\* Two threads in read() tear the messages apart between them.
TwoReaders == reader = "read" /\ asking = "reading"

\* An error is thrown by read(), an unintelligible header may make it throw.
Throws(m) == inStep /\ m.type = "error"
MayThrow(m) == ~inStep \/ Throws(m)

\* A refusal carries the driver's name as any acknowledgement does, but is
\* thrown before the padding of the name is read: none is left behind only if
\* the length of the name happens to be a multiple of four.
StepAfter(m) ==
  IF ~inStep \/ Orphan(m) THEN {FALSE}
  ELSE IF TwoReaders \/ Throws(m) THEN BOOLEAN
  ELSE {TRUE}

Subscribes(m) ==
  /\ deviceList' = Register(m)
  /\ newpd' = m.dev
  /\ ready' = TRUE

\* What reading a message does to the client's fields and the stream.
Takes(m) ==
  /\ inbox' = Tail(inbox)
  /\ inStep' \in StepAfter(m)
  /\ IF inStep /\ m.type = "ack"
       THEN Subscribes(m) ELSE UNCHANGED <<deviceList, newpd, ready>>
  /\ UNCHANGED <<threadedDrivers, outbox, feeds>>

ReaderTakes ==
  /\ inbox # << >>
  /\ Takes(Head(inbox))
  /\ \/ ReaderReads /\ ~Throws(Head(inbox))
     \/ ReaderFails /\ MayThrow(Head(inbox))
  /\ UNCHANGED <<seenNewpd, seenReady, request>>

-----------------------------------------------------------------------------
(* The owner: requestDeviceAccess.  Every device is asked for once, as all *)
(* users of the client do.                                                 *)

AtLeisure == owner = "idle" /\ asked = Nobody

Exception == owner' = "refused" /\ UNCHANGED <<flags, waited, reader, socket>>

IsAnswer(m) == m.type \in {"ack", "done", "nack", "error"}
UnderWay == Len(outbox) + Len(SelectSeq(inbox, IsAnswer))

\* While the client is threaded the answer is left to the reader thread.
Ask(d) ==
  /\ AtLeisure
  /\ d \in Listed
  /\ got[d] = "unasked"
  /\ asked' = d
  /\ asking' = IF isThreaded THEN "waiting" ELSE "reading"
  /\ alone' = [alone EXCEPT ![d] = reader = "new" /\ UnderWay = 0]
  /\ outbox' = Append(outbox, [type |-> "subscribe", dev |-> d])
  /\ got' = [got EXCEPT ![d] = "asked"]
  /\ UNCHANGED <<vars, threadedDrivers, inbox, feeds, inStep, fields>>

AskUnlisted(d) ==
  /\ AtLeisure
  /\ d \notin Listed
  /\ Exception
  /\ UNCHANGED sessionVars

\* The requestInterface methods of the client.
RequestInterface(d) == Ask(d) \/ AskUnlisted(d)

\* A request to a device, such as set2DPose, does not wait for the answer: one
\* may be sent right after the other.
Command(d) ==
  /\ AtLeisure
  /\ d \in Simulations /\ got[d] = "device"
  /\ UnderWay < MaxUnderWay
  /\ outbox' = Append(outbox, [type |-> "command", dev |-> d])
  /\ UNCHANGED <<vars, threadedDrivers, inbox, feeds, inStep, fields, request>>

\* A plausible slip: taking whatever was read for the answer.
Acknowledges_Anything(m) == TRUE

\* Any acknowledgement is taken for the one that was asked for: the arguments
\* of read(code, index) are not looked at.
Acknowledges(m) == m.type \in {"ack", "done"}

\* while ((result = read(code, index)) != PLAYER_MSGTYPE_RESP_ACK)
OwnerTakes ==
  /\ asking = "reading"
  /\ inbox # << >>
  /\ LET m == Head(inbox) IN
       /\ Takes(m)
       /\ \/ /\ MayThrow(m) \/ m.type = "nack"
             /\ Exception
             /\ UNCHANGED asking
          \/ /\ ~inStep \/ Acknowledges(m)
             /\ asking' = "waiting"
             /\ UNCHANGED vars
          \/ /\ ~inStep \/ (~Acknowledges(m) /\ m.type # "nack" /\ ~Throws(m))
             /\ UNCHANGED <<vars, asking>>
  /\ seenNewpd' = newpd' /\ seenReady' = ready'
  /\ UNCHANGED <<asked, alone, got>>

\* while (!readyRequestDevice); and then newpd, which may be null or another's.
GetRequestedDevice ==
  /\ asking = "waiting"
  /\ seenReady
  /\ IF seenNewpd = Nobody
       THEN Exception /\ UNCHANGED request
       ELSE /\ got' = [got EXCEPT ![asked] = IF seenNewpd = asked THEN "device" ELSE "null"]
            /\ asked' = Nobody
            /\ asking' = "no"
            /\ UNCHANGED <<vars, alone>>
  /\ UNCHANGED <<server, inStep, fields>>

SeeReady ==
  /\ seenReady # ready
  /\ seenReady' = ready
  /\ UNCHANGED <<vars, server, inStep, deviceList, newpd, seenNewpd, ready, request>>

SeeNewpd ==
  /\ seenNewpd # newpd
  /\ seenNewpd' = newpd
  /\ UNCHANGED <<vars, server, inStep, deviceList, newpd, ready, seenReady, request>>

-----------------------------------------------------------------------------
OwnerActs == asked = Nobody /\ OwnerStep /\ UNCHANGED sessionVars
ReaderActs == (ReaderBegins \/ ReaderTests \/ ReaderLeaves) /\ UNCHANGED sessionVars
ReaderLost == ReaderFails /\ UNCHANGED sessionVars

SessionNext ==
  \/ OwnerActs \/ ReaderActs \/ ReaderLost
  \/ (SeeThreaded \/ SeeRunning) /\ UNCHANGED sessionVars
  \/ SeeReady \/ SeeNewpd
  \/ ServerAnswers \/ ReaderTakes \/ OwnerTakes \/ GetRequestedDevice
  \/ \E d \in Devices : Publish(d) \/ RequestInterface(d) \/ Command(d)

\* As in PlayerClient, but that the server keeps sending is now a matter of
\* devices that publish: nothing else makes it send without being asked.
SessionFairness ==
  /\ WF_allVars(ReaderActs \/ ReaderTakes)
  /\ WF_allVars(ReaderLost /\ socket = "closed")
  /\ WF_allVars((KeepWaiting \/ StopWaiting) /\ UNCHANGED sessionVars)
  /\ WF_allVars(SeeThreaded /\ UNCHANGED sessionVars)
  /\ WF_allVars(SeeRunning /\ UNCHANGED sessionVars)
  /\ WF_allVars(ServerAnswers)
  /\ WF_allVars(\E d \in Devices : Publish(d))
  /\ WF_allVars(OwnerTakes \/ GetRequestedDevice)

SessionSpec == SessionInit /\ [][SessionNext]_allVars
SessionFairSpec == SessionSpec /\ SessionFairness

-----------------------------------------------------------------------------
(* Properties.                                                             *)

\* The client does not go on out of step without an exception: while drivers
\* only publish what was acknowledged and one thread reads, either every read
\* ended where the next header begins, or it threw and whoever read was turned
\* back or lost.  (Only a client that was turned back is refused a second
\* thread.)
StreamInStep ==
  /\ threadedDrivers = {}
  /\ reader = "new" \/ isThreaded
  => inStep \/ owner = "refused" \/ reader = "dead"

\* A device that is asked for before the client runs threaded, with no answer
\* under way, is what the request returns, however much data of other devices
\* comes in between, unless it throws what the server's refusal is for; all
\* controllers subscribe like this in beforeStart().
AskedAloneIsGot ==
  \A d \in Devices :
    asked = d /\ alone[d]
      ~> (asked = Nobody /\ got[d] # "null") \/ owner = "refused" \/ ~inStep

\* close() returns and the socket is closed, provided that some device
\* publishes (a reader that nobody sends anything sits in read() for ever) and
\* that the reader was not lost to an exception.
CloseReturnsIfFed ==
  owner = "close" /\ feeds # {} ~> (owner = "closed" \/ reader = "dead")
=============================================================================
