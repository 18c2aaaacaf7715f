---------------------------- MODULE PlayerClient ----------------------------
(***************************************************************************)
(* The reader thread of a PlayerClient and the thread that owns the client *)
(* (PlayerClient.java: runThreaded, run, setNotThreaded, close).           *)
(*                                                                         *)
(* isThreaded is written by the owner and polled by the reader, isRunning  *)
(* the other way round.  Neither is volatile or read under a lock, so each *)
(* thread works with a view of the other's variable that is brought up to  *)
(* date some time after the write.  Thread.start publishes what the owner  *)
(* wrote before it.                                                        *)
(***************************************************************************)
EXTENDS Naturals

VARIABLES
  isThreaded,    (* as last written by the owner                           *)
  seenThreaded,  (* isThreaded as the reader sees it                       *)
  isRunning,     (* as last written by the reader                          *)
  seenRunning,   (* isRunning as the owner sees it                         *)
  owner,         (* where the owner's thread is                            *)
  waited,        (* has setNotThreaded seen the reader run?                *)
  reader,        (* where the reader thread is                             *)
  socket         (* "open" or "closed"                                     *)

flags == <<isThreaded, seenThreaded, isRunning, seenRunning>>
vars == <<flags, owner, waited, reader, socket>>

Alive == {"started", "loop", "read", "leaving"}

Init ==
  /\ isThreaded = FALSE /\ seenThreaded = FALSE
  /\ isRunning = FALSE /\ seenRunning = FALSE
  /\ owner = "idle"
  /\ waited = FALSE
  /\ reader = "new"
  /\ socket = "open"

-----------------------------------------------------------------------------
(* The owner.  "refused": start() of a thread that was started before      *)
(* throws IllegalThreadStateException.                                     *)

\* A second call while threaded is ignored.
RunThreaded ==
  /\ owner = "idle"
  /\ ~isThreaded
  /\ isThreaded' = TRUE
  /\ seenThreaded' = TRUE
  /\ IF reader = "new"
       THEN reader' = "started" /\ owner' = "idle"
       ELSE owner' = "refused" /\ UNCHANGED reader
  /\ UNCHANGED <<isRunning, seenRunning, waited, socket>>

\* setNotThreaded on its own ("wait") or as the first thing close does ("close").
SetNotThreaded ==
  /\ owner = "idle"
  /\ isThreaded
  /\ isThreaded' = FALSE
  /\ owner' \in {"wait", "close"}
  /\ waited' = FALSE
  /\ UNCHANGED <<seenThreaded, isRunning, seenRunning, reader, socket>>

CloseUnthreaded ==
  /\ owner = "idle"
  /\ ~isThreaded
  /\ owner' = "closed"
  /\ socket' = "closed"
  /\ UNCHANGED <<flags, waited, reader>>

\* while (isRunning == true) Thread.sleep(10)
KeepWaiting ==
  /\ owner \in {"wait", "close"}
  /\ seenRunning
  /\ waited' = TRUE
  /\ UNCHANGED <<flags, owner, reader, socket>>

\* A plausible slip: giving up after the first sleep.
StopWaiting_Impatient ==
  /\ owner \in {"wait", "close"}
  /\ owner' = IF owner = "close" THEN "closed" ELSE "idle"
  /\ socket' = IF owner = "close" THEN "closed" ELSE socket
  /\ UNCHANGED <<flags, waited, reader>>

StopWaiting ==
  /\ owner \in {"wait", "close"}
  /\ ~seenRunning
  /\ owner' = IF owner = "close" THEN "closed" ELSE "idle"
  /\ socket' = IF owner = "close" THEN "closed" ELSE socket
  /\ UNCHANGED <<flags, waited, reader>>

-----------------------------------------------------------------------------
(* The reader: PlayerClient.run.                                           *)

ReaderGoes(from, to) == reader = from /\ reader' = to

ReaderBegins ==
  /\ ReaderGoes("started", "loop")
  /\ isRunning' = TRUE
  /\ UNCHANGED <<isThreaded, seenThreaded, seenRunning, owner, waited, socket>>

ReaderTests ==
  /\ ReaderGoes("loop", IF seenThreaded THEN "read" ELSE "leaving")
  /\ UNCHANGED <<flags, owner, waited, socket>>

\* read() blocks until the server sends something.
ReaderReads ==
  /\ ReaderGoes("read", "loop")
  /\ socket = "open"
  /\ UNCHANGED <<flags, owner, waited, socket>>

\* A plausible slip: swallowing the exception and reading again at once.
ReaderFails_ReadsAgain ==
  /\ reader = "read"
  /\ UNCHANGED vars

\* An end of file or an error on the socket becomes a PlayerException, which
\* run() does not catch: isRunning stays true.
ReaderFails ==
  /\ ReaderGoes("read", "dead")
  /\ UNCHANGED <<flags, owner, waited, socket>>

\* A plausible slip: clearing the flag before the last round of the loop.
ReaderLeaves_KeepsFlag ==
  /\ ReaderGoes("leaving", "done")
  /\ UNCHANGED <<flags, owner, waited, socket>>

ReaderLeaves ==
  /\ ReaderGoes("leaving", "done")
  /\ isRunning' = FALSE
  /\ UNCHANGED <<isThreaded, seenThreaded, seenRunning, owner, waited, socket>>

-----------------------------------------------------------------------------
(* Visibility of the two plain fields.                                     *)

SeeThreaded ==
  /\ seenThreaded # isThreaded
  /\ seenThreaded' = isThreaded
  /\ UNCHANGED <<isThreaded, isRunning, seenRunning, owner, waited, reader, socket>>

SeeRunning ==
  /\ seenRunning # isRunning
  /\ seenRunning' = isRunning
  /\ UNCHANGED <<isThreaded, seenThreaded, isRunning, owner, waited, reader, socket>>

ReaderStep == ReaderBegins \/ ReaderTests \/ ReaderReads \/ ReaderFails \/ ReaderLeaves
OwnerStep == RunThreaded \/ SetNotThreaded \/ CloseUnthreaded \/ KeepWaiting \/ StopWaiting
Next == OwnerStep \/ ReaderStep \/ SeeThreaded \/ SeeRunning

Spec == Init /\ [][Next]_vars
-----------------------------------------------------------------------------
(* Properties.                                                             *)

\* A setNotThreaded that saw the reader run returns only when the reader has
\* run to its end: what a stale isRunning can still hide is a reader that was
\* started and not yet seen.
WaitedMeansGone ==
  waited /\ owner \in {"idle", "closed", "refused"} => reader = "done"

\* However close() and the reader race, the reader does not outlive the socket
\* for ever: it sees isThreaded reset, or its next read fails.
ReaderGoesAway == socket = "closed" ~> reader \notin Alive

=============================================================================
