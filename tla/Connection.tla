----------------------------- MODULE Connection -----------------------------
(***************************************************************************)
(* One Connection of connection.cpp / connection.h and its asio operations.*)
(* The network thread runs the completion handlers (parseHeader,           *)
(* parsePacket, onWriteOperation, handleTimeout); the dispatcher thread    *)
(* calls send and close.  connectionLock makes each call one step.         *)
(*                                                                         *)
(* Every method is an operator from a connection to its possible results,  *)
(* so that the methods can call each other as they do in the code.  A      *)
(* start of an asynchronous operation may throw, which forces a close.     *)
(* The object lives as long as the ConnectionManager or the handler of a   *)
(* read, a write or the accept holds a shared_ptr to it.                   *)
(***************************************************************************)
EXTENDS Integers

CONSTANTS
  MaxMessages,      \* bound: messages sent on the connection
  MayThrow          \* may the start of an asynchronous operation throw?

ASSUME ConnectionAssumption ==
  /\ MaxMessages \in Nat
  /\ MayThrow \in BOOLEAN

VARIABLES
  c,                \* the connection
  peerReads,        \* does the peer go on reading what is sent to it?
  accepted,         \* history: the number of messages send() has queued
  written,          \* history: the number of them written without an error
  failed            \* history: an operation on the open socket failed

moving == <<c, accepted, written, failed>>
connectionVars == <<moving, peerReads>>

\* An armed timer becomes fired when its time is over; cancel() comes too late
\* for a timer whose handler is queued already.
Timers == SUBSET {"armed", "fired"}

ConnectionTypeOK ==
  /\ c \in [state      : {"OPEN", "CLOSED"},      \* connectionState
            protocol   : BOOLEAN,                 \* has it a protocol?
            first      : BOOLEAN,                 \* receivedFirst
            queue      : 0..MaxMessages,          \* messageQueue
            sock       : BOOLEAN,                 \* socket.is_open()
            accept     : {"pending", "ready", "done", "failed"},
            read       : {"none", "header", "body"},
            writes     : 0..MaxMessages,          \* async_writes that are out
            readTimer  : Timers,
            writeTimer : Timers,
            managed    : BOOLEAN,                 \* in ConnectionManager::connections
            alive      : BOOLEAN,                 \* not yet destroyed
            released   : 0..2,                    \* Protocol::release tasks queued
            hard       : BOOLEAN]                 \* history: forced to close, or a start threw
  /\ peerReads \in BOOLEAN
  /\ accepted \in 0..MaxMessages
  /\ written \in 0..accepted
  /\ failed \in BOOLEAN

\* createConnection, with an async_accept into its socket.
ConnectionInit ==
  /\ c = [state |-> "OPEN", protocol |-> FALSE, first |-> FALSE, queue |-> 0,
          sock |-> FALSE, accept |-> "pending", read |-> "none", writes |-> 0,
          readTimer |-> {}, writeTimer |-> {}, managed |-> TRUE, alive |-> TRUE,
          released |-> 0, hard |-> FALSE]
  /\ peerReads \in BOOLEAN
  /\ accepted = 0
  /\ written = 0
  /\ failed = FALSE

----------------------------------------------------------------------------
(* The methods                                                             *)

Cancel(timer) == timer \ {"armed"}
Rearm(timer)  == timer \cup {"armed"}

CloseSocket(x) ==
  IF x.sock
  THEN [x EXCEPT !.sock = FALSE, !.readTimer = Cancel(@), !.writeTimer = Cancel(@)]
  ELSE x

\* Mutants: close() does not look at the state; it always closes the socket; the
\* last write of a closed connection does not.
ClosesAgain(x) == TRUE
ClosesAtOnce(x, force) == TRUE
LeavesOpen(x) == x

MayClose(x) == x.state = "OPEN"

ClosesNow(x, force) == x.queue = 0 \/ force

AfterLastWrite(x) == IF x.state = "CLOSED" THEN CloseSocket(x) ELSE x

Close(x, force) ==
  LET y == [x EXCEPT !.managed = FALSE]
      z == [y EXCEPT !.state = "CLOSED", !.hard = @ \/ force,
                     !.released = IF x.protocol /\ @ < 2 THEN @ + 1 ELSE @]
  IN  IF ~MayClose(x) THEN y
      ELSE IF ClosesNow(x, force) THEN CloseSocket(z) ELSE z

\* The operation is out; or its start threw, which forces a close.
Started(before, after) ==
  {after} \cup (IF MayThrow THEN {Close([before EXCEPT !.hard = TRUE], TRUE)} ELSE {})

\* Arm the timer, then read or write.
StartRead(x, part) ==
  LET y == [x EXCEPT !.readTimer = Rearm(@)]
  IN  Started(y, [y EXCEPT !.read = part])

InternalSend(x) ==
  LET y == [x EXCEPT !.writeTimer = Rearm(@)]
  IN  Started(y, [y EXCEPT !.writes = @ + 1])

\* Mutant: a write is started for every message.
StartsEachWrite(x) == TRUE

NoPendingWrite(x) == x.queue = 0

PopFront(x) == [x EXCEPT !.queue = @ - 1]

Send(x) ==
  IF x.state # "OPEN" THEN {x}
  ELSE LET y == [x EXCEPT !.queue = @ + 1]
       IN  IF NoPendingWrite(x) THEN InternalSend(y) ELSE {y}

\* The last shared_ptr is gone: ~Connection() closes the socket.
Referenced(x) ==
  x.managed \/ x.accept \in {"pending", "ready"} \/ x.read # "none" \/ x.writes > 0

Settle(x) ==
  IF Referenced(x) THEN x ELSE [CloseSocket(x) EXCEPT !.alive = FALSE]

----------------------------------------------------------------------------
(* Steps: the connection becomes one of the results of a method.           *)

Becomes(X) == \E x \in X : c' = Settle(x)

\* A peer connects: the socket is open, the handler of the accept is queued.
PeerConnects ==
  /\ c.accept = "pending"
  /\ c' = [c EXCEPT !.accept = "ready", !.sock = TRUE]
  /\ UNCHANGED <<accepted, written, failed>>

\* onAccept: a protocol that speaks first exists from the start; a rejected
\* address, or none on a socket that is closed already, is closed by force.
OnAccept ==
  /\ c.accept = "ready"
  /\ LET x == [c EXCEPT !.accept = "done"]
     IN  Becomes({Close(x, TRUE)}
                 \cup (IF c.sock
                       THEN StartRead(x, "header")
                            \cup StartRead([x EXCEPT !.protocol = TRUE], "header")
                       ELSE {}))
  /\ UNCHANGED <<accepted, written, failed>>

\* onAccept with an error: nobody releases the connection.

AcceptError ==
  /\ c.accept = "pending"
  /\ Becomes({[c EXCEPT !.accept = "failed"]})
  /\ UNCHANGED <<accepted, written, failed>>

\* A handler is given an error if the peer broke off or the socket was closed;
\* it may also be given a success from before the socket was closed.
Outcome(error) ==
  /\ failed => error
  /\ failed' = (failed \/ (error /\ c.sock))

ReadDone == [c EXCEPT !.read = "none", !.readTimer = Cancel(@)]

\* Too many packets per second are a reason to close, an impossible size is
\* one to close by force.
ParseHeader(error) ==
  /\ c.read = "header"
  /\ Outcome(error)
  /\ Becomes(IF error THEN {Close(ReadDone, TRUE)}
             ELSE IF c.state # "OPEN" THEN {ReadDone}
             ELSE {Close(ReadDone, FALSE), Close(ReadDone, TRUE)}
                  \cup StartRead(ReadDone, "body"))
  /\ UNCHANGED <<accepted, written>>

\* No packet: an error, a closed connection, or nobody speaks this protocol.
DropPacket(error) ==
  /\ c.read = "body"
  /\ Outcome(error)
  /\ Becomes(IF error THEN {Close(ReadDone, TRUE)}
             ELSE IF c.state # "OPEN" THEN {ReadDone}
             ELSE IF c.first \/ c.protocol THEN {}
             ELSE {Close([ReadDone EXCEPT !.first = TRUE], TRUE)})
  /\ UNCHANGED <<accepted, written>>

\* The protocol takes the packet: it may answer, then it may disconnect, and
\* in any case the next header is read.
ParsePacket(answers, disconnects) ==
  /\ c.read = "body"
  /\ c.state = "OPEN"
  /\ Outcome(FALSE)
  /\ answers => accepted < MaxMessages
  /\ LET x == [ReadDone EXCEPT !.first = TRUE, !.protocol = TRUE]
         Y == IF answers THEN Send(x) ELSE {x}
         Z == IF disconnects THEN {Close(y, FALSE) : y \in Y} ELSE Y
     IN  Becomes(UNION {StartRead(z, "header") : z \in Z})
  /\ accepted' = IF answers THEN accepted + 1 ELSE accepted
  /\ UNCHANGED written

OnWriteOperation(error) ==
  /\ c.writes > 0
  /\ Outcome(error)
  /\ LET x == PopFront([c EXCEPT !.writes = @ - 1, !.writeTimer = Cancel(@)])
     IN  Becomes(IF error THEN {Close([x EXCEPT !.queue = 0], TRUE)}
                 ELSE IF x.queue > 0 THEN InternalSend(x)
                 ELSE {AfterLastWrite(x)})
  /\ written' = IF error THEN written ELSE written + 1
  /\ UNCHANGED accepted

\* The 30 seconds of a timer are over; its handler holds only a weak_ptr.
ReadTimeout ==
  /\ "armed" \in c.readTimer
  /\ c' = [c EXCEPT !.readTimer = {"fired"}]
  /\ UNCHANGED <<accepted, written, failed>>

WriteTimeout ==
  /\ "armed" \in c.writeTimer
  /\ c' = [c EXCEPT !.writeTimer = {"fired"}]
  /\ UNCHANGED <<accepted, written, failed>>

HandleTimeout ==
  /\ \/ /\ "fired" \in c.readTimer
        /\ LET x == [c EXCEPT !.readTimer = @ \ {"fired"}]
           IN  IF c.alive THEN Becomes({Close(x, TRUE)}) ELSE c' = x
     \/ /\ "fired" \in c.writeTimer
        /\ LET x == [c EXCEPT !.writeTimer = @ \ {"fired"}]
           IN  IF c.alive THEN Becomes({Close(x, TRUE)}) ELSE c' = x
  /\ UNCHANGED <<accepted, written, failed>>

\* The dispatcher thread: Protocol::send and Protocol::disconnect.
GameSends ==
  /\ c.alive
  /\ c.protocol
  /\ accepted < MaxMessages
  /\ Becomes(Send(c))
  /\ accepted' = IF c.state = "OPEN" THEN accepted + 1 ELSE accepted
  /\ UNCHANGED <<written, failed>>

GameDisconnects ==
  /\ c.alive
  /\ c.protocol
  /\ Becomes({Close(c, FALSE)})
  /\ UNCHANGED <<accepted, written, failed>>

\* ConnectionManager::closeAll, when the services die: only the socket.
CloseAll ==
  /\ c.managed
  /\ c' = Settle([c EXCEPT !.managed = FALSE, !.sock = FALSE, !.hard = TRUE])
  /\ UNCHANGED <<accepted, written, failed>>

----------------------------------------------------------------------------
Step ==
  \/ PeerConnects
  \/ OnAccept
  \/ AcceptError
  \/ \E error \in BOOLEAN :
       ParseHeader(error) \/ DropPacket(error) \/ OnWriteOperation(error)
  \/ \E answers, disconnects \in BOOLEAN : ParsePacket(answers, disconnects)
  \/ ReadTimeout
  \/ WriteTimeout
  \/ HandleTimeout
  \/ GameSends
  \/ GameDisconnects
  \/ CloseAll

ConnectionNext == Step /\ UNCHANGED peerReads

ConnectionSpec == ConnectionInit /\ [][ConnectionNext]_connectionVars

Reads  == \/ \E error \in BOOLEAN : ParseHeader(error) \/ DropPacket(error)
          \/ \E a, d \in BOOLEAN : ParsePacket(a, d)
Writes == \E error \in BOOLEAN : OnWriteOperation(error)

\* asio runs the handlers of what was aborted or broke off, and of a write that
\* the peer's reading lets complete.  No peer has to send.  A timer that is not
\* armed again for ever runs out.
ConnectionFairness ==
  /\ WF_moving((~c.sock \/ failed) /\ Reads)
  /\ WF_moving((~c.sock \/ failed \/ peerReads) /\ Writes)
  /\ []<><<Reads>>_moving \/ WF_moving(ReadTimeout)
  /\ []<><<Writes>>_moving \/ WF_moving(WriteTimeout)
  /\ WF_moving(HandleTimeout)

ConnectionFairSpec == ConnectionSpec /\ ConnectionFairness

----------------------------------------------------------------------------
(* Properties                                                              *)

\* asio allows one async_write at a time.  While one is out its message is the
\* head of the queue; a message waits without one only on a closed connection.
OneWriteAtATime ==
  /\ c.writes =< 1
  /\ c.writes = 1 => c.queue > 0
  /\ c.queue > 0 /\ c.writes = 0 => c.state = "CLOSED"

\* A connection closed without force writes all it has accepted before its
\* socket is closed, unless the peer breaks off.
GracefulDelivers ==
  ~c.sock /\ ~c.hard /\ ~failed => written = accepted

\* The protocol is released once, when its connection is closed, whoever
\* closes it and however often; at the latest before the object is destroyed.
ReleasedOnce ==
  /\ c.released =< 1
  /\ c.protocol /\ c.state = "CLOSED" => c.released = 1
  /\ c.protocol /\ ~c.alive => c.released = 1

\* Writing ends: on an open connection at the latest by the timer of the write,
\* and then a connection that was closed without force loses its socket, if its
\* peer reads or breaks off and no start of an operation throws.
WritingEnds ==
  /\ (c.state = "OPEN" /\ c.writes > 0) ~> (c.writes = 0 \/ c.state = "CLOSED")
  /\ (c.state = "CLOSED" /\ peerReads) ~> (~c.sock \/ c.hard)

=============================================================================
