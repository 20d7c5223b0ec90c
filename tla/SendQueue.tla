------------------------------ MODULE SendQueue ------------------------------
(***************************************************************************)
(* How the responses of one server connection reach its socket.  Worker    *)
(* threads, and the transport thread when it runs a service itself, flush  *)
(* chunks under the write mutex of the channel (opcua_securestream.c).     *)
(* What the socket does not take at once waits: first in the channel       *)
(* (pPendingSendBuffers), then in the connection (pSendQueue), from where  *)
(* the transport thread writes it when the socket is writable again        *)
(* (opcua_tcplistener.c, with the callbacks of opcua_securelistener.c).    *)
(*                                                                         *)
(* A chunk is ChunkSize units and the socket has room for Capacity of      *)
(* them.  One action is one chunk flushed, one write to the socket, or one *)
(* region under the write mutex.  A flush is atomic: the transport thread  *)
(* that a partial write has called may begin its work before the flush has *)
(* set bAsyncWriteInProgress, and then waits for the mutex (Refill).       *)
(***************************************************************************)
EXTENDS Integers, Sequences, FiniteSets

CONSTANTS
    Messages,       \* requests to read, each answered by one response
    MaxChunks,      \* bound: chunks of a response
    MaxChunkCount,  \* chunks of a message that the peer accepts; 0: any number
    ChunkSize,      \* units of a chunk
    Capacity,       \* units the socket holds until the peer reads them
    MaxPending,     \* OPCUA_SECURECONNECTION_MAXPENDINGMESSAGES
    None, Error     \* no message; the ERR message of the listener

ASSUME SendQueueAssumption ==
    /\ MaxChunks \in Nat \ {0} /\ ChunkSize \in Nat \ {0} /\ Capacity \in Nat \ {0}
    /\ MaxPending \in Nat /\ MaxChunkCount \in Nat
    /\ None \notin Messages /\ Error \notin Messages

VARIABLES
    mutex,          \* the message whose stream holds the write mutex, or None
    at,             \* at[m]: chunks of m flushed (uNoOfFlushes)
    stage,          \* stage[m]: progress of the request m and its response
    pending,        \* pPendingSendBuffers of the channel, as units
    async,          \* its bAsyncWriteInProgress
    count,          \* its uPendingMessageCount
    open,           \* its state is Opened
    sendQ,          \* pSendQueue of the connection, as units
    noRcv,          \* its bNoRcvUntilDone
    rcvPending,     \* its bRcvDataPending; the read event is off while it is set
    closeWhenDone,  \* its bCloseWhenDone
    conn,           \* "linked" to the channel, "unlinked", or "closed"
    tt,             \* what the transport thread does with this connection
    armed,          \* the write event is in the EventMask of the socket
    wire,           \* every unit the socket has taken
    space,          \* units it has room for
    flushes,        \* flushes[m]: chunks of m written past the queue (NoOfFlushes)
    up              \* the peer is there

channel    == <<mutex, at, stage, pending, async, count, open>>
connection == <<sendQ, noRcv, rcvPending, closeWhenDone, conn>>
socket     == <<armed, wire, space, flushes, up>>
vars       == <<channel, connection, tt, socket>>

Stages == {"unread", "handler", "worker", "sent", "failed"}
Transport == {"idle", "callback", "overflow", "failing", "queue", "refill", "read", "losing"}

ChunkUnits(m, c, last) == [k \in 1 .. ChunkSize |-> [m |-> m, c |-> c, last |-> last, k |-> k]]
Unit == [m : Messages \union {Error}, c : 1 .. MaxChunks, last : BOOLEAN, k : 1 .. ChunkSize]

Lesser(a, b) == IF a < b THEN a ELSE b
Rest(q, n)   == SubSeq(q, n + 1, Len(q))

Init ==
    /\ mutex = None
    /\ at = [m \in Messages |-> 0] /\ stage = [m \in Messages |-> "unread"]
    /\ pending = <<>> /\ async = FALSE /\ count = 0 /\ open = TRUE
    /\ sendQ = <<>> /\ noRcv = FALSE /\ rcvPending = FALSE
    /\ closeWhenDone = FALSE /\ conn = "linked"
    /\ tt = "idle"
    /\ armed = FALSE /\ wire = <<>> /\ space = Capacity /\ up = TRUE
    /\ flushes = [m \in Messages |-> 0]

-----------------------------------------------------------------------------
(* The socket. *)

\* Mutated form of SocketWrite: the whole of q counts as taken.
TakesAll(q) ==
    LET n == Lesser(space, Len(q))
    IN  /\ wire' = wire \o SubSeq(q, 1, n)
        /\ space' = space - Len(q)
        /\ armed' = (armed \/ n < Len(q))
        /\ UNCHANGED up

\* OpcUa_P_SocketService_Write: what fits is taken; when that is not all, the
\* write event is armed.
SocketWrite(q) ==
    LET n == Lesser(space, Len(q))
    IN  /\ wire' = wire \o SubSeq(q, 1, n)
        /\ space' = space - n
        /\ armed' = (armed \/ n < Len(q))
        /\ UNCHANGED up

Refused(q) == Rest(q, Lesser(space, Len(q)))

PeerReads ==
    /\ up /\ space < Capacity
    /\ space' = space + 1
    /\ UNCHANGED <<channel, connection, tt, armed, wire, flushes, up>>

PeerGone ==
    /\ up /\ conn # "closed" /\ up' = FALSE
    /\ UNCHANGED <<channel, connection, tt, armed, wire, space, flushes>>

-----------------------------------------------------------------------------
(* OpcUa_SecureStream_Flush, by a worker or by a service that the          *)
(* transport thread runs.  The first chunk takes the write mutex; the last *)
(* one, or the deletion of the stream, releases it.                        *)

Answering(m) == stage[m] \in {"handler", "worker"} /\ mutex \in {None, m}

\* Mutated form of Flushed: a message is counted whether or not anything waits.
CountedAnyway(m, last) ==
    /\ at' = [at EXCEPT ![m] = @ + 1]
    /\ stage' = IF last THEN [stage EXCEPT ![m] = "sent"] ELSE stage
    /\ mutex' = IF last THEN None ELSE m
    /\ count' = IF last THEN count + 1 ELSE count

\* Mutated form of Flushed: the mutex is held for a chunk, not for a message.
UnlockedEachChunk(m, last) ==
    /\ at' = [at EXCEPT ![m] = @ + 1]
    /\ stage' = IF last THEN [stage EXCEPT ![m] = "sent"] ELSE stage
    /\ mutex' = None
    /\ count' = IF last /\ pending' # <<>> THEN count + 1 ELSE count

Flushed(m, last) ==
    /\ at' = [at EXCEPT ![m] = @ + 1]
    /\ stage' = IF last THEN [stage EXCEPT ![m] = "sent"] ELSE stage
    /\ mutex' = IF last THEN None ELSE m
    /\ count' = IF last /\ pending' # <<>> THEN count + 1 ELSE count

\* An asynchronous write is in progress: the chunk queues behind it.
FlushQueued(m, last) ==
    /\ Answering(m) /\ conn = "linked" /\ open /\ async
    /\ at[m] + 1 = MaxChunks => last
    /\ pending' = pending \o ChunkUnits(m, at[m] + 1, last)
    /\ Flushed(m, last)
    /\ UNCHANGED <<async, open, connection, tt, socket>>

\* OpcUa_TcpStream_Flush refuses a chunk that leaves no room for the last one; the
\* response fails.
WithinLimit(m, last) == MaxChunkCount # 0 /\ flushes[m] + 1 >= MaxChunkCount => last

\* Otherwise it is written, and what the socket refuses is what waits first.
FlushDirect(m, last) ==
    /\ Answering(m) /\ conn = "linked" /\ open /\ ~async /\ up
    /\ at[m] + 1 = MaxChunks => last
    /\ WithinLimit(m, last)
    /\ flushes' = [flushes EXCEPT ![m] = @ + 1]
    /\ LET chunk == ChunkUnits(m, at[m] + 1, last)
       IN  /\ SocketWrite(chunk)
           /\ IF Refused(chunk) # <<>>
                THEN pending' = Refused(chunk) /\ async' = TRUE
                ELSE UNCHANGED <<pending, async>>
    /\ Flushed(m, last)
    /\ UNCHANGED <<open, connection, tt>>

\* The response is given up and its stream deleted, and the mutex with it.
GivenUp(m) ==
    /\ stage' = [stage EXCEPT ![m] = "failed"]
    /\ mutex' = IF mutex = m THEN None ELSE mutex
    /\ UNCHANGED <<at, pending, async, count, open, connection, tt, socket>>

\* The channel has no connection, was closed, or the socket reports an error.
FlushFails(m) ==
    /\ Answering(m)
    /\ conn # "linked" \/ ~open \/ (~async /\ ~up)
    /\ GivenUp(m)

\* The encoder fails or a chunk is refused, before the first chunk or after any:
\* EndSendResponse with a bad status sends nothing.  (The abort chunk of
\* AbortSendResponse needs a bad status and a stream that was flushed; the endpoint
\* calls it with the one or with the other.)
ResponseFails(m) ==
    /\ stage[m] \in {"handler", "worker"}
    /\ GivenUp(m)

-----------------------------------------------------------------------------
(* The transport thread, reading: OpcUa_TcpListener_ReadEventHandler and   *)
(* what it calls.  A request is one chunk.                                 *)

\* Receiving is suspended: what there is to read is read when the queue is empty.
ReadSuspended ==
    /\ tt = "idle" /\ conn # "closed" /\ ~rcvPending /\ noRcv
    /\ ~up \/ \E m \in Messages : stage[m] = "unread"
    /\ rcvPending' = TRUE
    /\ UNCHANGED <<channel, sendQ, noRcv, closeWhenDone, conn, tt, socket>>

\* A read event, or the nested call of WriteEventHandler.
Reading == tt = "read" \/ (tt = "idle" /\ conn # "closed" /\ ~rcvPending /\ ~noRcv)

\* The service runs in the callback, or hands its response over to another thread.
\* (The thread pool of the secure listener is compiled out.)
ReadRequest(m) ==
    /\ Reading /\ up /\ stage[m] = "unread" /\ conn = "linked"
    /\ \E who \in {"handler", "worker"} : stage' = [stage EXCEPT ![m] = who]
    /\ tt' = "callback"
    /\ UNCHANGED <<mutex, at, pending, async, count, open, connection, socket>>

\* A request that fails, or that closes the channel: ProcessRequest closes the
\* channel before it takes the mutex, unless the type of the request is unknown.
ReadBadRequest(m) ==
    /\ Reading /\ up /\ stage[m] = "unread" /\ conn = "linked"
    /\ stage' = [stage EXCEPT ![m] = "failed"]
    /\ open' \in {FALSE, open}
    /\ tt' = "failing"
    /\ UNCHANGED <<mutex, at, pending, async, count, connection, socket>>

\* The connection belongs to no channel any more: BadSecureChannelIdInvalid, ignored.
ReadUnlinked(m) ==
    /\ Reading /\ up /\ stage[m] = "unread" /\ conn = "unlinked"
    /\ stage' = [stage EXCEPT ![m] = "failed"]
    /\ tt' = "idle"
    /\ UNCHANGED <<mutex, at, pending, async, count, open, connection, socket>>

ReadFails ==
    /\ Reading /\ ~up
    /\ tt' = "losing"
    /\ UNCHANGED <<channel, connection, socket>>

\* Back from the callback; the count is read without the mutex.
AfterCallback ==
    /\ tt = "callback" /\ \A m \in Messages : stage[m] # "handler"
    /\ tt' = IF count > MaxPending THEN "overflow" ELSE "idle"
    /\ UNCHANGED <<channel, connection, socket>>

\* Too many responses wait: they move to the connection, which stops receiving.
Overflow ==
    /\ tt = "overflow" /\ mutex = None
    /\ sendQ' = sendQ \o pending /\ noRcv' = TRUE
    /\ pending' = <<>> /\ count' = 0
    /\ tt' = "idle"
    /\ UNCHANGED <<mutex, at, stage, async, open, rcvPending, closeWhenDone, conn, socket>>

-----------------------------------------------------------------------------
(* The transport thread, closing. *)

\* Mutated form of Waiting: the responses that wait in the channel are forgotten.
QueuedOnly == sendQ

Waiting == IF async THEN sendQ \o pending ELSE sendQ

\* The end of ProcessRequest or AbortRequestAndClose: what waits moves to the
\* connection, the channel is unlinked, and CloseConnection adds the ERR message
\* (none for BadDisconnect) and closes now or when the queue is empty.
CloseConnection ==
    /\ tt = "failing" /\ mutex = None
    /\ async' = FALSE /\ pending' = <<>> /\ count' = 0
    /\ \/ UNCHANGED socket /\ sendQ' = Waiting
       \/ /\ Waiting # <<>> /\ UNCHANGED socket
          /\ sendQ' = Waiting \o ChunkUnits(Error, 1, TRUE)
       \/ /\ Waiting = <<>> /\ up
          /\ SocketWrite(ChunkUnits(Error, 1, TRUE)) /\ UNCHANGED flushes
          /\ sendQ' = Refused(ChunkUnits(Error, 1, TRUE))
    /\ IF sendQ' # <<>>
         THEN conn' = "unlinked" /\ closeWhenDone' = TRUE
         ELSE conn' = "closed" /\ UNCHANGED closeWhenDone
    /\ tt' = "idle"
    /\ UNCHANGED <<mutex, at, stage, open, noRcv, rcvPending>>

\* OpcUa_TcpListener_ProcessDisconnect, with the ChannelClosed callback unless the
\* channel was unlinked before.
Disconnect ==
    /\ tt = "losing" /\ (closeWhenDone \/ mutex = None)
    /\ conn' = "closed" /\ sendQ' = <<>>
    /\ IF closeWhenDone THEN UNCHANGED <<async, pending, count>>
                        ELSE async' = FALSE /\ pending' = <<>> /\ count' = 0
    /\ tt' = "idle"
    /\ UNCHANGED <<mutex, at, stage, open, noRcv, rcvPending, closeWhenDone, socket>>

-----------------------------------------------------------------------------
(* The transport thread, writing: OpcUa_TcpListener_WriteEventHandler. *)

\* The select of the socket loop reports the socket writable, or in error.
WriteEvent ==
    /\ tt = "idle" /\ conn # "closed" /\ armed /\ (space > 0 \/ ~up)
    /\ armed' = FALSE
    /\ tt' = "queue"
    /\ UNCHANGED <<channel, connection, wire, space, flushes, up>>

\* Mutated form of ReadMissed: a suspended read is left to the next read event.
ReadLeft == UNCHANGED rcvPending /\ tt' = "idle"

\* What to do when no more can be written: a suspended read is made up for.
ReadMissed ==
    IF ~noRcv' /\ rcvPending THEN rcvPending' = FALSE /\ tt' = "read"
                             ELSE UNCHANGED rcvPending /\ tt' = "idle"

WriteQueue ==
    /\ tt = "queue" /\ sendQ # <<>> /\ up
    /\ SocketWrite(sendQ)
    /\ sendQ' = Refused(sendQ)
    /\ UNCHANGED <<noRcv, flushes>>
    /\ IF Refused(sendQ) # <<>> THEN ReadMissed ELSE UNCHANGED <<rcvPending, tt>>
    /\ UNCHANGED <<channel, closeWhenDone, conn>>

WriteFails ==
    /\ tt = "queue" /\ sendQ # <<>> /\ ~up
    /\ tt' = "losing"
    /\ UNCHANGED <<channel, connection, socket>>

\* Mutated form of QueueEmpty: bNoRcvUntilDone is not reset.
StillSuspended ==
    /\ tt = "queue" /\ sendQ = <<>>
    /\ tt' = IF closeWhenDone THEN "losing" ELSE "refill"
    /\ UNCHANGED <<channel, connection, socket>>

\* The queue is empty: close, or receive again and ask the channel for more.
QueueEmpty ==
    /\ tt = "queue" /\ sendQ = <<>>
    /\ IF closeWhenDone THEN tt' = "losing" /\ UNCHANGED noRcv
                        ELSE tt' = "refill" /\ noRcv' = FALSE
    /\ UNCHANGED <<channel, sendQ, rcvPending, closeWhenDone, conn, socket>>

\* Mutated form of Refill: the asynchronous write counts as done.
RefillDone ==
    /\ tt = "refill" /\ mutex = None
    /\ sendQ' = sendQ \o pending
    /\ noRcv' = (noRcv \/ count > MaxPending)
    /\ async' = FALSE
    /\ pending' = <<>> /\ count' = 0
    /\ IF sendQ' # <<>> THEN tt' = "queue" /\ UNCHANGED rcvPending ELSE ReadMissed
    /\ UNCHANGED <<mutex, at, stage, open, closeWhenDone, conn, socket>>

\* The RefillSendQueue event; with nothing to add the handler is done.
Refill ==
    /\ tt = "refill" /\ mutex = None
    /\ sendQ' = sendQ \o pending
    /\ noRcv' = (noRcv \/ count > MaxPending)
    /\ async' = (pending # <<>>)
    /\ pending' = <<>> /\ count' = 0
    /\ IF sendQ' # <<>> THEN tt' = "queue" /\ UNCHANGED rcvPending ELSE ReadMissed
    /\ UNCHANGED <<mutex, at, stage, open, closeWhenDone, conn, socket>>

-----------------------------------------------------------------------------
Flush(m) ==
    \/ \E last \in BOOLEAN : FlushQueued(m, last) \/ FlushDirect(m, last)
    \/ FlushFails(m)

ReadEvent ==
    \/ ReadSuspended
    \/ ReadFails
    \/ \E m \in Messages : ReadRequest(m) \/ ReadBadRequest(m) \/ ReadUnlinked(m)

TransportStep ==
    \/ ReadEvent \/ AfterCallback \/ Overflow
    \/ CloseConnection \/ Disconnect
    \/ WriteEvent \/ WriteQueue \/ WriteFails \/ QueueEmpty \/ Refill

Next ==
    \/ \E m \in Messages : Flush(m) \/ ResponseFails(m)
    \/ TransportStep
    \/ PeerReads \/ PeerGone

Spec == Init /\ [][Next]_vars

\* Threads run on; a peer that stays reads what it is sent.
Fairness ==
    /\ \A m \in Messages : WF_vars(Flush(m))
    /\ WF_vars(TransportStep)
    /\ WF_vars(PeerReads)

FairSpec == Spec /\ Fairness

-----------------------------------------------------------------------------
(* The stream that this connection is to its peer. *)

\* What the peer has, and what it will get unless the connection ends before.
Promised == IF conn = "closed" THEN wire ELSE wire \o sendQ \o pending

Phase ==
    CASE conn = "closed"   -> "closed"
      [] conn = "unlinked" -> "closing"
      [] conn = "linked"   -> "open"

\* The responses that were begun and will not be finished.
Abandoned == {m \in Messages : stage[m] = "failed" /\ at[m] > 0}

Stream == INSTANCE ResponseStream WITH
    stream <- Promised, writer <- mutex, written <- at, abandoned <- Abandoned,
    state <- Phase

-----------------------------------------------------------------------------
(* Properties. *)

TypeOK ==
    /\ mutex \in Messages \union {None}
    /\ at \in [Messages -> 0 .. MaxChunks]
    /\ stage \in [Messages -> Stages]
    /\ pending \in Seq(Unit) /\ sendQ \in Seq(Unit) /\ wire \in Seq(Unit)
    /\ async \in BOOLEAN /\ open \in BOOLEAN /\ noRcv \in BOOLEAN
    /\ rcvPending \in BOOLEAN /\ closeWhenDone \in BOOLEAN
    /\ armed \in BOOLEAN /\ up \in BOOLEAN
    /\ count \in Nat /\ space \in 0 .. Capacity
    /\ flushes \in [Messages -> Nat]
    /\ conn \in {"linked", "unlinked", "closed"}
    /\ tt \in Transport

\* The peer never sees chunks of two messages mixed, a chunk torn by another, or a
\* part sent twice, and a message without its end was abandoned, whoever wrote them: the flushing threads past the queue
\* (opcua_securestream.c 1019) or the transport thread from it.
PeerSeesWholeMessages == Stream!Whole(wire, Abandoned)

\* Nothing waits without the write event that will send it: what the socket refused,
\* in the channel or in the connection, is either being handled by the transport
\* thread or the event is armed (opcua_p_socket_internal.c 203).
NothingStuck ==
    conn # "closed" /\ sendQ \o pending # <<>> /\ tt \notin {"queue", "refill", "losing"}
        => armed

\* Two threads never write to the socket at once: whoever flushes past the queue finds
\* the queue empty and the write event off, so that neither WriteEventHandler nor the
\* unlocked test of EventMask can meet it (opcua_securestream.c 1019,
\* opcua_p_socket_internal.c 205).
OneWriter == conn = "linked" /\ (armed \/ sendQ # <<>>) => async

\* A read put off because of bNoRcvUntilDone is made up for: while it is put off the
\* thread is not idle or will come back, and receiving is suspended only for a queue
\* that is being sent (opcua_tcplistener.c 1233, 1552, 1601).
ReadNotForgotten ==
    conn # "closed" /\ tt = "idle" =>
        /\ rcvPending => noRcv
        /\ noRcv => sendQ # <<>>

\* uPendingMessageCount is the number of messages whose end waits in the channel.
CountExact ==
    count = Cardinality({i \in DOMAIN pending : pending[i].last /\ pending[i].k = ChunkSize})

\* A message has no more chunks than the connection accepts (MaxChunkCount of
\* opcua_tcplistener_connectionmanager.h 57, agreed on in the handshake).
ChunkLimit == MaxChunkCount # 0 => \A m \in Messages : at[m] <= MaxChunkCount

\* A message has ended, by its last chunk or an abort chunk, before the next one begins:
\* "bad status code means, the application could not handle a problem -> trigger error
\* message" (opcua_securelistener.c 1118).
EndedBeforeNext ==
    \A i \in 1 .. Len(wire) - 1 :
        wire[i].m # wire[i + 1].m /\ wire[i + 1].m # Error => wire[i].last

\* A response that was sent reaches the peer unless the peer goes away, also
\* when the connection is closed meanwhile.
Delivered ==
    \A m \in Messages :
        stage[m] = "sent" ~> ~up \/ \E i \in DOMAIN wire : wire[i].m = m /\ wire[i].last
                                                              /\ wire[i].k = ChunkSize

\* A request that waits is read, however often receiving is suspended, unless the
\* connection goes away; nobody waits for the mutex for ever.
RequestsRead ==
    \A m \in Messages :
        stage[m] = "unread" ~> stage[m] \in {"sent", "failed"} \/ conn = "closed"

\* What the peer has and will get is the stream of the responses in the order of the
\* write mutex, whichever way each unit takes.
ImplementsStream == Stream!Spec
=============================================================================
