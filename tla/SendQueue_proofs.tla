--------------------------- MODULE SendQueue_proofs ---------------------------
(***************************************************************************)
(* Proofs about the send path, for any responses, chunk size and socket.   *)
(*                                                                         *)
(* The inductive invariant says who owns what: which thread may touch the  *)
(* queue while a response is half flushed (MutexInv), how the flag         *)
(* bAsyncWriteInProgress, the two queues and the write event go together   *)
(* (AsyncInv, ArmedInv), what is left of them when the connection is given *)
(* up (ConnInv), and how the suspension of receiving ends (ReceiveInv).    *)
(*                                                                         *)
(* With it each step of a thread, of the listener or of the peer is one    *)
(* step of ResponseStream or changes nothing of it: a chunk enters the     *)
(* stream when it is flushed, whether the socket takes it, refuses a part  *)
(* of it, or it queues; from there to the socket it moves without changing *)
(* the stream.  The stream, in turn, is whole.                             *)
(***************************************************************************)
EXTENDS SendQueue, SequenceTheorems, FiniteSetTheorems, TLAPS

\* A request is answered once; a response ends with its last chunk.
ProgressInv ==
    \A m \in Messages :
        /\ stage[m] = "unread" => at[m] = 0
        /\ stage[m] \in {"handler", "worker"} => at[m] < MaxChunks

\* The write mutex is held by the one response that has begun and not ended.
MutexInv ==
    \A m \in Messages :
        mutex = m <=> stage[m] \in {"handler", "worker"} /\ at[m] > 0

\* What waits, waits behind an asynchronous write.
AsyncInv ==
    /\ pending # <<>> => async
    /\ conn = "linked" /\ sendQ # <<>> => async
    /\ conn = "linked" /\ armed => async

\* A connection that was given up owes the channel nothing.
ConnInv ==
    /\ conn # "linked" => ~async /\ mutex = None
    /\ conn = "linked" => ~closeWhenDone
    /\ conn = "unlinked" => closeWhenDone
    /\ conn = "closed" => sendQ = <<>> /\ tt = "idle"
    /\ tt \in {"callback", "overflow", "failing", "refill"} => conn = "linked"

\* Whatever waits, the thread is on its way to it or the write event is armed.
ArmedInv ==
    /\ tt \notin {"queue", "refill", "losing"} =>
           /\ conn = "linked" /\ async => armed
           /\ conn = "unlinked" /\ sendQ # <<>> => armed
    /\ tt \in {"queue", "refill"} => ~armed /\ (conn = "linked" => async)
    /\ tt = "refill" => sendQ = <<>>

\* Receiving is suspended only for a queue that is being sent.
ReceiveInv ==
    /\ count > 0 => pending # <<>>
    /\ tt = "overflow" => count > MaxPending
    /\ tt = "refill" => ~noRcv
    /\ conn # "closed" /\ noRcv => sendQ # <<>> \/ tt \in {"queue", "losing"}
    /\ conn # "closed" /\ rcvPending => noRcv \/ tt \in {"queue", "refill", "losing"}

Inv ==
    /\ TypeOK /\ ProgressInv /\ MutexInv /\ AsyncInv /\ ConnInv
    /\ ArmedInv /\ ReceiveInv

-----------------------------------------------------------------------------
(* Sequences of units. *)

\* A chunk is a sequence of units, and not an empty one.
LEMMA ChunkType ==
    ASSUME NEW m \in Messages \union {Error}, NEW c \in 1 .. MaxChunks, NEW last \in BOOLEAN
    PROVE  /\ ChunkUnits(m, c, last) \in Seq(Unit)
           /\ Len(ChunkUnits(m, c, last)) = ChunkSize
           /\ ChunkUnits(m, c, last) # <<>>
  <1> DEFINE chunk == ChunkUnits(m, c, last)
  <1>1. ChunkSize \in Nat \ {0}
    BY SendQueueAssumption
  <1>2. chunk \in [1 .. ChunkSize -> Unit]
    BY DEF ChunkUnits, Unit
  <1>3. chunk \in Seq(Unit) /\ Len(chunk) = ChunkSize
    BY <1>1, <1>2, SeqDef
  <1>4. chunk # <<>>
    BY <1>1, <1>3, EmptySeq
  <1> QED
    BY <1>3, <1>4

\* Where two queues are put together, either may be empty.
LEMMA JoinType ==
    ASSUME NEW p \in Seq(Unit), NEW q \in Seq(Unit)
    PROVE  /\ p \o q \in Seq(Unit)
           /\ p \o q = <<>> <=> p = <<>> /\ q = <<>>
           /\ p \o <<>> = p /\ <<>> \o p = p
  BY ConcatProperties, ConcatEqualIffEmpty, ConcatEmptySeq

\* Joining is associative.
LEMMA JoinAssociative ==
    ASSUME NEW p \in Seq(Unit), NEW q \in Seq(Unit), NEW r \in Seq(Unit)
    PROVE  (p \o q) \o r = p \o (q \o r)
  BY ConcatAssociative, SMTT(30)

\* A queue cut in two.
LEMMA Cut ==
    ASSUME NEW q \in Seq(Unit), NEW n \in 0 .. Len(q)
    PROVE  /\ SubSeq(q, 1, n) \in Seq(Unit) /\ Rest(q, n) \in Seq(Unit)
           /\ Len(Rest(q, n)) = Len(q) - n
           /\ Rest(q, n) # <<>> <=> n < Len(q)
           /\ SubSeq(q, 1, n) \o Rest(q, n) = q
           /\ \A i \in 1 .. Len(q) - n : Rest(q, n)[i] = q[n + i]
  <1>1. Len(q) \in Nat /\ \A i \in 1 .. Len(q) : q[i] \in Unit
    BY LenProperties
  <1>2. SubSeq(q, 1, n) \in Seq(Unit)
    BY <1>1, SubSeqProperties
  <1>3. /\ Rest(q, n) \in Seq(Unit)
        /\ Len(Rest(q, n)) = Len(q) - n
        /\ \A i \in 1 .. Len(q) - n : Rest(q, n)[i] = q[n + i]
    <2>1. \A i \in n + 1 .. Len(q) : q[i] \in Unit
      BY <1>1
    <2>2. n + 1 \in Int /\ Len(q) \in Int
      BY <1>1
    <2>3. /\ SubSeq(q, n + 1, Len(q)) \in Seq(Unit)
          /\ Len(SubSeq(q, n + 1, Len(q)))
               = IF n + 1 <= Len(q) THEN Len(q) - (n + 1) + 1 ELSE 0
          /\ \A i \in 1 .. Len(q) - (n + 1) + 1 :
               SubSeq(q, n + 1, Len(q))[i] = q[n + 1 + i - 1]
      BY <2>1, <2>2, SubSeqProperties
    <2>4. \A i \in 1 .. Len(q) - n : SubSeq(q, n + 1, Len(q))[i] = q[n + i]
      BY <1>1, <2>3
    <2> QED
      BY <1>1, <2>3, <2>4 DEF Rest
  <1>4. Rest(q, n) # <<>> <=> n < Len(q)
    BY <1>1, <1>3, EmptySeq
  <1>5. SubSeq(q, 1, n) \o Rest(q, n) = q
    <2>1. 1 \in 1 .. Len(q) + 1 /\ n \in 1 - 1 .. Len(q) /\ Len(q) \in n .. Len(q)
      BY <1>1
    <2>2. SubSeq(q, 1, n) \o Rest(q, n) = SubSeq(q, 1, Len(q))
      BY <2>1, ConcatAdjacentSubSeq DEF Rest
    <2> QED
      BY <2>2, SubSeqFull
  <1> QED
    BY <1>2, <1>3, <1>4, <1>5

\* What the socket takes and what it refuses of q is q, in order; what it refuses
\* arms the write event.
LEMMA WriteSplits ==
    ASSUME TypeOK, NEW q \in Seq(Unit), SocketWrite(q)
    PROVE  /\ wire' \in Seq(Unit) /\ space' \in 0 .. Capacity /\ armed' \in BOOLEAN
           /\ up' = up /\ Refused(q) \in Seq(Unit)
           /\ wire' \o Refused(q) = wire \o q
           /\ armed' <=> armed \/ Refused(q) # <<>>
  <1>1. PICK n \in 0 .. Len(q) :
           /\ n <= space /\ Refused(q) = Rest(q, n)
           /\ wire' = wire \o SubSeq(q, 1, n) /\ space' = space - n
           /\ armed' = (armed \/ n < Len(q)) /\ up' = up
    <2>1. Len(q) \in Nat
      BY LenProperties
    <2>2. Lesser(space, Len(q)) \in 0 .. Len(q) /\ Lesser(space, Len(q)) <= space
      BY <2>1 DEF TypeOK, Lesser
    <2> QED
      BY <2>2 DEF SocketWrite, Refused
  <1>2. PICK t \in Seq(Unit), r \in Seq(Unit) :
           wire' = wire \o t /\ Refused(q) = r /\ t \o r = q /\ (r # <<>> <=> n < Len(q))
    BY <1>1, Cut
  <1>3. wire \in Seq(Unit)
    BY DEF TypeOK
  <1>4. wire \o t \in Seq(Unit)
    BY <1>3, ConcatProperties
  <1>5. (wire \o t) \o r = wire \o (t \o r)
    BY <1>3, JoinAssociative, Zenon
  <1>6. space' \in 0 .. Capacity
    BY <1>1, SendQueueAssumption DEF TypeOK
  <1>7. armed' \in BOOLEAN /\ (armed' <=> armed \/ Refused(q) # <<>>)
    BY <1>1, <1>2 DEF TypeOK
  <1> QED
    BY <1>1, <1>2, <1>4, <1>5, <1>6, <1>7, Zenon

-----------------------------------------------------------------------------
(* The invariant: its start, and the threads that flush.                   *)

\* A connection begins with nothing to send.
LEMMA InvInit == Init => Inv
  <1> SUFFICES ASSUME Init PROVE Inv
    OBVIOUS
  <1>1. TypeOK
    <2>1. <<>> \in Seq(Unit) /\ 0 \in 0 .. MaxChunks /\ Capacity \in 0 .. Capacity
      BY SendQueueAssumption, EmptySeq
    <2>2. at \in [Messages -> 0 .. MaxChunks] /\ stage \in [Messages -> Stages]
      BY <2>1 DEF Init, Stages
    <2> QED
      BY <2>1, <2>2 DEF Init, TypeOK, Transport
  <1>2. ProgressInv /\ MutexInv
    BY SendQueueAssumption DEF Init, ProgressInv, MutexInv
  <1>3. AsyncInv /\ ConnInv /\ ArmedInv /\ ReceiveInv
    BY DEF Init, AsyncInv, ConnInv, ArmedInv, ReceiveInv
  <1> QED
    BY <1>1, <1>2, <1>3 DEF Inv

\* A flushed chunk moves its message on and takes or releases the write mutex.
LEMMA FlushedKeeps ==
    ASSUME Inv, NEW m \in Messages, NEW last \in BOOLEAN, Answering(m),
           at[m] + 1 = MaxChunks => last, Flushed(m, last)
    PROVE  /\ at[m] + 1 \in 1 .. MaxChunks
           /\ at' \in [Messages -> 0 .. MaxChunks] /\ stage' \in [Messages -> Stages]
           /\ mutex' \in Messages \union {None} /\ count' \in Nat
           /\ ProgressInv' /\ MutexInv'
           /\ Abandoned' = Abandoned
           /\ count' > 0 => count > 0 \/ pending' # <<>>
           /\ count' >= count
  <1>1. TypeOK /\ ProgressInv /\ MutexInv
    BY DEF Inv
  <1>2. at[m] \in Nat /\ at[m] < MaxChunks /\ MaxChunks \in Nat /\ stage[m] \in {"handler", "worker"}
    BY <1>1, SendQueueAssumption DEF Answering, ProgressInv, TypeOK
  <1>3. /\ at' = [at EXCEPT ![m] = @ + 1]
        /\ stage' = IF last THEN [stage EXCEPT ![m] = "sent"] ELSE stage
        /\ mutex' = IF last THEN None ELSE m
        /\ count' = IF last /\ pending' # <<>> THEN count + 1 ELSE count
    BY DEF Flushed
  <1>4. at' \in [Messages -> 0 .. MaxChunks] /\ stage' \in [Messages -> Stages]
    BY <1>1, <1>2, <1>3 DEF TypeOK, Stages
  <1>5. mutex' \in Messages \union {None} /\ count' \in Nat /\ count' >= count
    BY <1>1, <1>3 DEF TypeOK
  <1>6. ProgressInv'
    BY <1>1, <1>2, <1>3 DEF TypeOK, ProgressInv
  <1>7. MutexInv'
    <2> SUFFICES ASSUME NEW i \in Messages
                 PROVE  mutex' = i <=> stage'[i] \in {"handler", "worker"} /\ at'[i] > 0
      BY DEF MutexInv
    <2>1. mutex \in {None, m}
      BY DEF Answering
    <2>2. CASE i = m
      BY <1>1, <1>2, <1>3, <2>2, SendQueueAssumption DEF TypeOK
    <2>3. CASE i # m
      <3>1. mutex # i /\ mutex' # i /\ at'[i] = at[i] /\ stage'[i] = stage[i]
        BY <1>1, <1>3, <2>1, <2>3, SendQueueAssumption DEF TypeOK
      <3> QED
        BY <1>1, <3>1 DEF MutexInv
    <2> QED
      BY <2>2, <2>3
  <1>8. Abandoned' = Abandoned
    BY <1>1, <1>2, <1>3 DEF TypeOK, Abandoned
  <1> QED
    BY <1>2, <1>3, <1>4, <1>5, <1>6, <1>7, <1>8

\* Behind an asynchronous write.
LEMMA FlushQueuedKeeps ==
    ASSUME Inv, NEW m \in Messages, NEW last \in BOOLEAN, FlushQueued(m, last)
    PROVE  Inv'
  <1>1. /\ at[m] + 1 \in 1 .. MaxChunks
        /\ at' \in [Messages -> 0 .. MaxChunks] /\ stage' \in [Messages -> Stages]
        /\ mutex' \in Messages \union {None} /\ count' \in Nat
        /\ ProgressInv' /\ MutexInv' /\ count' >= count
    BY FlushedKeeps DEF FlushQueued
  <1>2. PICK chunk \in Seq(Unit) : chunk # <<>> /\ pending' = pending \o chunk
    BY <1>1, ChunkType DEF FlushQueued
  <1>3. pending' \in Seq(Unit) /\ pending' # <<>>
    BY <1>2, JoinType DEF Inv, TypeOK
  <1>4. /\ conn = "linked" /\ open /\ async
        /\ UNCHANGED <<async, open, sendQ, noRcv, rcvPending, closeWhenDone, conn, tt,
                       armed, wire, space, flushes, up>>
    BY DEF FlushQueued, connection, socket
  <1>5. TypeOK'
    BY <1>1, <1>3, <1>4 DEF Inv, TypeOK
  <1>6. AsyncInv' /\ ArmedInv'
    BY <1>4 DEF Inv, AsyncInv, ArmedInv
  <1>7. ConnInv'
    BY <1>4 DEF Inv, ConnInv
  <1>8. ReceiveInv'
    BY <1>1, <1>3, <1>4, SendQueueAssumption DEF Inv, TypeOK, ReceiveInv
  <1> QED
    BY <1>1, <1>5, <1>6, <1>7, <1>8 DEF Inv

\* Straight to the socket.
LEMMA FlushDirectKeeps ==
    ASSUME Inv, NEW m \in Messages, NEW last \in BOOLEAN, FlushDirect(m, last)
    PROVE  Inv'
  <1>1. /\ at[m] + 1 \in 1 .. MaxChunks
        /\ at' \in [Messages -> 0 .. MaxChunks] /\ stage' \in [Messages -> Stages]
        /\ mutex' \in Messages \union {None} /\ count' \in Nat
        /\ ProgressInv' /\ MutexInv' /\ count' >= count
        /\ count' > 0 => count > 0 \/ pending' # <<>>
    BY FlushedKeeps DEF FlushDirect
  <1>2. /\ conn = "linked" /\ open /\ up /\ ~async
        /\ UNCHANGED <<open, sendQ, noRcv, rcvPending, closeWhenDone, conn, tt>>
        /\ flushes' \in [Messages -> Nat]
    BY DEF FlushDirect, connection, Inv, TypeOK
  <1>3. PICK chunk \in Seq(Unit) :
           /\ SocketWrite(chunk)
           /\ IF Refused(chunk) # <<>>
                THEN pending' = Refused(chunk) /\ async' = TRUE
                ELSE UNCHANGED <<pending, async>>
    BY <1>1, ChunkType DEF FlushDirect
  <1>4. /\ wire' \in Seq(Unit) /\ space' \in 0 .. Capacity /\ armed' \in BOOLEAN
        /\ up' = up /\ Refused(chunk) \in Seq(Unit)
        /\ armed' <=> armed \/ Refused(chunk) # <<>>
    BY <1>3, WriteSplits DEF Inv
  <1>5. pending = <<>> /\ sendQ = <<>> /\ ~armed /\ count = 0
    BY <1>2 DEF Inv, TypeOK, AsyncInv, ReceiveInv
  <1>6. /\ pending' \in Seq(Unit) /\ async' \in BOOLEAN
        /\ pending' # <<>> <=> async'
        /\ armed' <=> async'
    BY <1>2, <1>3, <1>4, <1>5 DEF Inv, TypeOK
  <1>7. TypeOK'
    BY <1>1, <1>2, <1>4, <1>6 DEF Inv, TypeOK
  <1>8. AsyncInv' /\ ArmedInv'
    BY <1>2, <1>5, <1>6 DEF Inv, AsyncInv, ArmedInv
  <1>9. ConnInv'
    BY <1>2 DEF Inv, ConnInv
  <1>10. ReceiveInv'
    BY <1>1, <1>2, <1>5, <1>6, SendQueueAssumption DEF Inv, TypeOK, ReceiveInv
  <1> QED
    BY <1>1, <1>7, <1>8, <1>9, <1>10 DEF Inv

\* A response that is given up, before its first chunk or later.
LEMMA GiveUpKeeps ==
    ASSUME Inv, NEW m \in Messages, FlushFails(m) \/ ResponseFails(m)
    PROVE  Inv'
  <1>1. /\ stage[m] \in {"handler", "worker"} /\ stage' = [stage EXCEPT ![m] = "failed"]
        /\ UNCHANGED <<at, pending, async, count, open, connection, tt, socket>>
    BY DEF FlushFails, ResponseFails, GivenUp, Answering
  <1>2. mutex' = IF mutex = m THEN None ELSE mutex
    BY DEF FlushFails, ResponseFails, GivenUp
  <1>3. /\ TypeOK' /\ ProgressInv'
    BY <1>1, <1>2 DEF Inv, TypeOK, ProgressInv, Stages, connection, socket
  <1>4. MutexInv'
    <2> SUFFICES ASSUME NEW i \in Messages
                 PROVE  mutex' = i <=> stage'[i] \in {"handler", "worker"} /\ at'[i] > 0
      BY DEF MutexInv
    <2>1. /\ MutexInv /\ at' = at /\ at[m] \in Nat
          /\ stage'[i] = IF i = m THEN "failed" ELSE stage[i]
      BY <1>1 DEF Inv, TypeOK
    <2>2. CASE i = m
      BY <1>2, <2>1, <2>2, SendQueueAssumption DEF MutexInv
    <2>3. CASE i # m
      BY <1>2, <2>1, <2>3, SendQueueAssumption DEF MutexInv
    <2> QED
      BY <2>2, <2>3
  <1>5. AsyncInv' /\ ArmedInv' /\ ReceiveInv'
    BY <1>1 DEF Inv, AsyncInv, ArmedInv, ReceiveInv, connection, socket
  <1>6. ConnInv'
    BY <1>1, <1>2 DEF Inv, ConnInv, connection, socket
  <1> QED
    BY <1>3, <1>4, <1>5, <1>6 DEF Inv

-----------------------------------------------------------------------------
(* The invariant: the transport thread.                                    *)

\* Receiving: what a read event leaves alone, and where it leads.
LEMMA ReadEventKeeps ==
    ASSUME Inv, ReadEvent
    PROVE  Inv'
  <1>1. /\ UNCHANGED <<mutex, at, pending, async, count, sendQ, noRcv, closeWhenDone, conn,
                       armed, wire, space, flushes, up>>
        /\ open' \in {FALSE, open}
        /\ tt \in {"idle", "read"} /\ conn # "closed"
        /\ \/ /\ noRcv /\ rcvPending' = TRUE /\ tt' = "idle" /\ UNCHANGED stage
           \/ /\ UNCHANGED rcvPending
              /\ \/ tt' = "losing" /\ UNCHANGED stage
                 \/ \E m \in Messages :
                      /\ stage[m] = "unread"
                      /\ \E to \in {"handler", "worker", "failed"} :
                            stage' = [stage EXCEPT ![m] = to]
                      /\ \/ conn = "linked" /\ tt' \in {"callback", "failing"}
                         \/ conn = "unlinked" /\ tt' = "idle"
    <2>1. tt = "read" => conn # "closed"
      BY DEF Inv, ConnInv
    <2>2. CASE ReadSuspended
      BY <2>2 DEF ReadSuspended, channel, socket, Inv, TypeOK
    <2>3. CASE ReadFails
      BY <2>1, <2>3 DEF ReadFails, Reading, channel, connection, socket
    <2>4. CASE \E m \in Messages : ReadRequest(m)
      BY <2>1, <2>4 DEF ReadRequest, Reading, connection, socket
    <2>5. CASE \E m \in Messages : ReadBadRequest(m)
      BY <2>1, <2>5 DEF ReadBadRequest, Reading, connection, socket
    <2>6. CASE \E m \in Messages : ReadUnlinked(m)
      BY <2>1, <2>6 DEF ReadUnlinked, Reading, connection, socket
    <2> QED
      BY <2>2, <2>3, <2>4, <2>5, <2>6 DEF ReadEvent
  <1>2. \A i \in Messages :
           \/ stage'[i] = stage[i]
           \/ stage[i] = "unread" /\ stage'[i] \in {"handler", "worker", "failed"}
    <2>1. stage \in [Messages -> Stages]
      BY DEF Inv, TypeOK
    <2>2. CASE UNCHANGED stage
      BY <2>2
    <2>3. CASE \E m \in Messages :
                  /\ stage[m] = "unread"
                  /\ \E to \in {"handler", "worker", "failed"} :
                        stage' = [stage EXCEPT ![m] = to]
      BY <2>1, <2>3
    <2> QED
      BY <1>1, <2>2, <2>3
  <1>3. stage' \in [Messages -> Stages]
    BY <1>1 DEF Inv, TypeOK, Stages
  <1>4. TypeOK'
    <2>1. tt' \in Transport /\ open' \in BOOLEAN /\ rcvPending' \in BOOLEAN
      BY <1>1 DEF Inv, TypeOK, Transport
    <2> QED
      BY <1>1, <1>3, <2>1 DEF Inv, TypeOK
  <1>5. ProgressInv' /\ MutexInv'
    BY <1>1, <1>2, SendQueueAssumption DEF Inv, ProgressInv, MutexInv
  <1>6. AsyncInv' /\ ConnInv' /\ ArmedInv'
    BY <1>1 DEF Inv, AsyncInv, ConnInv, ArmedInv
  <1>7. ReceiveInv'
    BY <1>1 DEF Inv, ReceiveInv
  <1> QED
    BY <1>4, <1>5, <1>6, <1>7 DEF Inv

\* Back from the callback, or at the end of what can be written.
LEMMA HandlerKeeps ==
    ASSUME Inv, AfterCallback \/ WriteEvent \/ WriteFails \/ QueueEmpty
    PROVE  Inv'
  <1>1. /\ UNCHANGED <<channel, sendQ, rcvPending, closeWhenDone, conn, wire, space, flushes, up>>
        /\ conn # "closed"
        /\ \/ /\ tt = "callback" /\ UNCHANGED <<noRcv, armed>>
              /\ tt' = IF count > MaxPending THEN "overflow" ELSE "idle"
           \/ tt = "idle" /\ armed /\ armed' = FALSE /\ tt' = "queue" /\ UNCHANGED noRcv
           \/ tt = "queue" /\ tt' = "losing" /\ UNCHANGED <<noRcv, armed>>
           \/ tt = "queue" /\ ~closeWhenDone /\ tt' = "refill" /\ noRcv' = FALSE /\ sendQ = <<>>
              /\ UNCHANGED armed
    BY DEF AfterCallback, WriteEvent, WriteFails, QueueEmpty, channel, connection, socket,
           Inv, ConnInv
  <1>2. TypeOK'
    <2>1. tt' \in Transport /\ noRcv' \in BOOLEAN /\ armed' \in BOOLEAN
      BY <1>1 DEF Inv, TypeOK, Transport
    <2> QED
      BY <1>1, <2>1 DEF Inv, TypeOK, channel
  <1>3. ProgressInv' /\ MutexInv'
    BY <1>1 DEF Inv, ProgressInv, MutexInv, channel
  <1>4. AsyncInv' /\ ConnInv' /\ ArmedInv'
    BY <1>1 DEF Inv, TypeOK, AsyncInv, ConnInv, ArmedInv, channel
  <1>5. ReceiveInv'
    BY <1>1 DEF Inv, TypeOK, ReceiveInv, channel
  <1> QED
    BY <1>2, <1>3, <1>4, <1>5 DEF Inv

\* What waits in the channel moves behind what waits in the connection.
LEMMA OverflowKeeps ==
    ASSUME Inv, Overflow
    PROVE  Inv'
  <1>1. /\ tt = "overflow" /\ tt' = "idle" /\ noRcv' = TRUE
        /\ pending' = <<>> /\ count' = 0 /\ sendQ' = sendQ \o pending
        /\ UNCHANGED <<mutex, at, stage, async, open, rcvPending, closeWhenDone, conn,
                       armed, wire, space, flushes, up>>
    BY DEF Overflow, socket
  <1>2. pending # <<>> /\ conn = "linked" /\ async
    BY <1>1, SendQueueAssumption DEF Inv, TypeOK, ReceiveInv, ConnInv, AsyncInv
  <1>3. sendQ' \in Seq(Unit) /\ sendQ' # <<>> /\ pending' \in Seq(Unit)
    BY <1>1, <1>2, JoinType, EmptySeq DEF Inv, TypeOK
  <1>4. TypeOK'
    BY <1>1, <1>3 DEF Inv, TypeOK, Transport
  <1>5. ProgressInv' /\ MutexInv'
    BY <1>1 DEF Inv, ProgressInv, MutexInv
  <1>6. AsyncInv' /\ ConnInv' /\ ArmedInv' /\ ReceiveInv'
    BY <1>1, <1>2, <1>3 DEF Inv, AsyncInv, ConnInv, ArmedInv, ReceiveInv
  <1> QED
    BY <1>4, <1>5, <1>6 DEF Inv

\* The same when the connection asks for more.
LEMMA RefillKeeps ==
    ASSUME Inv, Refill
    PROVE  Inv'
  <1>1. /\ tt = "refill" /\ noRcv' = (noRcv \/ count > MaxPending)
        /\ pending' = <<>> /\ count' = 0 /\ sendQ' = sendQ \o pending
        /\ async' = (pending # <<>>)
        /\ \/ sendQ' # <<>> /\ tt' = "queue" /\ UNCHANGED rcvPending
           \/ sendQ' = <<>> /\ ~noRcv' /\ rcvPending' = FALSE /\ tt' = "read"
           \/ /\ sendQ' = <<>> /\ UNCHANGED rcvPending /\ tt' = "idle"
              /\ noRcv' \/ ~rcvPending
        /\ UNCHANGED <<mutex, at, stage, open, closeWhenDone, conn, armed, wire, space, flushes, up>>
    BY DEF Refill, ReadMissed, socket
  <1>2. conn = "linked" /\ ~noRcv /\ sendQ = <<>> /\ async /\ ~armed
    BY <1>1 DEF Inv, ReceiveInv, ConnInv, ArmedInv
  <1>3. sendQ' = pending /\ sendQ' \in Seq(Unit) /\ pending' \in Seq(Unit)
    BY <1>1, <1>2, JoinType DEF Inv, TypeOK
  <1>4. noRcv' => sendQ' # <<>>
    BY <1>1, <1>2, <1>3, SendQueueAssumption DEF Inv, TypeOK, ReceiveInv
  <1>5. TypeOK'
    BY <1>1, <1>3 DEF Inv, TypeOK, Transport
  <1>6. ProgressInv' /\ MutexInv'
    BY <1>1 DEF Inv, ProgressInv, MutexInv
  <1>7. AsyncInv' /\ ConnInv' /\ ArmedInv'
    BY <1>1, <1>2, <1>3 DEF Inv, AsyncInv, ConnInv, ArmedInv
  <1>8. ReceiveInv'
    BY <1>1, <1>2, <1>3, <1>4 DEF Inv, TypeOK, ReceiveInv
  <1> QED
    BY <1>5, <1>6, <1>7, <1>8 DEF Inv

\* The queue goes to the socket, and what is refused stays in it.
LEMMA WriteQueueKeeps ==
    ASSUME Inv, WriteQueue
    PROVE  Inv'
  <1>1. /\ tt = "queue" /\ sendQ # <<>> /\ sendQ' = Refused(sendQ)
        /\ SocketWrite(sendQ)
        /\ \/ Refused(sendQ) = <<>> /\ UNCHANGED <<rcvPending, tt>>
           \/ /\ Refused(sendQ) # <<>>
              /\ \/ ~noRcv /\ rcvPending' = FALSE /\ tt' = "read"
                 \/ UNCHANGED rcvPending /\ tt' = "idle" /\ (noRcv \/ ~rcvPending)
        /\ UNCHANGED <<mutex, at, stage, pending, async, count, open, noRcv, closeWhenDone, conn,
                       flushes>>
    BY DEF WriteQueue, ReadMissed, channel
  <1>2. /\ wire' \in Seq(Unit) /\ space' \in 0 .. Capacity /\ armed' \in BOOLEAN
        /\ up' = up /\ Refused(sendQ) \in Seq(Unit)
        /\ armed' <=> armed \/ Refused(sendQ) # <<>>
    BY <1>1, WriteSplits DEF Inv, TypeOK
  <1>3. ~armed /\ conn # "closed" /\ (conn = "linked" => async)
    BY <1>1 DEF Inv, TypeOK, ArmedInv, ConnInv
  <1>4. TypeOK'
    BY <1>1, <1>2 DEF Inv, TypeOK, Transport
  <1>5. ProgressInv' /\ MutexInv'
    BY <1>1, <1>2 DEF Inv, ProgressInv, MutexInv
  <1>6. AsyncInv' /\ ConnInv' /\ ArmedInv'
    BY <1>1, <1>2, <1>3 DEF Inv, AsyncInv, ConnInv, ArmedInv
  <1>7. ReceiveInv'
    BY <1>1, <1>3 DEF Inv, TypeOK, ReceiveInv
  <1> QED
    BY <1>4, <1>5, <1>6, <1>7 DEF Inv

\* The channel lets the connection go; what waits goes with the connection.
LEMMA CloseConnectionKeeps ==
    ASSUME Inv, CloseConnection
    PROVE  Inv'
  <1>1. /\ tt = "failing" /\ tt' = "idle" /\ mutex = None
        /\ async' = FALSE /\ pending' = <<>> /\ count' = 0
        /\ IF sendQ' # <<>>
             THEN conn' = "unlinked" /\ closeWhenDone' = TRUE
             ELSE conn' = "closed" /\ UNCHANGED closeWhenDone
        /\ UNCHANGED <<mutex, at, stage, open, noRcv, rcvPending, flushes>>
    BY DEF CloseConnection, socket
  <1>2. conn = "linked" /\ ~closeWhenDone /\ (async => armed)
    BY <1>1 DEF Inv, ConnInv, ArmedInv
  <1>3. Waiting \in Seq(Unit) /\ (Waiting # <<>> => async) /\ (sendQ # <<>> => Waiting # <<>>)
    BY <1>2, JoinType DEF Waiting, Inv, TypeOK, AsyncInv
  <1>4. PICK err \in Seq(Unit) :
           /\ err # <<>>
           /\ \/ UNCHANGED socket /\ sendQ' = Waiting
              \/ Waiting # <<>> /\ UNCHANGED socket /\ sendQ' = Waiting \o err
              \/ Waiting = <<>> /\ up /\ SocketWrite(err) /\ sendQ' = Refused(err)
    <2>1. 1 \in 1 .. MaxChunks /\ Error \in Messages \union {Error} /\ TRUE \in BOOLEAN
      BY SendQueueAssumption
    <2>2. /\ ChunkUnits(Error, 1, TRUE) \in Seq(Unit)
          /\ ChunkUnits(Error, 1, TRUE) # <<>>
      BY <2>1, ChunkType
    <2> QED
      BY <2>2 DEF CloseConnection
  <1>5. /\ wire' \in Seq(Unit) /\ space' \in 0 .. Capacity /\ armed' \in BOOLEAN
        /\ up' = up /\ sendQ' \in Seq(Unit)
        /\ sendQ' # <<>> => armed'
        /\ Waiting # <<>> => sendQ' # <<>>
    <2>1. CASE UNCHANGED socket /\ sendQ' = Waiting
      BY <1>2, <1>3, <2>1 DEF socket, Inv, TypeOK
    <2>2. CASE Waiting # <<>> /\ UNCHANGED socket /\ sendQ' = Waiting \o err
      BY <1>2, <1>3, <2>2, JoinType DEF socket, Inv, TypeOK
    <2>3. CASE Waiting = <<>> /\ up /\ SocketWrite(err) /\ sendQ' = Refused(err)
      BY <2>3, WriteSplits DEF Inv
    <2> QED
      BY <1>4, <2>1, <2>2, <2>3
  <1>6. TypeOK'
    BY <1>1, <1>5, EmptySeq DEF Inv, TypeOK, Transport
  <1>7. ProgressInv' /\ MutexInv'
    BY <1>1 DEF Inv, ProgressInv, MutexInv
  <1>8. AsyncInv' /\ ConnInv' /\ ArmedInv'
    BY <1>1, <1>2, <1>5 DEF AsyncInv, ConnInv, ArmedInv
  <1>9. ReceiveInv'
    BY <1>1, <1>2, <1>3, <1>5 DEF Inv, TypeOK, ReceiveInv
  <1> QED
    BY <1>6, <1>7, <1>8, <1>9 DEF Inv

\* The connection is lost, or all was sent before closing it.
LEMMA DisconnectKeeps ==
    ASSUME Inv, Disconnect
    PROVE  Inv'
  <1>1. /\ tt = "losing" /\ tt' = "idle" /\ conn' = "closed" /\ sendQ' = <<>>
        /\ closeWhenDone \/ mutex = None
        /\ \/ closeWhenDone /\ UNCHANGED <<async, pending, count>>
           \/ ~closeWhenDone /\ async' = FALSE /\ pending' = <<>> /\ count' = 0
        /\ UNCHANGED <<mutex, at, stage, open, noRcv, rcvPending, closeWhenDone,
                       armed, wire, space, flushes, up>>
    BY DEF Disconnect, socket
  <1>2. mutex = None /\ async' = FALSE /\ pending' = <<>> /\ count' = 0 /\ conn # "closed"
    BY <1>1 DEF Inv, TypeOK, ConnInv, AsyncInv, ReceiveInv
  <1>3. TypeOK'
    BY <1>1, <1>2, EmptySeq DEF Inv, TypeOK, Transport
  <1>4. ProgressInv' /\ MutexInv'
    BY <1>1 DEF Inv, ProgressInv, MutexInv
  <1>5. AsyncInv' /\ ConnInv' /\ ArmedInv' /\ ReceiveInv'
    BY <1>1, <1>2 DEF AsyncInv, ConnInv, ArmedInv, ReceiveInv
  <1> QED
    BY <1>3, <1>4, <1>5 DEF Inv

-----------------------------------------------------------------------------
(* The invariant: every step. *)

\* The peer.
LEMMA PeerKeeps ==
    ASSUME Inv, PeerReads \/ PeerGone
    PROVE  Inv'
  <1>1. /\ UNCHANGED <<channel, connection, tt, armed, wire, flushes>>
        /\ up' \in {up, FALSE} /\ space' \in 0 .. Capacity
    <2>1. CASE PeerReads
      BY <2>1, SendQueueAssumption DEF PeerReads, Inv, TypeOK
    <2>2. CASE PeerGone
      BY <2>2 DEF PeerGone, Inv, TypeOK
    <2> QED
      BY <2>1, <2>2
  <1>2. TypeOK'
    <2>1. up' \in BOOLEAN
      BY <1>1 DEF Inv, TypeOK
    <2> QED
      BY <1>1, <2>1 DEF Inv, TypeOK, channel, connection
  <1>3. ProgressInv' /\ MutexInv' /\ AsyncInv' /\ ConnInv'
    BY <1>1 DEF Inv, ProgressInv, MutexInv, AsyncInv, ConnInv, channel, connection
  <1>4. ArmedInv' /\ ReceiveInv'
    BY <1>1 DEF Inv, ArmedInv, ReceiveInv, channel, connection
  <1> QED
    BY <1>2, <1>3, <1>4 DEF Inv

\* Every step keeps the invariant.
LEMMA InvStep == Inv /\ [Next]_vars => Inv'
  <1> SUFFICES ASSUME Inv, [Next]_vars PROVE Inv'
    OBVIOUS
  <1>1. ASSUME NEW m \in Messages, Flush(m) \/ ResponseFails(m) PROVE Inv'
    BY <1>1, FlushQueuedKeeps, FlushDirectKeeps, GiveUpKeeps DEF Flush
  <1>2. CASE TransportStep
    BY <1>2, ReadEventKeeps, HandlerKeeps, OverflowKeeps, RefillKeeps, WriteQueueKeeps,
       CloseConnectionKeeps, DisconnectKeeps DEF TransportStep
  <1>3. CASE PeerReads \/ PeerGone
    BY <1>3, PeerKeeps
  <1>4. CASE UNCHANGED vars
    BY <1>4 DEF vars, channel, connection, socket, Inv, TypeOK, ProgressInv, MutexInv, AsyncInv,
                ConnInv, ArmedInv, ReceiveInv
  <1> QED
    BY <1>1, <1>2, <1>3, <1>4 DEF Next

\* The invariant holds in every behaviour of the send path.
THEOREM SendInvariant == Spec => []Inv
  BY InvInit, InvStep, PTL DEF Spec

\* Every variable keeps its type: in particular the socket is never asked to hold more
\* than it has room for, and no response flushes more than MaxChunks chunks.
THEOREM TypeCorrect == Spec => []TypeOK
  <1>1. Inv => TypeOK
    BY DEF Inv
  <1> QED
    BY <1>1, SendInvariant, PTL

\* Nothing that waits is without the write event that will send it.
THEOREM NothingStuckHolds == Spec => []NothingStuck
  <1>1. Inv => NothingStuck
    BY JoinType DEF Inv, TypeOK, NothingStuck, ArmedInv, AsyncInv, ConnInv
  <1> QED
    BY <1>1, SendInvariant, PTL

\* The flushing threads and the transport thread never write to the socket together.
THEOREM OneWriterHolds == Spec => []OneWriter
  <1>1. Inv => OneWriter
    BY DEF Inv, TypeOK, OneWriter, AsyncInv
  <1> QED
    BY <1>1, SendInvariant, PTL

\* A read that was put off is made up for.
THEOREM ReadNotForgottenHolds == Spec => []ReadNotForgotten
  <1>1. Inv => ReadNotForgotten
    BY DEF Inv, TypeOK, ReadNotForgotten, ReceiveInv
  <1> QED
    BY <1>1, SendInvariant, PTL

-----------------------------------------------------------------------------
(* The count of the messages that end in the channel.                      *)

\* Where messages end in a queue.
Ends(p) == {i \in DOMAIN p : p[i].last /\ p[i].k = ChunkSize}

\* No message ends in an empty queue.
LEMMA NoEnds == Cardinality(Ends(<<>>)) = 0
  <1>1. Ends(<<>>) = {}
    BY DEF Ends
  <1> QED
    BY <1>1, FS_EmptySet

\* The rest of a chunk has the end of its message if the chunk is the last one.
LEMMA EndsOfRest ==
    ASSUME NEW m \in Messages, NEW c \in 1 .. MaxChunks, NEW last \in BOOLEAN,
           NEW n \in 0 .. ChunkSize - 1
    PROVE  Cardinality(Ends(Rest(ChunkUnits(m, c, last), n))) = IF last THEN 1 ELSE 0
  <1> DEFINE chunk == ChunkUnits(m, c, last)
             rest == Rest(chunk, n)
  <1>1. ChunkSize \in Nat \ {0} /\ chunk \in Seq(Unit) /\ Len(chunk) = ChunkSize
    BY ChunkType, SendQueueAssumption
  <1>2. /\ rest \in Seq(Unit) /\ Len(rest) = ChunkSize - n
        /\ \A i \in 1 .. ChunkSize - n : rest[i] = chunk[n + i]
    <2>1. n \in 0 .. Len(chunk)
      BY <1>1
    <2> QED
      BY <1>1, <2>1, Cut
  <1>3. \A i \in 1 .. ChunkSize : chunk[i].last = last /\ chunk[i].k = i
    BY DEF ChunkUnits
  <1>4. DOMAIN rest = 1 .. ChunkSize - n
    BY <1>2, LenProperties
  <1>5. \A i \in DOMAIN rest : rest[i].last = last /\ rest[i].k = n + i
    BY <1>1, <1>2, <1>3, <1>4
  <1> HIDE DEF chunk, rest
  <1>6. Ends(rest) = IF last THEN {ChunkSize - n} ELSE {}
    BY <1>1, <1>4, <1>5 DEF Ends
  <1> QED
    BY <1>6, FS_EmptySet, FS_Singleton DEF rest, chunk

\* A chunk that queues adds the end of its message if it is the last one.
LEMMA EndsOfJoin ==
    ASSUME NEW p \in Seq(Unit),
           NEW m \in Messages, NEW c \in 1 .. MaxChunks, NEW last \in BOOLEAN
    PROVE  Cardinality(Ends(p \o ChunkUnits(m, c, last)))
             = Cardinality(Ends(p)) + (IF last THEN 1 ELSE 0)
  <1> DEFINE chunk == ChunkUnits(m, c, last)
             q == p \o chunk
  <1>1. /\ ChunkSize \in Nat \ {0} /\ chunk \in Seq(Unit) /\ Len(chunk) = ChunkSize
        /\ Len(p) \in Nat /\ DOMAIN p = 1 .. Len(p)
    BY ChunkType, SendQueueAssumption, LenProperties
  <1>2. /\ q \in Seq(Unit) /\ Len(q) = Len(p) + ChunkSize
        /\ \A i \in 1 .. Len(p) + ChunkSize :
             q[i] = IF i <= Len(p) THEN p[i] ELSE chunk[i - Len(p)]
    BY <1>1, ConcatProperties
  <1>3. \A i \in 1 .. ChunkSize : chunk[i].last = last /\ chunk[i].k = i
    BY DEF ChunkUnits
  <1>4. DOMAIN q = 1 .. Len(p) + ChunkSize
    BY <1>2, LenProperties
  <1>5. /\ \A i \in 1 .. Len(p) : q[i] = p[i]
        /\ \A i \in Len(p) + 1 .. Len(p) + ChunkSize : q[i].last = last /\ q[i].k = i - Len(p)
    <2> HIDE DEF chunk, q
    <2>1. ASSUME NEW i \in 1 .. Len(p) PROVE q[i] = p[i]
      <3>1. i \in 1 .. Len(p) + ChunkSize /\ i <= Len(p)
        BY <1>1
      <3> QED
        BY <1>2, <3>1
    <2>2. ASSUME NEW i \in Len(p) + 1 .. Len(p) + ChunkSize
          PROVE  q[i].last = last /\ q[i].k = i - Len(p)
      <3>1. i \in 1 .. Len(p) + ChunkSize /\ ~(i <= Len(p)) /\ i - Len(p) \in 1 .. ChunkSize
        BY <1>1
      <3> QED
        BY <1>2, <1>3, <3>1
    <2> QED
      BY <2>1, <2>2
  <1> HIDE DEF chunk, q
  <1>6. Ends(q) = Ends(p) \union (IF last THEN {Len(p) + ChunkSize} ELSE {})
    BY <1>1, <1>4, <1>5, SMTT(20) DEF Ends
  <1>7. Len(p) + ChunkSize \notin Ends(p)
    BY <1>1 DEF Ends
  <1>8. IsFiniteSet(Ends(p))
    <2>1. Ends(p) \subseteq 1 .. Len(p) /\ IsFiniteSet(1 .. Len(p))
      BY <1>1, FS_Interval DEF Ends
    <2> QED
      BY <2>1, FS_Subset
  <1>9. Cardinality(Ends(q)) = Cardinality(Ends(p)) + (IF last THEN 1 ELSE 0)
    <2>1. CASE last
      BY <1>6, <1>7, <1>8, <2>1, FS_AddElement
    <2>2. CASE ~last
      BY <1>6, <1>8, <2>2, FS_CardinalityType
    <2> QED
      BY <2>1, <2>2
  <1> QED
    BY <1>9 DEF q, chunk

\* Every step counts what it queues, or resets the count with the queue.
LEMMA CountStep == Inv /\ CountExact /\ [Next]_vars => CountExact'
  <1> SUFFICES ASSUME Inv, CountExact, [Next]_vars
               PROVE  count' = Cardinality(Ends(pending'))
    BY DEF CountExact, Ends
  <1>1. count = Cardinality(Ends(pending))
    BY DEF CountExact, Ends
  <1>2. ASSUME NEW m \in Messages, NEW last \in BOOLEAN, FlushQueued(m, last)
        PROVE  count' = Cardinality(Ends(pending'))
    <2>1. at[m] + 1 \in 1 .. MaxChunks
      BY <1>2, FlushedKeeps DEF FlushQueued
    <2>2. pending' = pending \o ChunkUnits(m, at[m] + 1, last) /\ pending' # <<>>
      BY <1>2, <2>1, ChunkType, JoinType DEF FlushQueued, Inv, TypeOK
    <2>3. count' = count + (IF last THEN 1 ELSE 0)
      BY <1>2, <2>2 DEF FlushQueued, Flushed, Inv, TypeOK
    <2>4. Cardinality(Ends(pending')) = Cardinality(Ends(pending)) + (IF last THEN 1 ELSE 0)
      BY <2>1, <2>2, EndsOfJoin DEF Inv, TypeOK
    <2> QED
      BY <1>1, <2>3, <2>4
  <1>3. ASSUME NEW m \in Messages, NEW last \in BOOLEAN, FlushDirect(m, last)
        PROVE  count' = Cardinality(Ends(pending'))
    <2> DEFINE chunk == ChunkUnits(m, at[m] + 1, last)
    <2>1. at[m] + 1 \in 1 .. MaxChunks
      BY <1>3, FlushedKeeps DEF FlushDirect
    <2>2. pending = <<>> /\ count = 0
      BY <1>3 DEF FlushDirect, Inv, TypeOK, AsyncInv, ReceiveInv
    <2>3. (pending' = Refused(chunk) /\ Refused(chunk) # <<>>) \/ pending' = <<>>
      BY <1>3, <2>2 DEF FlushDirect
    <2>4. CASE pending' = <<>>
      BY <1>3, <2>2, <2>4, NoEnds DEF FlushDirect, Flushed
    <2>5. CASE pending' = Refused(chunk) /\ Refused(chunk) # <<>>
      <3>1. /\ chunk \in Seq(Unit) /\ Len(chunk) = ChunkSize /\ ChunkSize \in Nat
        BY <2>1, ChunkType, SendQueueAssumption
      <3>2. PICK n \in 0 .. ChunkSize : Refused(chunk) = Rest(chunk, n)
        BY <3>1 DEF Refused, Lesser, Inv, TypeOK
      <3>3. n < ChunkSize
        BY <2>5, <3>1, <3>2, Cut
      <3>4. Cardinality(Ends(pending')) = IF last THEN 1 ELSE 0
        BY <2>1, <2>5, <3>1, <3>2, <3>3, EndsOfRest
      <3>5. count' = IF last THEN 1 ELSE 0
        BY <1>3, <2>2, <2>5 DEF FlushDirect, Flushed
      <3> QED
        BY <3>4, <3>5
    <2> QED
      BY <2>3, <2>4, <2>5
  <1>4. CASE UNCHANGED <<pending, count>>
    BY <1>1, <1>4
  <1>5. CASE pending' = <<>> /\ count' = 0
    BY <1>5, NoEnds
  <1>6. ASSUME NEW m \in Messages, FlushFails(m) \/ ResponseFails(m)
        PROVE  UNCHANGED <<pending, count>>
    BY <1>6 DEF FlushFails, ResponseFails, GivenUp
  <1>7. ASSUME TransportStep
        PROVE  UNCHANGED <<pending, count>> \/ (pending' = <<>> /\ count' = 0)
    BY <1>7 DEF TransportStep, ReadEvent, ReadSuspended, ReadRequest, ReadBadRequest, ReadUnlinked,
         ReadFails, AfterCallback, Overflow, CloseConnection, Disconnect, WriteEvent,
         WriteQueue, WriteFails, QueueEmpty, Refill, channel
  <1>8. PeerReads \/ PeerGone \/ UNCHANGED vars => UNCHANGED <<pending, count>>
    BY DEF PeerReads, PeerGone, vars, channel
  <1> QED
    BY <1>2, <1>3, <1>4, <1>5, <1>6, <1>7, <1>8 DEF Next, Flush

\* uPendingMessageCount, by which receiving is suspended, is exact.
THEOREM CountExactHolds == Spec => []CountExact
  <1>1. Init => CountExact
    BY NoEnds DEF Init, CountExact, Ends
  <1>2. Inv /\ CountExact /\ [Next]_vars => CountExact'
    BY CountStep
  <1> QED
    BY <1>1, <1>2, SendInvariant, PTL DEF Spec

-----------------------------------------------------------------------------
(* The stream, as the invariant allows to see it.                          *)

\* The stream is made of units.
LEMMA PromisedType == TypeOK => Promised \in Seq(Unit)
  BY JoinType DEF TypeOK, Promised

\* A chunk has one form in both specifications.
LEMMA SameChunk ==
    ASSUME NEW m, NEW c, NEW last
    PROVE  Stream!ChunkUnits(m, c, last) = ChunkUnits(m, c, last)
  BY DEF Stream!ChunkUnits, ChunkUnits

\* What the three queues hold is the stream, however it is bracketed.
LEMMA LinkedPromised ==
    ASSUME TypeOK, conn # "closed"
    PROVE  Promised = wire \o (sendQ \o pending)
  BY JoinAssociative DEF TypeOK, Promised

-----------------------------------------------------------------------------
(* Steps that add to the stream or end it. *)

\* A chunk that is flushed is the next one of the stream.
LEMMA FlushIsSend ==
    ASSUME Inv, NEW m \in Messages, NEW last \in BOOLEAN,
           FlushQueued(m, last) \/ FlushDirect(m, last)
    PROVE  Stream!Send(m, last)
  <1> DEFINE chunk == ChunkUnits(m, at[m] + 1, last)
  <1>1. /\ Answering(m) /\ Flushed(m, last) /\ conn = "linked" /\ open /\ (up \/ async)
        /\ at[m] + 1 = MaxChunks => last
        /\ conn' = conn /\ sendQ' = sendQ
    BY DEF FlushQueued, FlushDirect, connection
  <1>2. at[m] + 1 \in 1 .. MaxChunks /\ at[m] \in Nat
    BY <1>1, FlushedKeeps DEF Inv, TypeOK
  <1>3. chunk \in Seq(Unit)
    BY <1>2, ChunkType
  <1>4. Phase = "open" /\ Phase' = "open"
    BY <1>1 DEF Phase
  <1>5. Promised' = Promised \o chunk
    <2>1. /\ wire \in Seq(Unit) /\ sendQ \in Seq(Unit) /\ pending \in Seq(Unit)
          /\ Promised = (wire \o sendQ) \o pending /\ Promised' = (wire' \o sendQ) \o pending'
      BY <1>1 DEF Inv, TypeOK, Promised
    <2>2. CASE FlushQueued(m, last)
      <3>1. pending' = pending \o chunk /\ wire' = wire
        BY <2>2 DEF FlushQueued, socket
      <3>2. wire \o sendQ \in Seq(Unit)
        BY <2>1, JoinType
      <3>3. ((wire \o sendQ) \o pending) \o chunk = (wire \o sendQ) \o (pending \o chunk)
        BY <1>3, <2>1, <3>2, JoinAssociative
      <3> QED
        BY <2>1, <3>1, <3>3, Zenon
    <2>3. CASE FlushDirect(m, last)
      <3>1. pending = <<>> /\ sendQ = <<>>
        BY <1>1, <2>3 DEF FlushDirect, Inv, TypeOK, AsyncInv
      <3>2. SocketWrite(chunk) /\ pending' = Refused(chunk)
        BY <2>3, <3>1 DEF FlushDirect
      <3>3. wire' \in Seq(Unit) /\ wire' \o Refused(chunk) = wire \o chunk
        BY <1>3, <3>2, WriteSplits DEF Inv
      <3>4. Promised = wire
        BY <2>1, <3>1, JoinType
      <3>5. Promised' = wire' \o Refused(chunk)
        BY <2>1, <3>1, <3>2, <3>3, JoinType
      <3> QED
        BY <3>3, <3>4, <3>5, Zenon
    <2> QED
      BY <2>2, <2>3
  <1>6. mutex \in {None, m} /\ (mutex = None => at[m] = 0)
    BY <1>1, <1>2, SendQueueAssumption DEF Answering, Inv, MutexInv
  <1>7. /\ at[m] < MaxChunks /\ at' = [at EXCEPT ![m] = @ + 1]
        /\ mutex' = IF last THEN None ELSE m
    BY <1>1, <1>2, SendQueueAssumption DEF Flushed
  <1>8. Abandoned' = Abandoned
    BY <1>1, FlushedKeeps
  <1> QED
    BY <1>4, <1>5, <1>6, <1>7, <1>8, SameChunk DEF Stream!Send

\* A response that is given up after its first chunk abandons its message; one that
\* was not begun changes nothing of the stream.
LEMMA GiveUpIsAbandon ==
    ASSUME Inv, NEW m \in Messages, FlushFails(m) \/ ResponseFails(m)
    PROVE  Stream!Abandon(m) \/ UNCHANGED Stream!vars
  <1>1. /\ stage[m] \in {"handler", "worker"} /\ stage' = [stage EXCEPT ![m] = "failed"]
        /\ mutex' = IF mutex = m THEN None ELSE mutex
        /\ UNCHANGED <<at, pending, sendQ, conn, wire>>
    BY DEF FlushFails, ResponseFails, GivenUp, Answering, connection, socket
  <1>2. Promised' = Promised /\ Phase' = Phase
    BY <1>1 DEF Promised, Phase
  <1>3. /\ at[m] \in Nat /\ (mutex = m <=> at[m] > 0)
        /\ \A i \in Messages : stage'[i] = IF i = m THEN "failed" ELSE stage[i]
    BY <1>1 DEF Inv, TypeOK, MutexInv
  <1>4. CASE mutex = m
    <2>1. mutex' = None /\ at[m] > 0
      BY <1>1, <1>3, <1>4
    <2>2. Abandoned' = Abandoned \union {m}
      BY <1>1, <1>3, <2>1 DEF Abandoned
    <2> QED
      BY <1>1, <1>2, <1>4, <2>1, <2>2 DEF Stream!Abandon
  <1>5. CASE mutex # m
    <2>1. mutex' = mutex /\ ~(at[m] > 0)
      BY <1>1, <1>3, <1>5
    <2>2. Abandoned' = Abandoned
      BY <1>1, <1>3, <2>1 DEF Abandoned
    <2> QED
      BY <1>1, <1>2, <2>1, <2>2 DEF Stream!vars
  <1> QED
    BY <1>4, <1>5

\* The listener that gives a connection up closes the stream, with the ERR message
\* as its end or without.
LEMMA CloseConnectionIsClose == Inv /\ CloseConnection => Stream!Close
  <1> SUFFICES ASSUME Inv, CloseConnection PROVE Stream!Close
    OBVIOUS
  <1> DEFINE err == ChunkUnits(Error, 1, TRUE)
  <1>1. /\ tt = "failing" /\ mutex = None /\ pending' = <<>>
        /\ conn' = IF sendQ' # <<>> THEN "unlinked" ELSE "closed"
        /\ UNCHANGED <<mutex, at, stage>>
    BY DEF CloseConnection
  <1>2. conn = "linked"
    BY <1>1 DEF Inv, ConnInv
  <1>3. Phase = "open" /\ Phase' \in {"closing", "closed"} /\ Abandoned' = Abandoned
    BY <1>1, <1>2 DEF Phase, Abandoned
  <1>4. err \in Seq(Unit)
    <2>1. 1 \in 1 .. MaxChunks /\ Error \in Messages \union {Error} /\ TRUE \in BOOLEAN
      BY SendQueueAssumption
    <2> QED
      BY <2>1, ChunkType
  <1>5. /\ wire \in Seq(Unit) /\ sendQ \in Seq(Unit) /\ pending \in Seq(Unit)
        /\ Waiting = sendQ \o pending /\ Waiting \in Seq(Unit) /\ Promised = wire \o Waiting
    <2>1. Waiting = sendQ \o pending
      BY JoinType DEF Waiting, Inv, TypeOK, AsyncInv
    <2> QED
      BY <1>2, <2>1, JoinType, LinkedPromised DEF Inv, TypeOK
  <1>6. ASSUME wire' \in Seq(Unit), sendQ' \in Seq(Unit)
        PROVE  Promised' = wire' \o sendQ'
    <2>1. wire' \o sendQ' \in Seq(Unit)
      BY <1>6, JoinType
    <2>2. (wire' \o sendQ') \o <<>> = wire' \o sendQ' /\ wire' \o <<>> = wire'
      BY <1>6, <2>1, JoinType
    <2> QED
      BY <1>1, <2>2 DEF Promised
  <1>7. Promised' = Promised \/ Promised' = Promised \o err
    <2>1. CASE UNCHANGED socket /\ sendQ' = Waiting
      <3>1. wire' = wire /\ wire' \in Seq(Unit) /\ sendQ' \in Seq(Unit)
        BY <1>5, <2>1 DEF socket
      <3> QED
        BY <1>5, <1>6, <2>1, <3>1
    <2>2. CASE UNCHANGED socket /\ sendQ' = Waiting \o err
      <3> HIDE DEF err
      <3>1. wire' = wire /\ Waiting \o err \in Seq(Unit)
        <4>1. Waiting \o err \in Seq(Unit)
          BY <1>4, <1>5, JoinType
        <4> QED
          BY <2>2, <4>1 DEF socket
      <3>2. (wire \o Waiting) \o err = wire \o (Waiting \o err)
        <4>1. wire \in Seq(Unit) /\ Waiting \in Seq(Unit) /\ err \in Seq(Unit)
          BY <1>4, <1>5
        <4> QED
          BY <4>1, JoinAssociative, Zenon
      <3>3. Promised' = wire \o (Waiting \o err)
        BY <1>5, <1>6, <2>2, <3>1
      <3> QED
        BY <1>5, <3>2, <3>3, Zenon
    <2>3. CASE Waiting = <<>> /\ SocketWrite(err) /\ sendQ' = Refused(err)
      <3>1. wire' \in Seq(Unit) /\ sendQ' \in Seq(Unit) /\ wire' \o sendQ' = wire \o err
        BY <1>4, <2>3, WriteSplits DEF Inv
      <3>2. Promised = wire
        BY <1>5, <2>3, JoinType
      <3>3. Promised' = wire' \o sendQ'
        BY <1>6, <3>1
      <3> QED
        BY <3>1, <3>2, <3>3, Zenon
    <2> QED
      BY <2>1, <2>2, <2>3 DEF CloseConnection
  <1> QED
    BY <1>1, <1>3, <1>7, SameChunk DEF Stream!Close

\* A connection that ends cuts the stream where the socket stopped taking it.
LEMMA DisconnectIsCut == Inv /\ Disconnect => Stream!Cut
  <1> SUFFICES ASSUME Inv, Disconnect PROVE Stream!Cut
    OBVIOUS
  <1>1. /\ tt = "losing" /\ conn' = "closed" /\ UNCHANGED <<mutex, at, stage, wire>>
        /\ closeWhenDone \/ mutex = None
    BY DEF Disconnect, socket
  <1>2. conn # "closed" /\ mutex = None
    BY <1>1 DEF Inv, TypeOK, ConnInv
  <1>3. Phase # "closed" /\ Phase' = "closed" /\ Promised' = wire /\ Abandoned' = Abandoned
    BY <1>1, <1>2 DEF Phase, Promised, Abandoned, Inv, TypeOK
  <1>4. PICK rest \in Seq(Unit) : wire \in Seq(Unit) /\ Promised = wire \o rest
    BY <1>2, JoinType, LinkedPromised DEF Inv, TypeOK
  <1>5. Len(wire) \in 0 .. Len(Promised) /\ SubSeq(Promised, 1, Len(wire)) = wire
    <2>1. /\ Promised \in Seq(Unit) /\ Len(Promised) = Len(wire) + Len(rest)
          /\ Len(wire) \in Nat /\ Len(rest) \in Nat
          /\ \A i \in 1 .. Len(wire) : Promised[i] = wire[i]
      BY <1>4, ConcatProperties, LenProperties
    <2>2. /\ SubSeq(Promised, 1, Len(wire)) \in Seq(Unit)
          /\ Len(SubSeq(Promised, 1, Len(wire))) = Len(wire)
          /\ \A i \in 1 .. Len(wire) : SubSeq(Promised, 1, Len(wire))[i] = Promised[i]
      <3>1. \A i \in 1 .. Len(wire) : Promised[i] \in Unit
        BY <1>4, <2>1, LenProperties
      <3> QED
        BY <2>1, <3>1, SubSeqProperties
    <2> QED
      BY <1>4, <2>1, <2>2, SeqEqual
  <1> QED
    BY <1>1, <1>2, <1>3, <1>5 DEF Stream!Cut

-----------------------------------------------------------------------------
(* Steps that move what is in the stream, and steps elsewhere. *)

\* The queue goes to the socket.
LEMMA WriteQueueStutters == Inv /\ WriteQueue => UNCHANGED Stream!vars
  <1> SUFFICES ASSUME Inv, WriteQueue PROVE UNCHANGED Stream!vars
    OBVIOUS
  <1>1. /\ tt = "queue" /\ SocketWrite(sendQ) /\ sendQ' = Refused(sendQ)
        /\ UNCHANGED <<mutex, at, stage, pending, conn>>
    BY DEF WriteQueue, channel
  <1>2. wire' \o sendQ' = wire \o sendQ
    BY <1>1, WriteSplits DEF Inv, TypeOK
  <1>3. conn # "closed"
    BY <1>1 DEF Inv, ConnInv
  <1> QED
    BY <1>1, <1>2, <1>3 DEF Stream!vars, Promised, Phase, Abandoned

\* What waits in the channel moves to the connection.
LEMMA MovingStutters == Inv /\ (Overflow \/ Refill) => UNCHANGED Stream!vars
  <1> SUFFICES ASSUME Inv, Overflow \/ Refill PROVE UNCHANGED Stream!vars
    OBVIOUS
  <1>1. /\ tt \in {"overflow", "refill"} /\ sendQ' = sendQ \o pending /\ pending' = <<>>
        /\ UNCHANGED <<mutex, at, stage, conn, wire>>
    BY DEF Overflow, Refill, socket
  <1>2. conn # "closed"
    BY <1>1 DEF Inv, ConnInv
  <1>3. /\ wire \in Seq(Unit) /\ sendQ \o pending \in Seq(Unit)
        /\ wire \o (sendQ \o pending) \in Seq(Unit)
    BY JoinType DEF Inv, TypeOK
  <1>4. Promised' = wire \o (sendQ \o pending)
    <2>1. Promised' = (wire \o (sendQ \o pending)) \o <<>>
      BY <1>1, <1>2 DEF Promised
    <2> QED
      BY <1>3, <2>1, JoinType
  <1>5. Promised' = Promised
    BY <1>2, <1>4, LinkedPromised DEF Inv
  <1> QED
    BY <1>1, <1>5 DEF Stream!vars, Phase, Abandoned

\* A request that is read has written nothing.
LEMMA ReadingStutters == Inv /\ ReadEvent => UNCHANGED Stream!vars
  <1> SUFFICES ASSUME Inv, ReadEvent PROVE UNCHANGED Stream!vars
    OBVIOUS
  <1>1. /\ UNCHANGED <<mutex, at, pending, sendQ, conn, wire>>
        /\ \/ UNCHANGED stage
           \/ \E m \in Messages, to \in Stages :
                 stage[m] = "unread" /\ stage' = [stage EXCEPT ![m] = to]
    BY DEF ReadEvent, ReadSuspended, ReadFails, ReadRequest, ReadBadRequest, ReadUnlinked,
           channel, connection, socket, Stages
  <1>2. \A i \in Messages : at[i] > 0 => stage'[i] = stage[i]
    <2>1. stage \in [Messages -> Stages] /\ at \in [Messages -> 0 .. MaxChunks] /\ ProgressInv
      BY DEF Inv, TypeOK
    <2> QED
      BY <1>1, <2>1 DEF ProgressInv
  <1>3. Phase' = Phase /\ Abandoned' = Abandoned
    BY <1>1, <1>2 DEF Phase, Abandoned
  <1> QED
    BY <1>1, <1>3 DEF Stream!vars, Promised

\* The rest touches neither queue nor socket.
LEMMA OthersStutter ==
    ASSUME AfterCallback \/ WriteEvent \/ WriteFails \/ QueueEmpty
             \/ PeerReads \/ PeerGone \/ UNCHANGED vars
    PROVE  UNCHANGED Stream!vars
  <1>1. UNCHANGED <<mutex, at, stage, pending, sendQ, conn, wire>>
    BY DEF AfterCallback, WriteEvent, WriteFails, QueueEmpty, PeerReads, PeerGone, vars,
           channel, connection, socket
  <1> QED
    BY <1>1 DEF Stream!vars, Promised, Phase, Abandoned

-----------------------------------------------------------------------------
(* The theorem. *)

\* A connection that has nothing to send promises nothing.
LEMMA InitIsInit == Init => Stream!Init
  BY JoinType, EmptySeq DEF Init, Stream!Init, Promised, Phase, Abandoned

\* A step of the send path is a step of the stream or a stutter.
LEMMA StepIsStep == Inv /\ [Next]_vars => [Stream!Next]_(Stream!vars)
  <1> SUFFICES ASSUME Inv, [Next]_vars
               PROVE  Stream!Next \/ UNCHANGED Stream!vars
    OBVIOUS
  <1>1. ASSUME NEW m \in Messages, Flush(m) \/ ResponseFails(m)
        PROVE  Stream!Next \/ UNCHANGED Stream!vars
    BY <1>1, FlushIsSend, GiveUpIsAbandon DEF Flush, Stream!Next
  <1>2. CASE TransportStep
    BY <1>2, ReadingStutters, OthersStutter, MovingStutters, WriteQueueStutters,
       CloseConnectionIsClose, DisconnectIsCut DEF TransportStep, Stream!Next
  <1>3. CASE PeerReads \/ PeerGone \/ UNCHANGED vars
    BY <1>3, OthersStutter
  <1> QED
    BY <1>1, <1>2, <1>3 DEF Next

\* What reaches the peer of a connection is the stream of ResponseStream: messages
\* whole and in the order in which the write mutex was taken, cut at most once.
THEOREM StreamImplemented == Spec => ImplementsStream
  BY InitIsInit, StepIsStep, SendInvariant, PTL DEF Spec, ImplementsStream, Stream!Spec

-----------------------------------------------------------------------------
(* The stream is whole.  That the next chunk fits what is there needs to   *)
(* be known of the last unit only: whose it is, and whether it ends a      *)
(* chunk or a message.                                                     *)

\* The chunk size and the messages are such as the stream asks for.
LEMMA StreamConstants ==
    /\ MaxChunks \in Nat \ {0} /\ ChunkSize \in Nat \ {0}
    /\ None \notin Messages /\ Error \notin Messages
  BY SendQueueAssumption

\* What the parts of the stream are.
StreamType ==
    /\ Promised \in Seq(Unit)
    /\ mutex \in Messages \union {None}
    /\ at \in [Messages -> 0 .. MaxChunks]
    /\ Abandoned \subseteq Messages
    /\ Phase \in {"open", "closing", "closed"}

\* The unit that was added last.
LastUnit == Promised[Len(Promised)]

\* While messages may follow, the stream ends with a chunk of a message that has begun.
EndInv ==
    /\ mutex # None => Phase = "open"
    /\ Phase = "open" =>
           /\ \A i \in 1 .. Len(Promised) : Promised[i].m \in Messages /\ at[Promised[i].m] > 0
           /\ Promised # <<>> => LastUnit.k = ChunkSize
    /\ mutex # None =>
           Promised # <<>> /\ LastUnit.m = mutex /\ ~LastUnit.last /\ LastUnit.c = at[mutex]
    /\ Phase = "open" /\ mutex = None /\ Promised # <<>> => LastUnit.last \/ LastUnit.m \in Abandoned

StreamInv == StreamType /\ Stream!WholeMessages /\ EndInv

-----------------------------------------------------------------------------
\* A chunk is whole, begins with its first unit and ends with its last one.
LEMMA ChunkWhole ==
    ASSUME NEW m \in Messages \union {Error}, NEW c \in 1 .. MaxChunks, NEW last \in BOOLEAN, NEW ab
    PROVE  LET chunk == Stream!ChunkUnits(m, c, last)
           IN  /\ chunk \in Seq(Unit) /\ Len(chunk) = ChunkSize
               /\ \A i \in 1 .. ChunkSize : chunk[i] = [m |-> m, c |-> c, last |-> last, k |-> i]
               /\ \A i \in 1 .. ChunkSize - 1 : Stream!Follows(ab, chunk[i], chunk[i + 1])
  <1> DEFINE chunk == Stream!ChunkUnits(m, c, last)
  <1>1. ChunkSize \in Nat \ {0}
    BY StreamConstants
  <1>2. chunk \in [1 .. ChunkSize -> Unit]
    BY DEF Stream!ChunkUnits, Unit
  <1>3. chunk \in Seq(Unit) /\ Len(chunk) = ChunkSize
    BY <1>1, <1>2, SeqDef
  <1>4. \A i \in 1 .. ChunkSize : chunk[i] = [m |-> m, c |-> c, last |-> last, k |-> i]
    BY DEF Stream!ChunkUnits
  <1>5. ASSUME NEW i \in 1 .. ChunkSize - 1 PROVE Stream!Follows(ab, chunk[i], chunk[i + 1])
    <2>1. /\ chunk[i] = [m |-> m, c |-> c, last |-> last, k |-> i]
          /\ chunk[i + 1] = [m |-> m, c |-> c, last |-> last, k |-> i + 1]
          /\ i < ChunkSize
      BY <1>1, <1>4
    <2> HIDE DEF chunk
    <2> QED
      BY <2>1 DEF Stream!Follows
  <1> QED
    BY <1>3, <1>4, <1>5

\* A chunk may be added to a whole stream when its first unit may follow the last one.
LEMMA AddChunk ==
    ASSUME StreamType, Stream!WholeMessages,
           NEW m \in Messages \union {Error}, NEW c \in 1 .. MaxChunks, NEW last \in BOOLEAN,
           Promised = <<>> => c = 1,
           Promised # <<>> => Stream!Follows(Abandoned, LastUnit, [m |-> m, c |-> c, last |-> last, k |-> 1]),
           Promised' = Promised \o Stream!ChunkUnits(m, c, last), Abandoned' = Abandoned
    PROVE  /\ Promised' \in Seq(Unit) /\ Promised' # <<>> /\ Stream!WholeMessages'
           /\ LastUnit' = [m |-> m, c |-> c, last |-> last, k |-> ChunkSize]
           /\ \A i \in 1 .. Len(Promised') :
                 (i <= Len(Promised) /\ Promised'[i] = Promised[i]) \/ Promised'[i].m = m
  <1> DEFINE n == Len(Promised)
             chunk == Stream!ChunkUnits(m, c, last)
  <1>1. /\ ChunkSize \in Nat \ {0} /\ n \in Nat /\ Promised \in Seq(Unit)
        /\ Promised = <<>> <=> n = 0
    BY LenProperties, EmptySeq, StreamConstants DEF StreamType
  <1>2. /\ chunk \in Seq(Unit) /\ Len(chunk) = ChunkSize
        /\ \A i \in 1 .. ChunkSize : chunk[i] = [m |-> m, c |-> c, last |-> last, k |-> i]
        /\ \A i \in 1 .. ChunkSize - 1 : Stream!Follows(Abandoned, chunk[i], chunk[i + 1])
    BY ChunkWhole
  <1>3. Promised' = Promised \o chunk
    OBVIOUS
  <1> HIDE DEF chunk
  <1>4. /\ Promised' \in Seq(Unit) /\ Len(Promised') = n + ChunkSize
        /\ \A i \in 1 .. n + ChunkSize :
              Promised'[i] = IF i <= n THEN Promised[i] ELSE chunk[i - n]
    <2>1. /\ Promised \o chunk \in Seq(Unit)
          /\ Len(Promised \o chunk) = n + Len(chunk)
          /\ \A i \in 1 .. n + Len(chunk) :
                (Promised \o chunk)[i] = IF i <= n THEN Promised[i] ELSE chunk[i - n]
      <3>1. Promised \in Seq(Unit) /\ chunk \in Seq(Unit)
        BY <1>1, <1>2
      <3> QED
        BY <3>1, ConcatProperties, Zenon
    <2> QED
      BY <1>2, <1>3, <2>1
  <1>5. \A i \in 1 .. n : Promised'[i] = Promised[i]
    BY <1>1, <1>4
  <1>6. ASSUME NEW i \in 1 .. ChunkSize PROVE Promised'[n + i] = chunk[i]
    <2>1. n + i \in 1 .. n + ChunkSize /\ ~(n + i <= n) /\ n + i - n = i
      BY <1>1
    <2> QED
      BY <1>4, <2>1
  <1>7. Promised'[1].c = 1 /\ Promised'[1].k = 1
    <2>1. CASE n = 0
      BY <1>1, <1>2, <1>4, <2>1
    <2>2. CASE n # 0
      BY <1>1, <1>5, <2>2 DEF Stream!WholeMessages, Stream!Whole
    <2> QED
      BY <2>1, <2>2
  <1>8. ASSUME NEW i \in 1 .. Len(Promised') - 1 PROVE Stream!Follows(Abandoned, Promised'[i], Promised'[i + 1])
    <2>1. CASE i < n
      <3>1. Promised'[i] = Promised[i] /\ Promised'[i + 1] = Promised[i + 1] /\ i \in 1 .. n - 1
        BY <1>1, <1>4, <1>5, <2>1
      <3>2. Stream!Follows(Abandoned, Promised[i], Promised[i + 1])
        BY <3>1 DEF Stream!WholeMessages, Stream!Whole
      <3> QED
        BY <3>1, <3>2
    <2>2. CASE i = n
      <3>1. /\ Promised'[i] = LastUnit /\ Promised # <<>>
            /\ 1 \in 1 .. ChunkSize /\ Promised'[n + 1] = chunk[1]
        BY <1>1, <1>4, <1>5, <1>6, <2>2 DEF LastUnit
      <3>2. chunk[1] = [m |-> m, c |-> c, last |-> last, k |-> 1]
        BY <1>2, <3>1
      <3>3. Stream!Follows(Abandoned, LastUnit, chunk[1])
        BY <3>1, <3>2
      <3> QED
        BY <2>2, <3>1, <3>3
    <2>3. CASE i > n
      <3>1. PICK j \in 1 .. ChunkSize - 1 : i = n + j
        <4>1. i \in 1 .. n + ChunkSize - 1
          BY <1>1, <1>4
        <4>2. i - n \in 1 .. ChunkSize - 1 /\ i = n + (i - n)
          BY <1>1, <2>3, <4>1
        <4> QED
          BY <4>2
      <3>2. Promised'[i] = chunk[j] /\ Promised'[i + 1] = chunk[j + 1]
        <4>1. j \in 1 .. ChunkSize /\ j + 1 \in 1 .. ChunkSize /\ i + 1 = n + (j + 1)
          BY <1>1, <3>1
        <4> QED
          BY <1>6, <3>1, <4>1
      <3> QED
        BY <1>2, <3>1, <3>2
    <2> QED
      BY <1>1, <1>4, <2>1, <2>2, <2>3
  <1>9. LastUnit' = [m |-> m, c |-> c, last |-> last, k |-> ChunkSize]
    <2>1. Len(Promised') = n + ChunkSize /\ ChunkSize \in 1 .. ChunkSize
      BY <1>1, <1>4
    <2>2. Promised'[Len(Promised')] = chunk[ChunkSize]
      BY <1>6, <2>1
    <2> QED
      BY <1>2, <2>1, <2>2 DEF LastUnit
  <1>10. \A i \in 1 .. Len(Promised') : (i <= n /\ Promised'[i] = Promised[i]) \/ Promised'[i].m = m
    <2> SUFFICES ASSUME NEW i \in 1 .. Len(Promised'), ~(i <= n)
                 PROVE  Promised'[i].m = m
      BY <1>1, <1>4, <1>5
    <2>1. i - n \in 1 .. ChunkSize /\ Promised'[i] = chunk[i - n]
      BY <1>1, <1>4
    <2> QED
      BY <1>2, <2>1
  <1>11. Promised' # <<>>
    BY <1>1, <1>4, EmptySeq
  <1> QED
    BY <1>4, <1>7, <1>8, <1>9, <1>10, <1>11 DEF Stream!WholeMessages, Stream!Whole

\* The beginning of a whole stream is whole.
LEMMA PrefixWhole ==
    ASSUME NEW s \in Seq(Unit), NEW p \in Seq(Unit), NEW ab, Stream!Whole(s, ab), Len(p) <= Len(s),
           \A i \in 1 .. Len(p) : p[i] = s[i]
    PROVE  Stream!Whole(p, ab)
  <1>1. /\ Len(p) \in Nat /\ Len(s) \in Nat
        /\ p # <<>> <=> Len(p) # 0
        /\ s # <<>> <=> Len(s) # 0
    BY LenProperties, EmptySeq
  <1>2. p # <<>> => p[1].c = 1 /\ p[1].k = 1
    BY <1>1 DEF Stream!Whole
  <1>3. ASSUME NEW i \in 1 .. Len(p) - 1 PROVE Stream!Follows(ab, p[i], p[i + 1])
    <2>1. i \in 1 .. Len(s) - 1 /\ p[i] = s[i] /\ p[i + 1] = s[i + 1]
      BY <1>1
    <2> QED
      BY <2>1 DEF Stream!Whole
  <1> QED
    BY <1>2, <1>3 DEF Stream!Whole

-----------------------------------------------------------------------------
\* An empty stream is whole.
LEMMA StreamInvInit == Stream!Init => StreamInv
  <1> SUFFICES ASSUME Stream!Init PROVE StreamInv
    OBVIOUS
  <1>1. Promised \in Seq(Unit) /\ Len(Promised) = 0
    BY EmptySeq DEF Stream!Init
  <1> QED
    BY <1>1, StreamConstants DEF Stream!Init, StreamInv, StreamType, Stream!WholeMessages, Stream!Whole, EndInv

\* The next chunk of the message that is being written, or the first one of another.
LEMMA SendKeeps ==
    ASSUME StreamInv, NEW m \in Messages, NEW last \in BOOLEAN, Stream!Send(m, last)
    PROVE  StreamInv'
  <1> DEFINE c == at[m] + 1
             unit == [m |-> m, c |-> c, last |-> last, k |-> 1]
  <1>1. /\ Phase = "open" /\ UNCHANGED <<Phase, Abandoned>> /\ mutex \in {None, m}
        /\ mutex = None => at[m] = 0
        /\ Promised' = Promised \o Stream!ChunkUnits(m, c, last)
        /\ at' = [at EXCEPT ![m] = @ + 1]
        /\ mutex' = IF last THEN None ELSE m
        /\ c \in 1 .. MaxChunks /\ at[m] \in Nat
    BY StreamConstants DEF Stream!Send, StreamInv, StreamType
  <1>2. /\ \A i \in 1 .. Len(Promised) : Promised[i].m \in Messages /\ at[Promised[i].m] > 0
        /\ Promised # <<>> => LastUnit \in Unit /\ LastUnit.k = ChunkSize
                             /\ LastUnit.m \in Messages /\ at[LastUnit.m] > 0
    <2>1. \A i \in 1 .. Len(Promised) : Promised[i].m \in Messages /\ at[Promised[i].m] > 0
      BY <1>1 DEF StreamInv, EndInv
    <2>2. Promised # <<>> => Len(Promised) \in 1 .. Len(Promised) /\ LastUnit \in Unit
      BY LenProperties, EmptySeq DEF StreamInv, StreamType, LastUnit
    <2> QED
      BY <1>1, <2>1, <2>2 DEF StreamInv, EndInv, LastUnit
  <1>3. Promised = <<>> => c = 1
    BY <1>1 DEF StreamInv, EndInv
  <1>4. ASSUME Promised # <<>> PROVE Stream!Follows(Abandoned, LastUnit, unit)
    <2>1. CASE mutex = None
      <3>1. (LastUnit.last \/ LastUnit.m \in Abandoned) /\ LastUnit.m # m /\ c = 1
        BY <1>1, <1>2, <1>4, <2>1 DEF StreamInv, EndInv
      <3> QED
        BY <1>2, <1>4, <3>1 DEF Stream!Follows
    <2>2. CASE mutex = m /\ mutex # None
      <3>1. ~LastUnit.last /\ LastUnit.m = m /\ c = LastUnit.c + 1
        BY <1>1, <2>2 DEF StreamInv, EndInv
      <3> QED
        BY <1>2, <1>4, <3>1 DEF Stream!Follows
    <2> QED
      BY <1>1, <2>1, <2>2
  <1>5. /\ Promised' \in Seq(Unit) /\ Promised' # <<>> /\ Stream!WholeMessages'
        /\ LastUnit' = [m |-> m, c |-> c, last |-> last, k |-> ChunkSize]
        /\ \A i \in 1 .. Len(Promised') :
              (i <= Len(Promised) /\ Promised'[i] = Promised[i]) \/ Promised'[i].m = m
    <2>1. StreamType /\ Stream!WholeMessages /\ m \in Messages \union {Error}
      BY DEF StreamInv
    <2> QED
      BY <1>1, <1>3, <1>4, <2>1, AddChunk
  <1>6. StreamType'
    BY <1>1, <1>5 DEF StreamInv, StreamType
  <1>7. ASSUME NEW i \in 1 .. Len(Promised')
        PROVE  Promised'[i].m \in Messages /\ at'[Promised'[i].m] > 0
    <2>1. \A j \in Messages : at'[j] = IF j = m THEN at[j] + 1 ELSE at[j]
      BY <1>1 DEF StreamInv, StreamType
    <2>2. CASE i <= Len(Promised) /\ Promised'[i] = Promised[i]
      <3>1. i \in 1 .. Len(Promised)
        BY <2>2, LenProperties DEF StreamInv, StreamType
      <3>2. Promised'[i].m \in Messages /\ at[Promised'[i].m] > 0
        BY <1>2, <2>2, <3>1
      <3> QED
        BY <1>1, <2>1, <3>2
    <2>3. CASE Promised'[i].m = m
      BY <1>1, <2>1, <2>3
    <2> QED
      BY <1>5, <2>2, <2>3
  <1>8. EndInv'
    <2>1. at'[m] = c
      BY <1>1 DEF StreamInv, StreamType
    <2>2. /\ LastUnit'.k = ChunkSize /\ LastUnit'.m = m /\ LastUnit'.c = c
          /\ LastUnit'.last = last
      BY <1>5
    <2>3. mutex' # None => ~last /\ mutex' = m
      BY <1>1
    <2>4. mutex' = None => last
      BY <1>1, StreamConstants
    <2> QED
      BY <1>1, <1>5, <1>7, <2>1, <2>2, <2>3, <2>4 DEF EndInv
  <1> QED
    BY <1>5, <1>6, <1>8 DEF StreamInv

\* A message that is abandoned leaves the stream as it is; another one may follow now.
LEMMA AbandonKeeps ==
    ASSUME StreamInv, NEW m \in Messages, Stream!Abandon(m)
    PROVE  StreamInv'
  <1>1. /\ mutex = m /\ mutex' = None /\ Abandoned' = Abandoned \union {m}
        /\ UNCHANGED <<Promised, at, Phase>>
    BY DEF Stream!Abandon
  <1>2. StreamType'
    BY <1>1 DEF StreamInv, StreamType
  <1>3. \A a, b : Stream!Follows(Abandoned, a, b) => Stream!Follows(Abandoned', a, b)
    BY <1>1 DEF Stream!Follows
  <1>4. Stream!WholeMessages'
    BY <1>1, <1>3 DEF StreamInv, Stream!WholeMessages, Stream!Whole
  <1>5. EndInv'
    BY <1>1, SMT, StreamConstants DEF StreamInv, EndInv, LastUnit
  <1> QED
    BY <1>2, <1>4, <1>5 DEF StreamInv

\* The ERR message follows the chunk that is the last one.
LEMMA CloseKeeps == StreamInv /\ Stream!Close => StreamInv'
  <1> SUFFICES ASSUME StreamInv, Stream!Close PROVE StreamInv'
    OBVIOUS
  <1>1. /\ Phase = "open" /\ mutex = None /\ mutex' = None
        /\ Phase' \in {"closing", "closed"} /\ UNCHANGED <<at, Abandoned>>
    BY DEF Stream!Close
  <1>2. EndInv'
    BY <1>1 DEF EndInv
  <1>3. CASE Promised' = Promised
    BY <1>1, <1>2, <1>3 DEF StreamInv, StreamType, Stream!WholeMessages
  <1>4. CASE Promised' = Promised \o Stream!ChunkUnits(Error, 1, TRUE)
    <2>1. ASSUME Promised # <<>>
          PROVE  Stream!Follows(Abandoned, LastUnit, [m |-> Error, c |-> 1, last |-> TRUE, k |-> 1])
      <3>1. Len(Promised) \in 1 .. Len(Promised)
        BY <2>1, LenProperties, EmptySeq DEF StreamInv, StreamType
      <3>2. /\ LastUnit.k = ChunkSize /\ LastUnit.m # Error
            /\ LastUnit.last \/ LastUnit.m \in Abandoned
        BY <1>1, <2>1, <3>1, StreamConstants DEF StreamInv, EndInv, LastUnit
      <3> QED
        BY <3>2 DEF Stream!Follows
    <2>2. /\ StreamType /\ Stream!WholeMessages /\ Error \in Messages \union {Error}
          /\ 1 \in 1 .. MaxChunks /\ TRUE \in BOOLEAN
      BY StreamConstants DEF StreamInv
    <2>3. Promised' \in Seq(Unit) /\ Stream!WholeMessages'
      BY <1>1, <1>4, <2>1, <2>2, AddChunk
    <2> QED
      BY <1>1, <1>2, <2>3 DEF StreamInv, StreamType
  <1> QED
    BY <1>3, <1>4 DEF Stream!Close

\* What is left of a stream that was cut is whole as far as it goes.
LEMMA CutKeeps == StreamInv /\ Stream!Cut => StreamInv'
  <1> SUFFICES ASSUME StreamInv, Stream!Cut PROVE StreamInv'
    OBVIOUS
  <1>1. PICK n \in 0 .. Len(Promised) : Promised' = SubSeq(Promised, 1, n)
    BY DEF Stream!Cut
  <1>2. Phase' = "closed" /\ mutex = None /\ UNCHANGED <<mutex, at, Abandoned>>
    BY DEF Stream!Cut
  <1>3. Promised \in Seq(Unit) /\ Len(Promised) \in Nat /\ \A i \in 1 .. Len(Promised) : Promised[i] \in Unit
    BY LenProperties DEF StreamInv, StreamType
  <1>4. /\ Promised' \in Seq(Unit) /\ Len(Promised') = n
        /\ \A i \in 1 .. n : Promised'[i] = Promised[i]
    <2>1. \A i \in 1 .. n : Promised[i] \in Unit
      BY <1>3
    <2> QED
      BY <1>1, <1>3, <2>1, SubSeqProperties
  <1>5. Stream!Whole(Promised', Abandoned)
    BY <1>3, <1>4, PrefixWhole DEF StreamInv, Stream!WholeMessages
  <1> QED
    BY <1>2, <1>4, <1>5 DEF StreamInv, StreamType, Stream!WholeMessages, EndInv

\* Every step keeps the stream whole.
LEMMA StreamInvStep == StreamInv /\ [Stream!Next]_(Stream!vars) => StreamInv'
  <1> SUFFICES ASSUME StreamInv, [Stream!Next]_(Stream!vars) PROVE StreamInv'
    OBVIOUS
  <1>1. CASE UNCHANGED Stream!vars
    BY <1>1 DEF Stream!vars, StreamInv, StreamType, Stream!WholeMessages, EndInv, LastUnit
  <1> QED
    BY <1>1, SendKeeps, AbandonKeeps, CloseKeeps, CutKeeps DEF Stream!Next

\* WholeMessages: a connection that does nothing but what ResponseStream allows gives
\* its peer whole messages, whatever else it does.
THEOREM WholeMessagesHold == Stream!Spec => []Stream!WholeMessages
  <1>1. StreamInv => Stream!WholeMessages
    BY DEF StreamInv
  <1> QED
    BY <1>1, StreamInvInit, StreamInvStep, PTL DEF Stream!Spec

-----------------------------------------------------------------------------
(* What the peer reads. *)

\* The socket has the beginning of the stream.
LEMMA WireIsPrefix ==
    ASSUME TypeOK
    PROVE  /\ wire \in Seq(Unit) /\ Promised \in Seq(Unit) /\ Len(wire) <= Len(Promised)
           /\ \A i \in 1 .. Len(wire) : wire[i] = Promised[i]
  <1>1. PICK rest \in Seq(Unit) : wire \in Seq(Unit) /\ Promised = wire \o rest
    <2>1. wire \in Seq(Unit) /\ wire = wire \o <<>> /\ <<>> \in Seq(Unit)
      BY JoinType, EmptySeq DEF TypeOK
    <2>2. conn # "closed" => sendQ \o pending \in Seq(Unit) /\ Promised = wire \o (sendQ \o pending)
      BY JoinType, LinkedPromised DEF TypeOK
    <2>3. conn = "closed" => Promised = wire
      BY DEF Promised
    <2> QED
      BY <2>1, <2>2, <2>3
  <1> QED
    BY <1>1, ConcatProperties, LenProperties

\* A whole stream has a whole beginning.
LEMMA WireWhole == TypeOK /\ Stream!WholeMessages => PeerSeesWholeMessages
  <1> SUFFICES ASSUME TypeOK, Stream!WholeMessages PROVE PeerSeesWholeMessages
    OBVIOUS
  <1>1. /\ wire \in Seq(Unit) /\ Promised \in Seq(Unit)
        /\ Len(wire) <= Len(Promised) /\ \A i \in 1 .. Len(wire) : wire[i] = Promised[i]
    BY WireIsPrefix
  <1>2. Stream!Whole(Promised, Abandoned)
    BY DEF Stream!WholeMessages
  <1>3. Stream!Whole(wire, Abandoned)
    BY <1>1, <1>2, PrefixWhole
  <1> QED
    BY <1>3 DEF PeerSeesWholeMessages

\* The peer never sees two messages mixed or a part of one twice, whichever thread
\* wrote them to the socket.
THEOREM PeerSeesWholeMessagesHolds == Spec => []PeerSeesWholeMessages
  <1>1. Init => StreamInv
    BY InitIsInit, StreamInvInit
  <1>2. Inv /\ StreamInv /\ [Next]_vars => StreamInv'
    BY StepIsStep, StreamInvStep
  <1>3. Inv /\ StreamInv => PeerSeesWholeMessages
    BY WireWhole DEF Inv, StreamInv
  <1> QED
    BY <1>1, <1>2, <1>3, SendInvariant, PTL DEF Spec

=============================================================================
