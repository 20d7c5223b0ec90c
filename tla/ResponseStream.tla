--------------------------- MODULE ResponseStream ---------------------------
(***************************************************************************)
(* What the send path of a server connection promises the peer: responses  *)
(* are chunked, several threads write them, the socket takes a part of a   *)
(* chunk at a time, and the peer reads a stream in which every message is  *)
(* whole, in the order in which the write mutex of the channel was taken.  *)
(* A message that is abandoned stays without its end, and the next one     *)
(* follows it.  When the connection ends the stream may be cut.            *)
(***************************************************************************)
EXTENDS Integers, Sequences

CONSTANTS
    Messages,       \* the responses
    MaxChunks,      \* chunks of the longest response
    ChunkSize,      \* units the socket may take one at a time, per chunk
    None, Error     \* no message; the ERR message

VARIABLES
    stream,         \* every unit the peer is to read, in order
    writer,         \* the message whose chunks are being added, or None
    written,        \* written[m]: chunks of m in the stream
    abandoned,      \* the messages that were begun and will not be finished
    state           \* "open", "closing" (no message is added any more) or "closed"

vars == <<stream, writer, written, abandoned, state>>

\* The units of chunk c of message m; its flag tells whether it is the last one.
ChunkUnits(m, c, last) == [k \in 1 .. ChunkSize |-> [m |-> m, c |-> c, last |-> last, k |-> k]]

Unit == [m : Messages \union {Error}, c : 1 .. MaxChunks, last : BOOLEAN, k : 1 .. ChunkSize]

Init ==
    /\ stream = <<>> /\ writer = None
    /\ written = [m \in Messages |-> 0]
    /\ abandoned = {} /\ state = "open"

\* The next chunk of m; nothing comes between two chunks of a message.
Send(m, last) ==
    /\ state = "open" /\ writer \in {None, m} /\ (writer = None => written[m] = 0)
    /\ written[m] < MaxChunks
    /\ stream' = stream \o ChunkUnits(m, written[m] + 1, last)
    /\ written' = [written EXCEPT ![m] = @ + 1]
    /\ writer' = IF last THEN None ELSE m
    /\ UNCHANGED <<abandoned, state>>

\* m will not be finished.
Abandon(m) ==
    /\ writer = m /\ writer' = None
    /\ abandoned' = abandoned \union {m}
    /\ UNCHANGED <<stream, written, state>>

\* The listener gives the connection up, with or without an ERR message, and
\* closes it when all was sent.
Close ==
    /\ state = "open" /\ writer = None
    /\ state' \in {"closing", "closed"}
    /\ stream' \in {stream, stream \o ChunkUnits(Error, 1, TRUE)}
    /\ UNCHANGED <<writer, written, abandoned>>

\* The connection ends; what the socket has not taken is lost.
Cut ==
    /\ state # "closed" /\ state' = "closed" /\ writer = None
    /\ \E n \in 0 .. Len(stream) : stream' = SubSeq(stream, 1, n)
    /\ UNCHANGED <<writer, written, abandoned>>

Next ==
    \/ \E m \in Messages : Abandon(m) \/ \E last \in BOOLEAN : Send(m, last)
    \/ Close
    \/ Cut

Spec == Init /\ [][Next]_vars

-----------------------------------------------------------------------------
\* What may follow unit a when the messages ab were abandoned: the rest of its chunk,
\* then the next chunk of its message or, when that has ended, another message.
Follows(ab, a, b) ==
    \/ a.k < ChunkSize /\ b = [a EXCEPT !.k = @ + 1]
    \/ a.k = ChunkSize /\ b.k = 1
       /\ \/ ~a.last /\ b.m = a.m /\ b.c = a.c + 1
          \/ (a.last \/ a.m \in ab) /\ b.m # a.m /\ b.c = 1

\* A stream, or the beginning of one, without a message torn, mixed or out of order.
Whole(s, ab) ==
    /\ s # <<>> => s[1].c = 1 /\ s[1].k = 1
    /\ \A i \in 1 .. Len(s) - 1 : Follows(ab, s[i], s[i + 1])

\* The peer reads whole messages, those that were abandoned as far as they were sent.
WholeMessages == Whole(stream, abandoned)
=============================================================================
