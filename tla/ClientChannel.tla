--------------------------- MODULE ClientChannel ---------------------------
(***************************************************************************)
(* The client's channel object (proxystub/clientproxy/opcua_channel.c)     *)
(* over one secure connection and one TCP connection: Connect, Disconnect  *)
(* and Clear, which turn the callbacks of other threads into calls that    *)
(* wait on an AsyncCallState.                                              *)
(*                                                                         *)
(* Threads: "user", which calls Connect, Disconnect and Clear; "net", the  *)
(* transport thread of the connection; and the Senders, which call         *)
(* BeginSendEncodedRequest.  An action is a region that takes no further   *)
(* lock.  Two mutexes are held while something else is awaited and are     *)
(* therefore variables: the Mutex of the channel and the RequestMutex of   *)
(* the secure connection; both are recursive.  Renewals, the session calls *)
(* themselves and both timers are in SecureConversation.                   *)
(***************************************************************************)
EXTENDS Integers, FiniteSets

CONSTANTS
    Senders,        \* threads that send encoded requests
    MaxCalls        \* bound on the AsyncCallState objects made

ASSUME ChannelAssumption ==
    /\ IsFiniteSet(Senders) /\ Senders \cap {"user", "net", "free"} = {}
    /\ MaxCalls \in Nat

Threads == {"user", "net"} \union Senders
Free    == "free"               \* nobody holds the mutex
States  == 1..MaxCalls          \* AsyncCallState objects
NoState == 0

VARIABLES
    chan,       \* holder of the channel's Mutex
    req,        \* holder of the secure connection's RequestMutex
    tcp,        \* ConnectionState of the TCP connection
    sc,         \* State of the secure connection
    sccb,       \* whether the secure connection's Callback is set
    opn,        \* whether the first OpenSecureChannel request is pending
    conn,       \* whether the channel has connection objects
    cb,         \* pfCallback and pvCallbackData of the channel
    life,       \* life[s]: life of AsyncCallState s
    status,     \* status[s]: its Status
    late,       \* AsyncCallStates signalled after they were deleted
    pc,         \* pc[t]: where thread t is
    after,      \* after[t]: where it goes when its event has been handled
    ev,         \* ev[t]: the event it handles
    tell,       \* tell[t]: what it is about to report to the channel
    call,       \* the user's AsyncCallStates and how its calls went
    owed        \* whether the application counts on hearing of a loss

locks  == <<chan, req>>
secure == <<sc, sccb, opn>>
async  == <<cb, life, status, late, owed>>
thread == <<pc, after, ev, tell>>
vars   == <<locks, tcp, secure, conn, async, thread, call>>

TcpStates == {"Disconnected", "Connecting", "Connected", "Error"}
ScStates  == {"Disconnected", "ConnectingTransport", "ConnectingSecure",
              "Connected", "DisconnectingSecure", "Unknown"}

Null == [to |-> "null", state |-> NoState]

\* The channel has been created and never connected.
Init ==
    /\ chan = Free /\ req = Free
    /\ tcp = "Disconnected" /\ conn = FALSE
    /\ sc = "Disconnected" /\ sccb = FALSE /\ opn = FALSE
    /\ cb = Null
    /\ life = [s \in States |-> "unused"]
    /\ status = [s \in States |-> "waiting"]
    /\ late = {} /\ owed = FALSE
    /\ pc = [t \in Threads |-> IF t = "user" THEN "out" ELSE "idle"]
    /\ after = [t \in Threads |-> "idle"]
    /\ ev = [t \in Threads |-> "none"]
    /\ tell = [t \in Threads |-> "none"]
    /\ call = [connect |-> NoState, disconnect |-> NoState, good |-> FALSE, sent |-> FALSE]

Goto(t, label) == pc' = [pc EXCEPT ![t] = label]

\* Thread t has transport event e to report to the secure connection and goes
\* on at label when that has been handled.
Raise(t, e, label) ==
    /\ ev' = [ev EXCEPT ![t] = e]
    /\ after' = [after EXCEPT ![t] = label]
    /\ Goto(t, "notify")

-----------------------------------------------------------------------------
(* Completion of a call.  Status changes and the semaphore is posted in one *)
(* region of WaitMutex, and only the waiter takes the post: it can go on    *)
(* exactly when Status is no longer BadWaitingForResponse.                  *)

Signal(s, v) ==
    /\ status' = [status EXCEPT ![s] = v]
    /\ late' = IF life[s] = "deleted" THEN late \union {s} ELSE late

\* OpcUa_Channel_OnNotify in its region of the channel's Mutex.  pfCallback is
\* InternalConnectComplete, InternalDisconnectComplete or the application's.
ChannelNotify(report) ==
    /\ \/ cb.to = "connect" /\ Signal(cb.state, IF report = "connected" THEN "good" ELSE "bad")
       \/ cb.to = "disconnect" /\ report = "lost" /\ Signal(cb.state, "good")
       \/ /\ \/ cb.to \in {"null", "app"}
             \/ cb.to = "disconnect" /\ report # "lost"
          /\ UNCHANGED <<status, late>>
    /\ owed' = (owed /\ ~(cb.to = "app" /\ report = "lost"))
    /\ cb' = IF report = "lost" THEN Null ELSE cb
    /\ UNCHANGED life

\* The secure connection calls its Callback, if it has one, on thread t.
CallBack(t, report) ==
    IF report = "none" \/ ~sccb THEN UNCHANGED async
    ELSE chan \in {Free, t} /\ ChannelNotify(report)

-----------------------------------------------------------------------------
(* OpcUa_SecureConnection_OnNotify, on the thread t that has the event.     *)

\* How the secure connection takes the event: its next State, whether the
\* OpenSecureChannel request stays pending, and what the channel is told.
Outcome(e) ==
    CASE e = "refused" -> [sc |-> "Unknown", opn |-> opn, tell |-> "failed"]
      [] e = "disconnect" ->
           CASE sc \in {"Connected", "DisconnectingSecure"} ->
                    [sc |-> "Disconnected", opn |-> FALSE, tell |-> "lost"]
             [] sc = "ConnectingSecure" ->
                    [sc |-> "Disconnected", opn |-> FALSE, tell |-> "failed"]
             [] sc = "ConnectingTransport" ->
                    [sc |-> "Disconnected", opn |-> opn, tell |-> "lost"]
             [] OTHER -> [sc |-> sc, opn |-> opn, tell |-> "none"]
      [] e = "error" ->
           [sc |-> "Disconnected", opn |-> FALSE,
            tell |-> IF sc = "ConnectingSecure" THEN "failed" ELSE "lost"]
      [] e \in {"opened", "rejected"} ->
           IF e = "opened" /\ opn /\ sc = "ConnectingSecure"
           THEN [sc |-> "Connected", opn |-> FALSE, tell |-> "connected"]
           ELSE [sc |-> sc, opn |-> FALSE, tell |-> "failed"]

\* A transport connection is up: the mutex is given back and the channel opened.
NotifyConnect(t) ==
    /\ pc[t] = "notify" /\ ev[t] = "connect" /\ req = Free
    /\ Goto(t, IF sc = "ConnectingTransport" THEN "opening" ELSE after[t])
    /\ UNCHANGED <<locks, tcp, secure, conn, async, after, ev, tell, call>>

\* Mutated form of Notify: a connection that is lost while the channel opens
\* is not reported to the owner, as if the request could still be answered.
NotifyOpenOnly(t) ==
    /\ pc[t] = "notify" /\ ev[t] # "connect" /\ req = Free
    /\ LET o == Outcome(ev[t]) IN
       /\ sc' = o.sc /\ opn' = o.opn
       /\ tell' = [tell EXCEPT ![t] = IF ev[t] = "disconnect" /\ sc = "ConnectingSecure"
                                      THEN "none" ELSE o.tell]
    /\ req' = t
    /\ Goto(t, "tell")
    /\ UNCHANGED <<chan, tcp, sccb, conn, async, after, ev, call>>

\* Every other event: the mutex stays taken until the channel has been told.
Notify(t) ==
    /\ pc[t] = "notify" /\ ev[t] # "connect" /\ req = Free
    /\ LET o == Outcome(ev[t]) IN
       /\ sc' = o.sc /\ opn' = o.opn
       /\ tell' = [tell EXCEPT ![t] = o.tell]
    /\ req' = t
    /\ Goto(t, "tell")
    /\ UNCHANGED <<chan, tcp, sccb, conn, async, after, ev, call>>

\* The channel is told, still under the RequestMutex, which is then given back.
NotifyTell(t) ==
    /\ pc[t] = "tell" /\ req = t
    /\ CallBack(t, tell[t])
    /\ req' = Free
    /\ tell' = [tell EXCEPT ![t] = "none"]
    /\ Goto(t, after[t])
    /\ UNCHANGED <<chan, tcp, secure, conn, after, ev, call>>

-----------------------------------------------------------------------------
(* BeginOpenSecureChannel on the transport thread.                          *)

\* The mutex is taken again and the channel told that it was not opened.
OpenFailed ==
    /\ pc["net"] = "openFailed" /\ req = Free
    /\ req' = "net"
    /\ tell' = [tell EXCEPT !["net"] = "failed"]
    /\ Goto("net", "tell")
    /\ UNCHANGED <<chan, tcp, secure, conn, async, after, ev, call>>

\* The state changes before anything that can fail, and stays on failure.
Opening ==
    /\ pc["net"] = "opening" /\ req = Free
    /\ \/ /\ sc = "ConnectingTransport"
          /\ sc' = "ConnectingSecure"
          /\ \/ tcp = "Connected" /\ Goto("net", "openSend")
             \/ Goto("net", "openFailed")
       \/ /\ sc # "ConnectingTransport"
          /\ Goto("net", "openFailed") /\ UNCHANGED sc
    /\ UNCHANGED <<locks, tcp, sccb, opn, conn, async, after, ev, tell, call>>

\* EndSendOpenSecureChannelRequest: the request becomes pending ...
OpenSend ==
    /\ pc["net"] = "openSend" /\ req = Free
    /\ opn' = TRUE
    /\ Goto("net", "openWrite")
    /\ UNCHANGED <<locks, tcp, sc, sccb, conn, async, after, ev, tell, call>>

\* ... and is written.  A write that breaks the connection reports that first.
OpenWrite ==
    /\ pc["net"] = "openWrite"
    /\ \/ /\ tcp = "Connected"
          /\ Goto("net", "idle") /\ UNCHANGED <<tcp, after, ev>>
       \/ /\ tcp # "Disconnected"
          /\ tcp' = "Disconnected" /\ Raise("net", "disconnect", "openBroken")
       \/ Goto("net", "openBroken") /\ UNCHANGED <<tcp, after, ev>>
    /\ UNCHANGED <<locks, secure, conn, async, tell, call>>

\* Whoever took the request from the list has told its outcome.
OpenBroken ==
    /\ pc["net"] = "openBroken"
    /\ opn' = FALSE
    /\ Goto("net", IF opn THEN "openFailed" ELSE "idle")
    /\ UNCHANGED <<locks, tcp, sc, sccb, conn, async, after, ev, tell, call>>

-----------------------------------------------------------------------------
(* The transport thread.                                                    *)

\* The socket events by the state of the connection that lets them happen: the
\* peer answers a Hello once, an OpenSecureChannel request once, and may send
\* an ERR message or close at any time.
Arrivals == {"closed"}
    \union (IF tcp = "Connecting" THEN {"acknowledge", "nack", "except"} ELSE {})
    \union (IF tcp \in {"Connecting", "Connected"} THEN {"err"} ELSE {})
    \union (IF tcp = "Connected" /\ opn THEN {"opened", "rejected"} ELSE {})

\* SocketCallback looks at the state of the connection and reads, before the
\* handler of the event runs.
SocketEvent ==
    /\ pc["net"] = "idle" /\ conn /\ tcp # "Disconnected"
    /\ \E e \in Arrivals : ev' = [ev EXCEPT !["net"] = e]
    /\ Goto("net", "handle")
    /\ UNCHANGED <<locks, tcp, secure, conn, async, after, tell, call>>

\* The handlers set the state of the connection whatever it has become.
Handle ==
    /\ pc["net"] = "handle"
    /\ LET e == ev["net"] IN
       \/ /\ e \in {"acknowledge", "nack"}
          /\ tcp' = "Connected"
          /\ Raise("net", IF e = "nack" THEN "refused" ELSE "connect", "idle")
       \/ /\ e = "except"
          /\ tcp' = IF tcp \in {"Connecting", "Connected"} THEN "Disconnected" ELSE tcp
          /\ Raise("net", "error", "idle")
       \/ /\ e = "err"
          /\ tcp' = "Error"
          /\ Raise("net", "error", "idle")
       \/ /\ e \in {"opened", "rejected"}
          /\ Raise("net", e, "idle") /\ UNCHANGED tcp
       \/ /\ e = "closed" /\ tcp # "Disconnected"
          /\ tcp' = "Disconnected"
          /\ Raise("net", "disconnect", "idle")
       \/ /\ e = "closed" /\ tcp = "Disconnected"
          /\ Goto("net", "idle") /\ UNCHANGED <<tcp, ev, after>>
    /\ UNCHANGED <<locks, secure, conn, async, tell, call>>

-----------------------------------------------------------------------------
(* BeginSendEncodedRequest holds the channel's Mutex until the request is   *)
(* sent.                                                                    *)

Send(s) ==
    /\ pc[s] = "idle" /\ conn /\ pc["user"] \notin {"clear", "clearing"}
    /\ chan = Free /\ chan' = s
    /\ Goto(s, "sendBegin")
    /\ UNCHANGED <<req, tcp, secure, conn, async, after, ev, tell, call>>

\* BeginSendRequest of the secure connection, which asks the transport, too.
SendBegin(s) ==
    /\ pc[s] = "sendBegin" /\ req = Free
    /\ IF sc = "Connected" /\ tcp = "Connected"
       THEN Goto(s, "sendEnd") /\ UNCHANGED chan
       ELSE Goto(s, "idle") /\ chan' = Free
    /\ UNCHANGED <<req, tcp, secure, conn, async, after, ev, tell, call>>

\* EndSendRequest looks at the state again ...
SendEnd(s) ==
    /\ pc[s] = "sendEnd" /\ req = Free
    /\ IF sc \in {"Connected", "DisconnectingSecure"}
       THEN Goto(s, "sendWrite") /\ UNCHANGED chan
       ELSE Goto(s, "idle") /\ chan' = Free
    /\ UNCHANGED <<req, tcp, secure, conn, async, after, ev, tell, call>>

\* ... and writes: well or badly, or finding that the connection is broken.
SendWrite(s) ==
    /\ pc[s] = "sendWrite"
    /\ \/ Goto(s, "sendDone") /\ UNCHANGED <<tcp, after, ev>>
       \/ /\ tcp # "Disconnected"
          /\ tcp' = "Disconnected" /\ Raise(s, "disconnect", "sendDone")
    /\ UNCHANGED <<locks, secure, conn, async, tell, call>>

SendDone(s) ==
    /\ pc[s] = "sendDone"
    /\ chan' = Free
    /\ Goto(s, "idle")
    /\ UNCHANGED <<req, tcp, secure, conn, async, after, ev, tell, call>>

-----------------------------------------------------------------------------
(* The user thread: waiting.                                                *)

\* A user's step that leaves the transport thread and the senders alone.
NoEvent == UNCHANGED <<after, ev, tell>>

\* AsyncCallState_WaitForCompletion comes back with a Status.
Completed(label, s, next) ==
    /\ pc["user"] = label /\ status[s] # "waiting"
    /\ Goto("user", next)

\* The semaphore was not posted in time; the Status is written in a region of
\* its own, over whatever was signalled in between.
Expired(label, s, next) ==
    /\ pc["user"] = label /\ status[s] = "waiting"
    /\ Goto("user", next)

Abandoned(s) == status' = [status EXCEPT ![s] = "abandoned"]

Delete(s) == life' = [life EXCEPT ![s] = "deleted"]

\* AsyncCallState_Create.
NewState(field) ==
    \E s \in States :
        /\ life[s] = "unused" /\ \A r \in States : r < s => life[r] # "unused"
        /\ life' = [life EXCEPT ![s] = "live"]
        /\ call' = [call EXCEPT ![field] = s]

\* Where a Disconnect goes when it returns: to the Connect that called it.
Caller == IF call.connect # NoState THEN "settle" ELSE "out"

-----------------------------------------------------------------------------
(* OpcUa_Channel_Connect and OpcUa_Channel_BeginConnect.                    *)

\* The bound leaves a state for the Disconnect that a Connect may make.
Connect ==
    /\ pc["user"] = "out"
    /\ Cardinality({s \in States : life[s] = "unused"}) > 1
    /\ NewState("connect") /\ owed' = FALSE
    /\ Goto("user", "begin")
    /\ NoEvent
    /\ UNCHANGED <<locks, tcp, secure, conn, cb, status, late>>

\* The callback and new connection objects are put into the channel.
FreshConnection ==
    /\ conn' = TRUE
    /\ tcp' = "Disconnected" /\ sc' = "Disconnected" /\ sccb' = FALSE /\ opn' = FALSE
    /\ cb' = [to |-> "connect", state |-> call.connect]
    /\ Goto("user", "start")

\* With the Mutex taken: the old connection objects are deleted first.  The
\* socket is closed and the channel waits for the transport thread to end.
BeginConnect ==
    /\ pc["user"] = "begin" /\ chan = Free
    /\ \/ ~conn /\ FreshConnection /\ UNCHANGED chan
       \/ /\ conn
          /\ chan' = "user" /\ tcp' = "Disconnected" /\ Goto("user", "join")
          /\ UNCHANGED <<secure, conn, cb>>
    /\ NoEvent
    /\ UNCHANGED <<req, life, status, late, owed, call>>

BeginConnectJoined ==
    /\ pc["user"] = "join" /\ pc["net"] = "idle"
    /\ FreshConnection
    /\ chan' = Free
    /\ NoEvent
    /\ UNCHANGED <<req, life, status, late, owed, call>>

\* OpcUa_SecureConnection_Connect and OpcUa_TcpConnection_Connect.
Start ==
    /\ pc["user"] = "start"
    /\ \/ /\ sccb' = TRUE /\ sc' = "ConnectingTransport" /\ tcp' = "Connecting"
          /\ Goto("user", "await") /\ UNCHANGED <<call, life>>
       \/ /\ sccb' = FALSE /\ sc' = "Unknown" /\ tcp' = "Disconnected"
          /\ Delete(call.connect) /\ call' = [call EXCEPT !.connect = NoState]
          /\ Goto("user", "out")
    /\ NoEvent
    /\ UNCHANGED <<locks, opn, conn, cb, status, late, owed>>

ConnectCompleted ==
    /\ Completed("await", call.connect, "settle")
    /\ call' = [call EXCEPT !.good = (status[call.connect] = "good")]
    /\ NoEvent
    /\ UNCHANGED <<locks, tcp, secure, conn, async>>

ConnectExpired ==
    /\ Expired("await", call.connect, "expired")
    /\ NoEvent
    /\ UNCHANGED <<locks, tcp, secure, conn, async, call>>

\* Connect gave up: the pipe is reset by a Disconnect, which makes its own state.
ConnectAbandoned ==
    /\ pc["user"] = "expired"
    /\ Abandoned(call.connect)
    /\ call' = [call EXCEPT !.good = FALSE]
    /\ Goto("user", "reset")
    /\ NoEvent
    /\ UNCHANGED <<locks, tcp, secure, conn, cb, life, late, owed>>

\* Mutated form of Settle: the status is not read again in the region that
\* installs the application's callback.
SettleAtOnce ==
    /\ pc["user"] = "settle" /\ chan = Free
    /\ cb' = IF call.good THEN [to |-> "app", state |-> NoState] ELSE cb
    /\ owed' = (call.good \/ owed)
    /\ Delete(call.connect)
    /\ call' = [call EXCEPT !.connect = NoState]
    /\ Goto("user", "out")
    /\ NoEvent
    /\ UNCHANGED <<locks, tcp, secure, conn, status, late>>

\* "take care of possible race condition": with the Mutex taken the status is
\* read again and the application's callback is installed if it is still good.
Settle ==
    /\ pc["user"] = "settle" /\ chan = Free
    /\ LET open == call.good /\ status[call.connect] = "good" IN
       /\ cb' = IF open THEN [to |-> "app", state |-> NoState] ELSE cb
       /\ owed' = (open \/ owed)
    /\ Delete(call.connect)
    /\ call' = [call EXCEPT !.connect = NoState]
    /\ Goto("user", "out")
    /\ NoEvent
    /\ UNCHANGED <<locks, tcp, secure, conn, status, late>>

-----------------------------------------------------------------------------
(* OpcUa_Channel_Disconnect, called by the application or by Connect.       *)

Disconnect ==
    /\ pc["user"] \in {"out", "reset"}
    /\ NewState("disconnect") /\ owed' = FALSE
    /\ Goto("user", "replace")
    /\ NoEvent
    /\ UNCHANGED <<locks, tcp, secure, conn, cb, status, late>>

\* OpcUa_Channel_BeginDisconnect replaces the callback; without connection
\* objects the rest is refused.
ReplaceCallback ==
    /\ pc["user"] = "replace" /\ chan = Free
    /\ cb' = [to |-> "disconnect", state |-> call.disconnect]
    /\ IF conn THEN Goto("user", "close") /\ UNCHANGED call
       ELSE Goto("user", "return") /\ call' = [call EXCEPT !.sent = FALSE]
    /\ NoEvent
    /\ UNCHANGED <<locks, tcp, secure, conn, life, status, late, owed>>

\* OpcUa_SecureConnection_Disconnect by the State it finds: an open connection
\* is closed with a message to the server, one that is being opened without,
\* and anything else only tells the owner and returns BadInvalidState.
Close ==
    /\ pc["user"] = "close" /\ req = Free
    /\ \/ /\ sc = "Connected" /\ tcp = "Connected"
          /\ sc' = "DisconnectingSecure"
          /\ Goto("user", "closeSend") /\ UNCHANGED call
       \/ /\ sc = "Connected"           \* the message cannot be made
          /\ sc' = "Disconnected"
          /\ call' = [call EXCEPT !.sent = FALSE] /\ Goto("user", "drop")
       \/ /\ sc \in {"ConnectingTransport", "ConnectingSecure"}
          /\ sc' = "Disconnected"
          /\ call' = [call EXCEPT !.sent = TRUE] /\ Goto("user", "drop")
       \/ /\ sc \in {"Disconnected", "DisconnectingSecure", "Unknown"}
          /\ call' = [call EXCEPT !.sent = FALSE] /\ Goto("user", "report")
          /\ UNCHANGED sc
    /\ NoEvent
    /\ UNCHANGED <<locks, tcp, sccb, opn, conn, async>>

CloseSend ==
    /\ pc["user"] = "closeSend" /\ req = Free
    /\ IF sc \in {"Connected", "DisconnectingSecure"}
       THEN Goto("user", "closeWrite") /\ UNCHANGED call
       ELSE Goto("user", "closed") /\ call' = [call EXCEPT !.sent = FALSE]
    /\ NoEvent
    /\ UNCHANGED <<locks, tcp, secure, conn, async>>

\* The CloseSecureChannel message is written at once; or it has to wait for the
\* socket, and Disconnect for the server to close; or it fails; or the write
\* finds that the connection is broken and reports that first.
CloseWrite ==
    /\ pc["user"] = "closeWrite"
    /\ \/ /\ tcp = "Connected"
          /\ \E label \in {"closed", "dAwait"} : Goto("user", label)
          /\ call' = [call EXCEPT !.sent = TRUE]
          /\ UNCHANGED <<tcp, after, ev>>
       \/ /\ call' = [call EXCEPT !.sent = FALSE]
          /\ Goto("user", "closed")
          /\ UNCHANGED <<tcp, after, ev>>
       \/ /\ tcp # "Disconnected"
          /\ call' = [call EXCEPT !.sent = FALSE]
          /\ tcp' = "Disconnected" /\ Raise("user", "disconnect", "closed")
    /\ UNCHANGED <<locks, secure, conn, async, tell>>

Closed ==
    /\ pc["user"] = "closed" /\ req = Free
    /\ sc' = "Disconnected"
    /\ Goto("user", "drop")
    /\ NoEvent
    /\ UNCHANGED <<locks, tcp, sccb, opn, conn, async, call>>

\* OpcUa_TcpConnection_Disconnect does nothing in state Error.
DropTransport ==
    tcp' = IF tcp \in {"Connecting", "Connected"} THEN "Disconnected" ELSE tcp

Drop ==
    /\ pc["user"] = "drop"
    /\ DropTransport
    /\ Goto("user", "report")
    /\ NoEvent
    /\ UNCHANGED <<locks, secure, conn, async, call>>

\* The owner is told on the thread of the caller, without the RequestMutex.
Report ==
    /\ pc["user"] = "report"
    /\ CallBack("user", "lost")
    /\ Goto("user", IF call.sent THEN "dAwait" ELSE "return")
    /\ NoEvent
    /\ UNCHANGED <<locks, tcp, secure, conn, call>>

DisconnectCompleted ==
    /\ Completed("dAwait", call.disconnect, "return")
    /\ NoEvent
    /\ UNCHANGED <<locks, tcp, secure, conn, async, call>>

\* Mutated form of DisconnectExpired: once the server has been asked to close,
\* Disconnect waits for it without limit.
DisconnectPatient ==
    /\ Expired("dAwait", call.disconnect, "dExpired")
    /\ sc # "DisconnectingSecure"
    /\ NoEvent
    /\ UNCHANGED <<locks, tcp, secure, conn, async, call>>

DisconnectExpired ==
    /\ Expired("dAwait", call.disconnect, "dExpired")
    /\ NoEvent
    /\ UNCHANGED <<locks, tcp, secure, conn, async, call>>

\* Disconnect gave up: the transport is disconnected, which is reported.
DisconnectAbandoned ==
    /\ pc["user"] = "dExpired"
    /\ Abandoned(call.disconnect)
    /\ DropTransport
    /\ IF tcp \in {"Connecting", "Connected"} THEN Raise("user", "disconnect", "return")
       ELSE Goto("user", "return") /\ UNCHANGED <<after, ev>>
    /\ UNCHANGED <<locks, secure, conn, cb, life, late, owed, tell, call>>

DisconnectReturns ==
    /\ pc["user"] = "return"
    /\ Delete(call.disconnect)
    /\ call' = [call EXCEPT !.disconnect = NoState]
    /\ Goto("user", Caller)
    /\ NoEvent
    /\ UNCHANGED <<locks, tcp, secure, conn, cb, status, late, owed>>

-----------------------------------------------------------------------------
(* OpcUa_Channel_Clear, which the application calls when nobody sends.      *)

Clear ==
    /\ pc["user"] = "out" /\ \A s \in Senders : pc[s] = "idle"
    /\ Goto("user", "clear") /\ owed' = FALSE
    /\ NoEvent
    /\ UNCHANGED <<locks, tcp, secure, conn, cb, life, status, late, call>>

\* The Mutex is taken and given back; then the transport connection is deleted.
ClearTransport ==
    /\ pc["user"] = "clear" /\ chan = Free
    /\ tcp' = "Disconnected"
    /\ Goto("user", "clearing")
    /\ NoEvent
    /\ UNCHANGED <<locks, secure, conn, async, call>>

\* The transport thread has ended: the secure connection and the channel go.
Cleared ==
    /\ pc["user"] = "clearing" /\ pc["net"] = "idle" /\ chan = Free
    /\ conn' = FALSE
    /\ sc' = "Disconnected" /\ sccb' = FALSE /\ opn' = FALSE
    /\ cb' = Null
    /\ Goto("user", "gone")
    /\ NoEvent
    /\ UNCHANGED <<locks, tcp, life, status, late, owed, call>>

-----------------------------------------------------------------------------
OpenStep == Opening \/ OpenSend \/ OpenWrite \/ OpenBroken \/ OpenFailed

NotifyStep(t) == NotifyConnect(t) \/ Notify(t) \/ NotifyTell(t)

ConnectStep ==
    BeginConnect \/ BeginConnectJoined \/ Start \/ ConnectCompleted
        \/ ConnectExpired \/ ConnectAbandoned \/ Settle

DisconnectStep ==
    ReplaceCallback \/ Close \/ CloseSend \/ CloseWrite \/ Closed \/ Drop \/ Report
        \/ DisconnectCompleted \/ DisconnectExpired \/ DisconnectAbandoned
        \/ DisconnectReturns

SendStep(s) == SendBegin(s) \/ SendEnd(s) \/ SendWrite(s) \/ SendDone(s)

Next ==
    \/ Connect \/ ConnectStep
    \/ Disconnect \/ DisconnectStep
    \/ Clear \/ ClearTransport \/ Cleared
    \/ SocketEvent \/ Handle \/ OpenStep
    \/ \E t \in Threads : NotifyStep(t)
    \/ \E s \in Senders : Send(s) \/ SendStep(s)

Spec == Init /\ [][Next]_vars

\* The threads run, waits time out, and a thread that waits for a mutex gets it
\* in the end although others take it in between.  Nothing is assumed of the
\* peer, of the application's calls and of the requests it sends.
Fairness ==
    /\ SF_vars(ConnectStep \/ DisconnectStep \/ ClearTransport \/ Cleared)
    /\ SF_vars(Disconnect /\ pc["user"] = "reset")
    /\ SF_vars(Handle \/ OpenStep)
    /\ \A t \in Threads : SF_vars(NotifyStep(t))
    /\ \A s \in Senders : WF_vars(SendStep(s))

FairSpec == Spec /\ Fairness

-----------------------------------------------------------------------------
\* Whom a thread waits for: the holder of the mutex it needs, or the transport
\* thread that has to end.
WaitsFor(t) ==
    CASE /\ pc[t] \in {"notify", "opening", "openSend", "openFailed", "sendBegin",
                       "sendEnd", "close", "closeSend", "closed"}
         /\ req # Free                                       -> {req}
      [] pc[t] = "tell" /\ tell[t] # "none" /\ sccb /\ chan \notin {Free, t} -> {chan}
      [] pc[t] = "report" /\ sccb /\ chan # Free               -> {chan}
      [] pc[t] \in {"begin", "settle", "replace", "clear"} /\ chan # Free -> {chan}
      [] pc[t] \in {"join", "clearing"} /\ pc["net"] # "idle"  -> {"net"}
      [] OTHER -> {}

\* Threads that wait for each other in a circle.
LockCycle ==
    \E S \in SUBSET Threads : S # {} /\ \A t \in S : WaitsFor(t) \cap S # {}

\* Type correctness; each mutex is held by a thread that is in the region.
TypeOK ==
    /\ chan \in {Free, "user"} \union Senders
    /\ req \in {Free} \union Threads
    /\ tcp \in TcpStates /\ sc \in ScStates
    /\ sccb \in BOOLEAN /\ opn \in BOOLEAN /\ conn \in BOOLEAN /\ owed \in BOOLEAN
    /\ cb \in [to : {"null", "connect", "disconnect", "app"}, state : States \union {NoState}]
    /\ life \in [States -> {"unused", "live", "deleted"}]
    /\ status \in [States -> {"waiting", "good", "bad", "abandoned"}]
    /\ late \subseteq States
    /\ tell \in [Threads -> {"none", "connected", "failed", "lost"}]
    /\ chan = "user" <=> pc["user"] = "join"
    /\ \A t \in Threads : req = t <=> pc[t] = "tell"
    /\ \A s \in Senders : chan = s <=> pc[s] # "idle"

\* A connection that is lost after Connect returned with Good, or while it was
\* about to, is never lost on the application: the connection is still up, or a
\* thread is on its way to say that it is not.
LossIsTold ==
    owed =>
        /\ cb.to = "app"
        /\ \/ sc = "Connected" /\ tcp = "Connected"
           \/ \E t \in Threads : pc[t] = "notify" /\ ev[t] \in {"disconnect", "error"}
           \/ \E t \in Threads : tell[t] = "lost"

\* Whoever waits for the completion of a Connect or a Disconnect can still be
\* told of it: its callback is installed and the connection is in a state whose
\* end will be reported.  The timeout never has to make up for a lost report.
WaitsForSomeone ==
    /\ pc["user"] = "await" /\ status[call.connect] = "waiting" =>
        /\ cb = [to |-> "connect", state |-> call.connect] /\ sccb
        /\ \/ sc = "ConnectingTransport" /\ tcp = "Connecting"
           \/ sc = "ConnectingSecure" /\ tcp = "Connected" /\ opn
           \/ pc["net"] # "idle"
    /\ pc["user"] = "dAwait" /\ status[call.disconnect] = "waiting" =>
        /\ cb = [to |-> "disconnect", state |-> call.disconnect] /\ sccb
        /\ \/ sc = "DisconnectingSecure" /\ tcp = "Connected"
           \/ \E t \in Threads : pc[t] \in {"notify", "tell"}

\* Connect, Disconnect and Clear return, whatever the peer and the transport do,
\* unless threads that lock in opposite orders stop each other.
CallsReturn ==
    pc["user"] \notin {"out", "gone"} ~> (pc["user"] \in {"out", "gone"} \/ LockCycle)

\* While a call waits for the transport thread to end, no event of that thread
\* waits for the caller (opcua_channel.c:129: "unlock the channel object during
\* the connection shutdown to allow events to check the channel state").
ShutdownLetsEventsIn ==
    pc["user"] \in {"join", "clearing"} => "user" \notin WaitsFor("net")

\* No AsyncCallState is signalled after it was deleted (opcua_asynccallstate.c:187:
\* "do not free async state object if timeout occurred (callback will happen
\* eventually)").
FreedStateUnused == late = {}
=============================================================================
