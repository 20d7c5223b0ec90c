------------------------- MODULE SecureConversation -------------------------
(***************************************************************************)
(* One secure connection from end to end: the client's SecureConnection    *)
(* (securechannel/opcua_secureconnection.c) against the server's           *)
(* SecureListener (opcua_securelistener.c, and opcua_endpoint.c above it)  *)
(* over a TCP connection that may break.                                   *)
(*                                                                         *)
(* Client threads: the transport thread runs OnNotify, the timer thread    *)
(* runs the renew timer and the request watchdog one after the other,      *)
(* application threads call BeginSendRequest, EndSendRequest, Disconnect.  *)
(* Server threads: the transport thread runs OnNotify and the lifetime     *)
(* watchdog, worker threads answer requests.                               *)
(*                                                                         *)
(* An action is one region under the connection's mutex, under the list    *)
(* lock of the pending requests, or under a channel lock.  A message is    *)
(* built under a token, and written after that, with the write mutex of    *)
(* the channel held in between: cWrite and sWrite are the messages between *)
(* the two.  A message is one chunk; sequence numbers and the asynchronous *)
(* send queue are left out.                                                *)
(***************************************************************************)
EXTENDS TcpSecureChannel, Sequences, FiniteSets

CONSTANTS
    Requests,       \* the session calls made over the connection
    MaxOpen,        \* bound: OpenSecureChannel requests the client makes
    LinkMayBreak,   \* whether the network may fail
    MayExpire       \* whether the lifetime watchdog may find a channel expired

ASSUME ConversationAssumption ==
    /\ IsFiniteSet(Requests)
    /\ MaxOpen \in Nat \ {0}
    /\ LinkMayBreak \in BOOLEAN /\ MayExpire \in BOOLEAN

VARIABLES
    cState,         \* State of the SecureConnection
    cChan,          \* its pSecureChannel
    bRenewActive,   \* "waiting for a renew response"
    opens,          \* OpenSecureChannel requests begun; the first is the issue
    opn,            \* progress of the one being sent
    pendingOpen,    \* pending requests of type SecureChannelOpen
    pending,        \* pending requests of type SessionCall
    req,            \* req[r]: progress of the call of request r
    outcomes,       \* outcomes[r]: callbacks and error returns r's caller saw
    disc,           \* progress of the call of Disconnect
    cWrite,         \* the message the client is writing: a queue of at most one
    sChan,          \* the server's channel
    listed,         \* whether the channel manager has it
    sOpn,           \* the OpenSecureChannel response being prepared, likewise
    working,        \* requests the server's application is working on
    sWrite,         \* the message the server is writing, likewise
    cUp, sUp, link, \* the two ends of the TCP connection and the network
    c2s, s2c        \* what is on the wire

client == <<cState, cChan, bRenewActive>>
opening == <<opens, opn, pendingOpen>>
calls  == <<pending, req, outcomes>>
server == <<sChan, listed, sOpn, working, sWrite>>
net    == <<cUp, sUp, link, c2s, s2c>>
vars   == <<client, opening, calls, disc, cWrite, server, net>>

ConnStates == {"Disconnected", "ConnectingTransport", "ConnectingSecure",
               "Connected", "DisconnectingSecure", "Unknown"}
OpnStates  == {"idle", "requested", "begun", "registered"}
ReqStates  == {"idle", "begun", "registered", "writing", "returned"}
DiscStates == {"idle", "begun", "writing", "sent", "failed", "closing", "abandon",
               "cancel", "returned"}

OPN(n, token) == [type |-> "OPN", id |-> n, token |-> token]
MSG(r, token) == [type |-> "MSG", id |-> r, token |-> token]
CLO(token)    == [type |-> "CLO", id |-> 0, token |-> token]

Message == [type : {"OPN"}, id : 1 .. MaxOpen, token : Nat]
             \union [type : {"MSG"}, id : Requests, token : Nat]
             \union [type : {"CLO"}, id : {0}, token : Nat]

\* OpcUa_SecureConnection_Create; the listener is open and has no channel yet.
Init ==
    /\ cState = "Disconnected" /\ cChan = Create /\ bRenewActive = FALSE
    /\ opens = 0 /\ opn = "idle" /\ pendingOpen = {}
    /\ pending = {}
    /\ req = [r \in Requests |-> "idle"]
    /\ outcomes = [r \in Requests |-> 0]
    /\ disc = "idle" /\ cWrite = <<>>
    /\ sChan = Create /\ listed = FALSE /\ sOpn = <<>> /\ working = {} /\ sWrite = <<>>
    /\ cUp = FALSE /\ sUp = FALSE /\ link = TRUE
    /\ c2s = <<>> /\ s2c = <<>>

\* What is written to a connection whose other end is gone is lost.
ToServer(m) == c2s' = IF link /\ sUp THEN Append(c2s, m) ELSE c2s
ToClient(m) == s2c' = IF link /\ cUp THEN Append(s2c, m) ELSE s2c

\* A write cannot fail while the connection is whole, and cannot succeed on a closed end.
Whole == cUp /\ sUp /\ link

\* The requests in rs are taken from the pending ones and their callbacks called.
Answer(rs) ==
    /\ pending' = pending \ rs
    /\ outcomes' = [r \in Requests |-> outcomes[r] + (IF r \in rs THEN 1 ELSE 0)]

\* The first request is sent by the transport thread, a renewal by the timer thread.
TransportThreadFree == opn = "idle" \/ opens # 1
TimerThreadFree     == opn = "idle" \/ opens = 1

-----------------------------------------------------------------------------
(* Connecting and renewing: OpcUa_SecureConnection_Connect, the Connect    *)
(* event of OnNotify, RenewTimerCallback, BeginOpenSecureChannel and       *)
(* EndSendOpenSecureChannelRequest.  A channel object of the proxy makes a *)
(* new SecureConnection for every connect, so Connect is called once.      *)

Connect ==
    /\ cState = "Disconnected" /\ opens = 0 /\ disc = "idle"
    /\ cState' = "ConnectingTransport"
    /\ UNCHANGED <<cChan, bRenewActive, opening, calls, disc, cWrite, server, net>>

\* The transport is connected: the listener opens a channel for the connection,
\* the client goes on to request a token.
OnConnect ==
    /\ cState = "ConnectingTransport" /\ opens = 0
    /\ cUp' = TRUE /\ sUp' = TRUE
    /\ listed' = TRUE
    /\ opens' = 1 /\ opn' = "requested"
    /\ UNCHANGED <<client, pendingOpen, calls, disc, cWrite, sChan, sOpn, working, sWrite,
                   link, c2s, s2c>>

OnConnectFailed ==
    /\ cState = "ConnectingTransport" /\ opens = 0
    /\ cState' = "Unknown"
    /\ UNCHANGED <<cChan, bRenewActive, opening, calls, disc, cWrite, server, net>>

\* RenewTimerCallback, periodic from the first token on.
RenewTimer ==
    /\ cState = "Connected" /\ TimerThreadFree /\ ~bRenewActive
    /\ opens < MaxOpen
    /\ bRenewActive' = TRUE
    /\ opens' = opens + 1 /\ opn' = "requested"
    /\ UNCHANGED <<cState, cChan, pendingOpen, calls, disc, cWrite, server, net>>

\* BeginOpenSecureChannel up to its unlock.  A renewal that fails clears bRenewActive.
BeginOpenSecureChannel ==
    /\ opn = "requested"
    /\ IF cState = (IF opens = 1 THEN "ConnectingTransport" ELSE "Connected")
         THEN /\ opn' = "begun"
              /\ cState' = IF opens = 1 THEN "ConnectingSecure" ELSE cState
              /\ UNCHANGED bRenewActive
         ELSE /\ opn' = "idle"
              /\ bRenewActive' = FALSE
              /\ UNCHANGED cState
    /\ UNCHANGED <<cChan, opens, pendingOpen, calls, disc, cWrite, server, net>>

RegisterOpen ==
    /\ opn = "begun"
    /\ pendingOpen' = pendingOpen \union {opens}
    /\ opn' = "registered"
    /\ UNCHANGED <<client, opens, calls, disc, cWrite, server, net>>

SendOpen ==
    /\ opn = "registered" /\ cWrite = <<>> /\ cUp
    /\ ToServer(OPN(opens, 0))
    /\ opn' = "idle"
    /\ UNCHANGED <<client, opens, pendingOpen, calls, disc, cWrite, server, cUp, sUp, link, s2c>>

\* The request could not be sent.  If it is no longer pending, somebody else has
\* reported to its owner and the call returns OpcUa_Good all the same.
SendOpenFails ==
    /\ opn = "registered" /\ cWrite = <<>> /\ ~Whole
    /\ opn' = "idle"
    /\ pendingOpen' = pendingOpen \ {opens}
    /\ bRenewActive' = (bRenewActive /\ opens \notin pendingOpen)
    /\ UNCHANGED <<cState, cChan, opens, calls, disc, cWrite, server, net>>

-----------------------------------------------------------------------------
(* A session call: BeginSendRequest, EndSendRequest, the request watchdog. *)

BeginSendRequest(r) ==
    /\ req[r] = "idle"
    /\ cState = "Connected" /\ cChan.State = "Opened"
    /\ req' = [req EXCEPT ![r] = "begun"]
    /\ UNCHANGED <<client, opening, pending, outcomes, disc, cWrite, server, net>>

\* Mutated form of EndSendRequest: the state is not checked.
EndSendUnchecked(r) ==
    /\ req[r] = "begun"
    /\ pending' = pending \union {r}
    /\ req' = [req EXCEPT ![r] = "registered"]
    /\ UNCHANGED <<client, opening, outcomes, disc, cWrite, server, net>>

\* EndSendRequest under the mutex: the request becomes pending or is refused.
EndSendRequest(r) ==
    /\ req[r] = "begun"
    /\ IF cState \in {"Connected", "DisconnectingSecure"}
         THEN /\ pending' = pending \union {r}
              /\ req' = [req EXCEPT ![r] = "registered"]
              /\ UNCHANGED outcomes
         ELSE /\ req' = [req EXCEPT ![r] = "returned"]
              /\ outcomes' = [outcomes EXCEPT ![r] = @ + 1]
              /\ UNCHANGED pending
    /\ UNCHANGED <<client, opening, disc, cWrite, server, net>>

\* The flush takes the write mutex and the token to send under ...
SecureRequest(r) ==
    /\ req[r] = "registered" /\ cWrite = <<>>
    /\ cWrite' = <<MSG(r, SendToken(cChan))>>
    /\ req' = [req EXCEPT ![r] = "writing"]
    /\ UNCHANGED <<client, opening, pending, outcomes, disc, server, net>>

\* ... and the chunk is written.
WriteRequest(r) ==
    /\ req[r] = "writing" /\ cUp
    /\ ToServer(cWrite[1])
    /\ cWrite' = <<>>
    /\ req' = [req EXCEPT ![r] = "returned"]
    /\ UNCHANGED <<client, opening, pending, outcomes, disc, server, cUp, sUp, link, s2c>>

\* Mutated forms of WriteRequestFails: the caller is told in any case, or never.
WriteFailsLoudly(r) ==
    /\ req[r] = "writing" /\ ~Whole
    /\ cWrite' = <<>>
    /\ req' = [req EXCEPT ![r] = "returned"]
    /\ pending' = pending \ {r}
    /\ outcomes' = [outcomes EXCEPT ![r] = @ + 1]
    /\ UNCHANGED <<client, opening, disc, server, net>>

WriteFailsSilently(r) ==
    /\ req[r] = "writing" /\ ~Whole
    /\ cWrite' = <<>>
    /\ req' = [req EXCEPT ![r] = "returned"]
    /\ pending' = pending \ {r}
    /\ UNCHANGED <<client, opening, outcomes, disc, server, net>>

\* A failed write is returned to the caller, unless the request is no longer
\* pending: then its callback has told the caller.
WriteRequestFails(r) ==
    /\ req[r] = "writing" /\ ~Whole
    /\ cWrite' = <<>>
    /\ req' = [req EXCEPT ![r] = "returned"]
    /\ Answer(pending \intersect {r})
    /\ UNCHANGED <<client, opening, disc, server, net>>

WatchdogTimer(r) ==
    /\ r \in pending /\ TimerThreadFree
    /\ Answer({r})
    /\ UNCHANGED <<client, opening, req, disc, cWrite, server, net>>

\* Mutated form of WatchdogTimerOpen: the flag goes with the request.
TimeoutClearsFlag ==
    /\ TimerThreadFree
    /\ \E n \in pendingOpen \ {1} : pendingOpen' = pendingOpen \ {n}
    /\ bRenewActive' = FALSE
    /\ UNCHANGED <<cState, cChan, opens, opn, calls, disc, cWrite, server, net>>

\* A renewal has a timeout, the first request has none.  The callback of a
\* renewal frees the request and leaves bRenewActive.
WatchdogTimerOpen ==
    /\ TimerThreadFree
    /\ \E n \in pendingOpen \ {1} : pendingOpen' = pendingOpen \ {n}
    /\ UNCHANGED <<client, opens, opn, calls, disc, cWrite, server, net>>

-----------------------------------------------------------------------------
(* The client's transport thread: OnNotify, under the connection's mutex.  *)

\* ProcessOpenSecureChannelResponse.  The error path takes the pending request
\* of type SecureChannelOpen, whichever it is; there is at most one.
ProcessOpenSecureChannelResponse(m) ==
    /\ IF cState \in {"Connected", "ConnectingSecure"} /\ m.id \in pendingOpen
         THEN /\ pendingOpen' = pendingOpen \ {m.id}
              /\ cChan' = IF bRenewActive
                            THEN GetSecuritySet(Renew(cChan, m.token), m.token)
                            ELSE Open(cChan, m.token)
              /\ bRenewActive' = FALSE
              /\ cState' = "Connected"
         ELSE /\ pendingOpen' = {}
              /\ UNCHANGED client
    /\ UNCHANGED calls

\* ProcessSessionCallResponse; what it returns is ignored by OnNotify.
ProcessSessionCallResponse(m) ==
    /\ IF Knows(cChan, m.token)
         THEN /\ cChan' = GetSecuritySet(cChan, m.token)
              /\ Answer(pending \intersect {m.id})
         ELSE UNCHANGED <<cChan, pending, outcomes>>
    /\ UNCHANGED <<cState, bRenewActive, pendingOpen, req>>

OnResponse ==
    /\ cUp /\ s2c # <<>> /\ TransportThreadFree
    /\ s2c' = Tail(s2c)
    /\ \/ Head(s2c).type = "OPN" /\ ProcessOpenSecureChannelResponse(Head(s2c))
       \/ Head(s2c).type = "MSG" /\ ProcessSessionCallResponse(Head(s2c))
    /\ UNCHANGED <<opens, opn, disc, cWrite, server, cUp, sUp, link, c2s>>

\* The Disconnect event: the server's end or the network is gone.
OnDisconnect ==
    /\ cUp /\ s2c = <<>> /\ ~(sUp /\ link) /\ TransportThreadFree
    /\ cUp' = FALSE
    /\ IF cState \in {"Connected", "DisconnectingSecure", "ConnectingSecure", "ConnectingTransport"}
         THEN cState' = "Disconnected" ELSE UNCHANGED cState
    /\ IF cState \in {"Connected", "DisconnectingSecure"}
         THEN Answer(pending) ELSE UNCHANGED <<pending, outcomes>>
    /\ pendingOpen' = IF cState \in {"Connected", "DisconnectingSecure", "ConnectingSecure"}
                        THEN {} ELSE pendingOpen
    /\ UNCHANGED <<cChan, bRenewActive, opens, opn, req, disc, cWrite, server, sUp, link, c2s, s2c>>

-----------------------------------------------------------------------------
(* OpcUa_SecureConnection_Disconnect.                                      *)

\* Outside the states below Disconnect returns OpcUa_BadInvalidState.
Disconnect ==
    /\ disc = "idle"
    /\ \/ /\ cState = "Connected"
          /\ cState' = "DisconnectingSecure" /\ disc' = "begun"
       \/ /\ cState \in {"ConnectingTransport", "ConnectingSecure"}
          /\ cState' = "Disconnected" /\ disc' = "abandon"
    /\ UNCHANGED <<cChan, bRenewActive, opening, calls, cWrite, server, net>>

\* EndSendRequest for the CloseSecureChannel request, which has no callback.
SecureClose ==
    /\ disc = "begun"
    /\ IF cState \in {"Connected", "DisconnectingSecure"}
         THEN cWrite = <<>> /\ cWrite' = <<CLO(SendToken(cChan))>> /\ disc' = "writing"
         ELSE disc' = "failed" /\ UNCHANGED cWrite
    /\ UNCHANGED <<client, opening, calls, server, net>>

\* With an asynchronous write under way Disconnect leaves the rest to the peer.
WriteClose ==
    /\ disc = "writing" /\ cUp
    /\ ToServer(cWrite[1])
    /\ cWrite' = <<>>
    /\ disc' \in {"sent", "returned"}
    /\ UNCHANGED <<client, opening, calls, server, cUp, sUp, link, s2c>>

WriteCloseFails ==
    /\ disc = "writing" /\ ~Whole
    /\ cWrite' = <<>>
    /\ disc' = "failed"
    /\ UNCHANGED <<client, opening, calls, server, net>>

SetDisconnected ==
    /\ disc \in {"sent", "failed"}
    /\ cState' = "Disconnected"
    /\ disc' = "closing"
    /\ UNCHANGED <<cChan, bRenewActive, opening, calls, cWrite, server, net>>

\* The transport is disconnected without a notification.
DisconnectTransport ==
    /\ disc \in {"closing", "abandon"}
    /\ cUp' = FALSE
    /\ disc' = IF disc = "closing" THEN "cancel" ELSE "returned"
    /\ UNCHANGED <<client, opening, calls, cWrite, server, sUp, link, c2s, s2c>>

CancelOpenRequests ==
    /\ disc = "cancel"
    /\ pendingOpen' = {}
    /\ Answer(pending)
    /\ disc' = "returned"
    /\ UNCHANGED <<client, opens, opn, req, cWrite, server, net>>

-----------------------------------------------------------------------------
(* The server's transport thread: OnNotify and ProcessRequest.             *)

\* The error path of ProcessRequest closes the channel of the connection and
\* with it the connection; without a channel the connection stays.
CloseOnError(ch) ==
    /\ sChan' = IF listed THEN Close(ch) ELSE sChan
    /\ sUp' = (sUp /\ ~listed)

\* The first request is for the channel the connection was opened with, a
\* renewal for the channel it names.
ProcessOpenSecureChannelRequest(m) ==
    LET token == NewToken(sChan)
        ch    == TakeToken(sChan)
    IN  /\ IF listed /\ (m.id = 1 => sChan.State = "Unknown")
             THEN /\ sChan' = IF m.id = 1 THEN Open(ch, token) ELSE Renew(ch, token)
                  /\ sOpn' = <<OPN(m.id, token)>>
                  /\ UNCHANGED sUp
             ELSE CloseOnError(sChan) /\ UNCHANGED sOpn
        /\ UNCHANGED working

\* The endpoint prepares the response before it invokes the service, which fails
\* on a channel that is not open.
ProcessSessionCallRequest(m) ==
    LET ch == GetSecuritySet(sChan, m.token)
    IN  /\ IF listed /\ Knows(sChan, m.token) /\ ch.State = "Opened"
             THEN sChan' = ch /\ working' = working \union {m.id} /\ UNCHANGED sUp
             ELSE CloseOnError(ch) /\ UNCHANGED working
        /\ UNCHANGED sOpn

\* A closed channel answers with OpcUa_BadDisconnect, the error path does the rest.
ProcessCloseSecureChannelRequest(m) ==
    /\ IF listed /\ ~Knows(sChan, m.token)
         THEN sUp' = FALSE /\ UNCHANGED sChan
         ELSE CloseOnError(GetSecuritySet(sChan, m.token))
    /\ UNCHANGED <<sOpn, working>>

OnRequest ==
    /\ sUp /\ c2s # <<>> /\ sOpn = <<>>
    /\ c2s' = Tail(c2s)
    /\ \/ Head(c2s).type = "OPN" /\ ProcessOpenSecureChannelRequest(Head(c2s))
       \/ Head(c2s).type = "MSG" /\ ProcessSessionCallRequest(Head(c2s))
       \/ Head(c2s).type = "CLO" /\ ProcessCloseSecureChannelRequest(Head(c2s))
    /\ UNCHANGED <<client, opening, calls, disc, cWrite, listed, sWrite, cUp, link, s2c>>

\* SendOpenSecureChannelResponse, with the new token taken but not yet announced.
SendOpenResponse ==
    /\ sOpn # <<>> /\ sWrite = <<>>
    /\ ToClient(sOpn[1])
    /\ sOpn' = <<>>
    /\ UNCHANGED <<client, opening, calls, disc, cWrite, sChan, listed, working, sWrite,
                   cUp, sUp, link, c2s>>

SendOpenResponseFails ==
    /\ sOpn # <<>> /\ sWrite = <<>> /\ ~Whole
    /\ CloseOnError(sChan)
    /\ sOpn' = <<>>
    /\ UNCHANGED <<client, opening, calls, disc, cWrite, listed, working, sWrite,
                   cUp, link, c2s, s2c>>

\* The ChannelClosed event.
OnChannelClosed ==
    /\ sUp /\ c2s = <<>> /\ ~(cUp /\ link) /\ sOpn = <<>>
    /\ sUp' = FALSE
    /\ UNCHANGED <<client, opening, calls, disc, cWrite, server, cUp, link, c2s, s2c>>

-----------------------------------------------------------------------------
(* The server's worker threads and its lifetime watchdog.                  *)

\* EndSendResponse: under the token that is current now, not the request's.
SecureResponse(r) ==
    /\ r \in working /\ sWrite = <<>>
    /\ sUp /\ sChan.State = "Opened"
    /\ sWrite' = <<MSG(r, SendToken(sChan))>>
    /\ UNCHANGED <<client, opening, calls, disc, cWrite, sChan, listed, sOpn, working, net>>

WriteResponse ==
    /\ sWrite # <<>>
    /\ IF sUp THEN ToClient(sWrite[1]) ELSE UNCHANGED s2c
    /\ sWrite' = <<>>
    /\ working' = working \ {sWrite[1].id}
    /\ UNCHANGED <<client, opening, calls, disc, cWrite, sChan, listed, sOpn, cUp, sUp, link, c2s>>

\* The connection or the channel is gone: the response is dropped.
CancelSendResponse(r) ==
    /\ r \in working /\ sWrite = <<>>
    /\ ~(sUp /\ sChan.State = "Opened")
    /\ working' = working \ {r}
    /\ UNCHANGED <<client, opening, calls, disc, cWrite, sChan, listed, sOpn, sWrite, net>>

\* The counters of the channel have run down.  A channel in use is closed, one
\* that nobody holds is removed; its connection stays.
ChannelTimeout ==
    /\ MayExpire /\ listed
    /\ IF working = {} /\ sOpn = <<>>
         THEN listed' = FALSE /\ UNCHANGED sChan
         ELSE /\ sChan.State = "Opened"
              /\ sChan' = Close(sChan) /\ UNCHANGED listed
    /\ UNCHANGED <<client, opening, calls, disc, cWrite, sOpn, working, sWrite, net>>

LinkBreaks ==
    /\ LinkMayBreak /\ Whole
    /\ link' = FALSE
    /\ c2s' = <<>> /\ s2c' = <<>>
    /\ UNCHANGED <<client, opening, calls, disc, cWrite, server, cUp, sUp>>

-----------------------------------------------------------------------------
Opening == \/ RenewTimer \/ BeginOpenSecureChannel \/ RegisterOpen
           \/ SendOpen \/ SendOpenFails

Call(r) == \/ BeginSendRequest(r) \/ EndSendRequest(r) \/ SecureRequest(r)
           \/ WriteRequest(r) \/ WriteRequestFails(r)

Disconnecting == \/ Disconnect \/ SecureClose \/ WriteClose \/ WriteCloseFails
                 \/ SetDisconnected \/ DisconnectTransport \/ CancelOpenRequests

OnNotify == Connect \/ OnConnect \/ OnConnectFailed \/ OnResponse \/ OnDisconnect

Listener == \/ OnRequest \/ SendOpenResponse \/ SendOpenResponseFails \/ OnChannelClosed
            \/ WriteResponse \/ ChannelTimeout

Next ==
    \/ Opening \/ OnNotify \/ WatchdogTimerOpen \/ Disconnecting
    \/ Listener \/ LinkBreaks
    \/ \E r \in Requests : \/ Call(r) \/ WatchdogTimer(r)
                           \/ SecureResponse(r) \/ CancelSendResponse(r)

Spec == Init /\ [][Next]_vars

\* A thread inside a call goes on, and the timer thread runs its timers.  Nothing
\* is assumed of the server or of the network.
Fairness ==
    /\ \A r \in Requests : /\ WF_vars(req[r] # "idle" /\ Call(r))
                           /\ WF_vars(WatchdogTimer(r))
    /\ WF_vars(opn # "idle" /\ Opening)
    /\ WF_vars(disc # "idle" /\ Disconnecting)

FairSpec == Spec /\ Fairness

-----------------------------------------------------------------------------
(* The connection as its callers see it.                                   *)

\* The session calls among the messages of q.
Ids(q) == {q[i].id : i \in {k \in 1 .. Len(q) : q[k].type = "MSG"}}

\* How far each call has come.
Progress ==
    [r \in Requests |-> IF req[r] \in {"idle", "returned"} THEN req[r] ELSE "inside"]

\* The connection was asked for, and is over.
Ended == cState = "Disconnected" /\ (opens > 0 \/ disc # "idle")

Calls == INSTANCE RemoteCalls WITH
    call <- Progress, waiting <- pending, heard <- outcomes,
    sent <- Ids(c2s), executing <- working, replied <- Ids(s2c), ended <- Ended

-----------------------------------------------------------------------------
(* Properties.                                                             *)

TypeOK ==
    /\ cState \in ConnStates
    /\ cChan \in Channel /\ sChan \in Channel
    /\ bRenewActive \in BOOLEAN /\ listed \in BOOLEAN
    /\ opens \in 0 .. MaxOpen /\ opn \in OpnStates
    /\ pendingOpen \in SUBSET (1 .. MaxOpen)
    /\ pending \in SUBSET Requests /\ working \in SUBSET Requests
    /\ req \in [Requests -> ReqStates]
    /\ outcomes \in [Requests -> Nat]
    /\ disc \in DiscStates
    /\ cWrite \in Seq(Message) /\ Len(cWrite) <= 1
    /\ sWrite \in Seq(Message) /\ Len(sWrite) <= 1
    /\ sOpn \in Seq(Message) /\ Len(sOpn) <= 1
    /\ cUp \in BOOLEAN /\ sUp \in BOOLEAN /\ link \in BOOLEAN
    /\ c2s \in Seq(Message) /\ s2c \in Seq(Message)

\* Whatever renewals and timeouts happened in between, and although a token is
\* chosen some time before the message is written: the message a side receives
\* next is secured under a token whose keys that side still has.
TokensKnown ==
    /\ cUp /\ s2c # <<>> /\ Head(s2c).type = "MSG" => Knows(cChan, Head(s2c).token)
    /\ sUp /\ c2s # <<>> /\ Head(c2s).type # "OPN" => Knows(sChan, Head(c2s).token)

\* The two ends are never more than one renewal apart, the server ahead.
TokensInStep == cChan.Current <= sChan.Current /\ sChan.Current <= cChan.Current + 1

\* The caller of a session call hears of it once: by one callback or by one error
\* return, and not at all while the request is pending; and a call that has returned
\* is accounted for, its caller has heard or a request is pending.
AnsweredOnce ==
    \A r \in Requests :
        /\ outcomes[r] + (IF r \in pending THEN 1 ELSE 0) <= 1
        /\ req[r] = "returned" => outcomes[r] = 1 \/ r \in pending

\* When a connection has come to an end and the call of Disconnect that may have
\* ended it is past its cancellation, no request is left pending.
NobodyStranded ==
    cState = "Disconnected" /\ disc \notin {"closing", "cancel"} => pending = {}

\* For the application the two ends, their tokens and the wire between them are a
\* service that executes a request once at most and tells its caller once how it went,
\* and after the end of the connection lets nobody begin or start to wait.
ImplementsCalls == Calls!Spec

\* The caller of a session call hears of it.
RequestAnswered == \A r \in Requests : (req[r] = "registered") ~> (outcomes[r] = 1)

\* "Set to OpcUa_True while the Connection is waiting for a renew response": a
\* connected client that has the flag set is sending a renewal or has it pending.
RenewFlagMeansWaiting ==
    cState = "Connected" /\ bRenewActive => opn # "idle" \/ pendingOpen # {}
=============================================================================
