--------------------- MODULE SecureConversation_proofs ---------------------
(***************************************************************************)
(* Proofs about SecureConversation: for any number of calls and renewals,  *)
(* each side has the keys of every message it will receive, the two ends   *)
(* are at most one renewal apart, and a call is answered once at most and  *)
(* is not left behind by the end of the connection; and the connection     *)
(* implements RemoteCalls.                                                 *)
(***************************************************************************)
EXTENDS SecureConversation, TLAPS

-----------------------------------------------------------------------------
(* The inductive invariant of the calls.                                    *)

\* A request that is not registered yet was not answered and is not pending.
AnswerInv ==
    \A r \in Requests :
        /\ outcomes[r] <= 1
        /\ r \in pending => outcomes[r] = 0
        /\ req[r] \in {"idle", "begun"} => r \notin pending /\ outcomes[r] = 0

\* Requests are pending while the connection is open, and after that until
\* Disconnect cancels them.
PendingInv ==
    pending # {} =>
        \/ cState \in {"Connected", "DisconnectingSecure"}
        \/ cState = "Disconnected" /\ disc \in {"closing", "cancel"}

-----------------------------------------------------------------------------
(* The inductive invariant of the tokens.                                   *)

ClientToken == cChan.Current
ServerToken == sChan.Current

NoOpn(q) == \A i \in 1 .. Len(q) : q[i].type # "OPN"

\* What a channel keeps besides its current token is the token before it; the
\* server is at most one ahead, and then it sends under the one before, but for
\* its first token, when nobody has asked for anything yet.
ChannelInv ==
    /\ ClientToken = 0 => cChan.Previous = 0
    /\ ClientToken # 0 => cChan.Previous = ClientToken - 1 /\ cChan.bCurrentTokenActive
    /\ ServerToken = 0 => sChan.Previous = 0
    /\ ServerToken # 0 => sChan.Previous = ServerToken - 1
    /\ sChan.NextTokenId = ServerToken + 1
    /\ sChan.State = "Unknown" => ServerToken = 0
    /\ ServerToken = ClientToken \/ ServerToken = ClientToken + 1
    /\ sChan.bCurrentTokenActive /\ ServerToken # ClientToken => ClientToken = 0

\* No exchange of a token is under way and none was lost.
Settled == ServerToken = ClientToken /\ NoOpn(c2s) /\ NoOpn(s2c) /\ sOpn = <<>>

\* The flag tells a renewal from the first exchange.
FirstOrRenewal ==
    /\ opens >= 1 /\ (bRenewActive <=> opens > 1)
    /\ opens = 1 => ClientToken = 0

\* The request for a token that is on its way is the last one made, and the only.
RequestInv ==
    ~NoOpn(c2s) =>
        /\ FirstOrRenewal /\ opn = "idle"
        /\ ServerToken = ClientToken /\ NoOpn(s2c) /\ sOpn = <<>>
        /\ \A i \in 1 .. Len(c2s) : c2s[i].type = "OPN" => c2s[i].id = opens
        /\ \A i, j \in 1 .. Len(c2s) : c2s[i].type = "OPN" /\ c2s[j].type = "OPN" => i = j

\* So is the response to it, which brings the token the server is at.
ResponseInv ==
    sOpn # <<>> \/ ~NoOpn(s2c) =>
        /\ FirstOrRenewal /\ opn = "idle"
        /\ ServerToken = ClientToken + 1 /\ NoOpn(c2s)
        /\ sOpn = <<>> \/ NoOpn(s2c)
        /\ sOpn # <<>> => sOpn[1] = OPN(opens, ServerToken)
        /\ \A i \in 1 .. Len(s2c) :
            s2c[i].type = "OPN" => s2c[i].id = opens /\ s2c[i].token = ServerToken
        /\ \A i, j \in 1 .. Len(s2c) : s2c[i].type = "OPN" /\ s2c[j].type = "OPN" => i = j

\* A client asks for a token when the exchange before is over.
OpeningInv ==
    /\ opn # "idle" => FirstOrRenewal /\ Settled
    /\ cState = "Connected" /\ ~bRenewActive => Settled
    /\ opens = 0 => Settled /\ ClientToken = 0
    /\ bRenewActive => opens > 1

\* Who has a call to make or to answer has a token.
CallerInv ==
    cState \in {"Connected", "DisconnectingSecure"} \/ working # {}
        \/ (\E r \in Requests : req[r] # "idle") => ClientToken >= 1

\* What the client sent or is writing is under the server's token or the one
\* before, and after a request for a new one under the server's.
SentToServer ==
    \A i \in 1 .. Len(c2s) : c2s[i].type # "OPN" =>
        /\ ClientToken >= 1 /\ c2s[i].token <= ClientToken
        /\ c2s[i].token = ServerToken \/ c2s[i].token = ServerToken - 1
        /\ \A j \in 1 .. i - 1 : c2s[j].type = "OPN" => c2s[i].token = ServerToken

WrittenToServer ==
    cWrite # <<>> =>
        /\ cWrite[1].type # "OPN"
        /\ ClientToken >= 1 /\ cWrite[1].token <= ClientToken
        /\ cWrite[1].token = ServerToken \/ cWrite[1].token = ServerToken - 1
        /\ ~NoOpn(c2s) => cWrite[1].token = ServerToken

ToServerInv == SentToServer /\ WrittenToServer

\* What the server sent or is writing is under the client's token or the one
\* before, and after the response with a new one under the client's.
SentToClient ==
    \A i \in 1 .. Len(s2c) : s2c[i].type # "OPN" =>
        /\ ClientToken >= 1
        /\ s2c[i].token = ClientToken \/ s2c[i].token = ClientToken - 1
        /\ \A j \in 1 .. i - 1 : s2c[j].type = "OPN" => s2c[i].token = ClientToken

WrittenToClient ==
    sWrite # <<>> =>
        /\ sWrite[1].type # "OPN" /\ ClientToken >= 1
        /\ sWrite[1].token = ClientToken \/ sWrite[1].token = ClientToken - 1
        /\ ~NoOpn(s2c) => sWrite[1].token = ClientToken

ToClientInv == SentToClient /\ WrittenToClient

TokenInv ==
    /\ ChannelInv /\ RequestInv /\ ResponseInv /\ OpeningInv /\ CallerInv
    /\ ToServerInv /\ ToClientInv

IInv == TypeOK /\ AnswerInv /\ PendingInv /\ TokenInv

\* Whose message the client is writing; an invariant of its own.
WritingInv ==
    /\ \A r \in Requests : req[r] = "writing" =>
        cWrite # <<>> /\ cWrite[1].type = "MSG" /\ cWrite[1].id = r
    /\ disc = "writing" => cWrite # <<>> /\ cWrite[1].type = "CLO"

-----------------------------------------------------------------------------
(* The inductive invariant of what the callers see.                         *)

Returned == {r \in Requests : req[r] = "returned"}

\* No two messages of q belong to the same session call.
Distinct(q) ==
    \A i, j \in 1 .. Len(q) :
        q[i].type = "MSG" /\ q[j].type = "MSG" /\ q[i].id = q[j].id => i = j

\* A request whose call has returned is in one place at most: on its way to the
\* server, with the server's application, or on its way back as a response.
FlowInv ==
    /\ Distinct(c2s) /\ Distinct(s2c)
    /\ Ids(c2s) \intersect working = {} /\ Ids(c2s) \intersect Ids(s2c) = {}
    /\ working \intersect Ids(s2c) = {}
    /\ Ids(c2s) \subseteq Returned /\ working \subseteq Returned /\ Ids(s2c) \subseteq Returned
    /\ sWrite # <<>> => sWrite[1].type = "MSG" /\ sWrite[1].id \in working

\* From its registration on a call is accounted for.
HeardInv ==
    \A r \in Requests : req[r] \in {"registered", "writing", "returned"} =>
        outcomes[r] = 1 \/ r \in pending

CallsInv == FlowInv /\ HeardInv /\ (cUp => opens > 0)

\* Disconnect cancels on a connection that it has set disconnected.
EndInv == disc \in {"closing", "cancel"} => cState = "Disconnected"

-----------------------------------------------------------------------------
(* Channels, messages and queues.                                           *)

LEMMA OpenFields ==
    ASSUME NEW ch \in Channel, NEW t \in Nat
    PROVE  /\ Open(ch, t) \in Channel
           /\ Open(ch, t).State = "Opened" /\ Open(ch, t).Current = t
           /\ Open(ch, t).Previous = ch.Previous /\ Open(ch, t).bCurrentTokenActive = TRUE
           /\ Open(ch, t).NextTokenId = ch.NextTokenId
BY DEF Open, Channel, ChannelStates

LEMMA RenewFields ==
    ASSUME NEW ch \in Channel, NEW t \in Nat
    PROVE  /\ Renew(ch, t) \in Channel
           /\ Renew(ch, t).State = "Opened" /\ Renew(ch, t).Current = t
           /\ Renew(ch, t).Previous = ch.Current /\ Renew(ch, t).bCurrentTokenActive = FALSE
           /\ Renew(ch, t).NextTokenId = ch.NextTokenId
BY DEF Renew, Channel, ChannelStates

LEMMA CloseFields ==
    ASSUME NEW ch \in Channel
    PROVE  /\ Close(ch) \in Channel
           /\ Close(ch).State = "Closed" /\ Close(ch).Current = ch.Current
           /\ Close(ch).Previous = ch.Previous
           /\ Close(ch).bCurrentTokenActive = ch.bCurrentTokenActive
           /\ Close(ch).NextTokenId = ch.NextTokenId
BY DEF Close, Channel, ChannelStates

LEMMA TakeTokenFields ==
    ASSUME NEW ch \in Channel
    PROVE  /\ TakeToken(ch) \in Channel
           /\ TakeToken(ch).State = ch.State /\ TakeToken(ch).Current = ch.Current
           /\ TakeToken(ch).Previous = ch.Previous
           /\ TakeToken(ch).bCurrentTokenActive = ch.bCurrentTokenActive
           /\ TakeToken(ch).NextTokenId = ch.NextTokenId + 1
BY DEF TakeToken, Channel

LEMMA SecuritySetFields ==
    ASSUME NEW ch \in Channel, NEW t \in Nat
    PROVE  /\ GetSecuritySet(ch, t) \in Channel
           /\ GetSecuritySet(ch, t).State = ch.State
           /\ GetSecuritySet(ch, t).Current = ch.Current
           /\ GetSecuritySet(ch, t).Previous = ch.Previous
           /\ GetSecuritySet(ch, t).bCurrentTokenActive <=>
                ch.bCurrentTokenActive \/ t = ch.Current
           /\ GetSecuritySet(ch, t).NextTokenId = ch.NextTokenId
BY DEF GetSecuritySet, Channel

LEMMA MessageFields ==
    ASSUME NEW m \in Message
    PROVE  /\ m.token \in Nat
           /\ m.type = "OPN" => m.id \in 1 .. MaxOpen
           /\ m.type = "MSG" => m.id \in Requests
BY DEF Message

LEMMA Messages ==
    ASSUME NEW t \in Nat
    PROVE  /\ \A n \in 1 .. MaxOpen : OPN(n, t) \in Message
           /\ \A r \in Requests : MSG(r, t) \in Message
           /\ CLO(t) \in Message
BY DEF Message, OPN, MSG, CLO

LEMMA AppendFields ==
    ASSUME NEW q \in Seq(Message), NEW m \in Message
    PROVE  /\ Append(q, m) \in Seq(Message)
           /\ Len(Append(q, m)) = Len(q) + 1 /\ Len(q) \in Nat
           /\ \A i \in 1 .. Len(q) : Append(q, m)[i] = q[i]
           /\ Append(q, m)[Len(q) + 1] = m
           /\ \A i \in 1 .. Len(Append(q, m)) :
                \/ i \in 1 .. Len(q) /\ Append(q, m)[i] = q[i]
                \/ i = Len(q) + 1 /\ Append(q, m)[i] = m
OBVIOUS

LEMMA TailFields ==
    ASSUME NEW q \in Seq(Message), q # <<>>
    PROVE  /\ Tail(q) \in Seq(Message) /\ Head(q) = q[1] /\ q[1] \in Message
           /\ Len(q) \in Nat \ {0} /\ Len(Tail(q)) = Len(q) - 1
           /\ \A i \in 1 .. Len(q) - 1 : Tail(q)[i] = q[i + 1]
OBVIOUS

LEMMA OneMessage ==
    ASSUME NEW m \in Message
    PROVE  <<m>> \in Seq(Message) /\ Len(<<m>>) = 1 /\ <<m>>[1] = m /\ <<m>> # <<>>
OBVIOUS

-----------------------------------------------------------------------------
(* Calls.                                                                   *)

\* Callbacks are called for requests that were pending.
LEMMA AnswerKeeps ==
    ASSUME TypeOK, AnswerInv, NEW rs \in SUBSET pending, Answer(rs),
           \A r \in Requests : req'[r] \in {"idle", "begun"} => req[r] \in {"idle", "begun"}
    PROVE  /\ AnswerInv' /\ pending' = pending \ rs
           /\ outcomes' \in [Requests -> Nat] /\ pending' \in SUBSET Requests
<1>1. \A r \in Requests : outcomes'[r] = outcomes[r] + (IF r \in rs THEN 1 ELSE 0)
    BY DEF Answer
<1>2. outcomes \in [Requests -> Nat] /\ pending \in SUBSET Requests
    BY DEF TypeOK
<1>3. pending' = pending \ rs
    BY DEF Answer
<1>4. outcomes' \in [Requests -> Nat]
    BY <1>2 DEF Answer
<1>5. AnswerInv'
    BY <1>1, <1>2, <1>3 DEF AnswerInv
<1> QED BY <1>2, <1>3, <1>4, <1>5

\* The calls and the state stay as they are.
LEMMA CallsStay ==
    ASSUME IInv, UNCHANGED <<calls, cState, disc>>
    PROVE  AnswerInv' /\ PendingInv'
BY DEF IInv, AnswerInv, PendingInv, calls

-----------------------------------------------------------------------------
(* Tokens.                                                                  *)

\* No token is on its way that was not before: messages may get lost, the server
\* may close the channel, and who was making a call goes on or gives up.
TokensRest ==
    /\ UNCHANGED <<cChan, opens, sOpn>>
    /\ sChan' = sChan \/ sChan' = Close(sChan)
    /\ c2s' = c2s \/ c2s' = <<>>
    /\ s2c' = s2c \/ s2c' = <<>>
    /\ cWrite' = cWrite \/ cWrite' = <<>>
    /\ sWrite' = sWrite \/ sWrite' = <<>>
    /\ opn = "idle" => opn' = "idle"
    /\ bRenewActive' = bRenewActive \/ (bRenewActive' = FALSE /\ Settled /\ opn' = "idle")
    /\ cState' \in {"Connected", "DisconnectingSecure"} =>
        cState \in {"Connected", "DisconnectingSecure"}
    /\ cState' = "Connected" => cState = "Connected"
    /\ working' \subseteq working
    /\ \A r \in Requests : req'[r] # "idle" => req[r] # "idle" \/ ClientToken >= 1

LEMMA TokensStay ==
    ASSUME IInv, TokensRest
    PROVE  TokenInv'
<1> USE DEF ClientToken, ServerToken
<1>1. /\ ClientToken' = ClientToken /\ ServerToken' = ServerToken
      /\ sChan'.Previous = sChan.Previous /\ sChan'.NextTokenId = sChan.NextTokenId
      /\ sChan'.bCurrentTokenActive = sChan.bCurrentTokenActive
      /\ sChan'.State = "Unknown" => sChan.State = "Unknown"
      /\ cChan' = cChan /\ opens' = opens /\ sOpn' = sOpn
    BY CloseFields DEF TokensRest, IInv, TypeOK
<1>2. /\ NoOpn(c2s) => NoOpn(c2s')
      /\ NoOpn(s2c) => NoOpn(s2c')
    BY DEF TokensRest, NoOpn
<1>3. Settled => Settled'
    BY <1>1, <1>2 DEF Settled, NoOpn
<1>4. ChannelInv'
    BY <1>1 DEF IInv, TokenInv, ChannelInv
<1>5. RequestInv'
    <2>1. CASE NoOpn(c2s')
        BY <2>1 DEF RequestInv
    <2>2. CASE ~NoOpn(c2s')
        <3>1. c2s' = c2s /\ ~NoOpn(c2s) /\ ~Settled /\ RequestInv
            BY <1>2, <2>2 DEF TokensRest, IInv, TokenInv, Settled, NoOpn
        <3>2. bRenewActive' = bRenewActive /\ opn' = "idle"
            BY <3>1 DEF TokensRest, RequestInv
        <3> QED BY <1>1, <1>2, <3>1, <3>2 DEF RequestInv, FirstOrRenewal
    <2> QED BY <2>1, <2>2
<1>6. ResponseInv'
    <2>1. CASE sOpn' = <<>> /\ NoOpn(s2c')
        BY <2>1 DEF ResponseInv
    <2>2. CASE sOpn' # <<>> \/ ~NoOpn(s2c')
        <3>1. (s2c' = s2c \/ NoOpn(s2c')) /\ ~Settled /\ ResponseInv
            BY <1>1, <1>2, <2>2 DEF TokensRest, IInv, TokenInv, Settled, NoOpn
        <3>2. bRenewActive' = bRenewActive /\ opn' = "idle" /\ NoOpn(c2s')
            BY <1>1, <1>2, <2>2, <3>1 DEF TokensRest, ResponseInv
        <3>3. FirstOrRenewal' <=> FirstOrRenewal
            BY <1>1, <3>2 DEF FirstOrRenewal
        <3>4. CASE s2c' = s2c
            BY <1>1, <2>2, <3>1, <3>2, <3>3, <3>4 DEF ResponseInv
        <3>5. CASE NoOpn(s2c')
            BY <1>1, <2>2, <3>1, <3>2, <3>3, <3>5 DEF ResponseInv, NoOpn
        <3> QED BY <3>1, <3>4, <3>5
    <2> QED BY <2>1, <2>2
<1>7. OpeningInv'
    BY <1>1, <1>3 DEF IInv, TokenInv, OpeningInv, TokensRest, FirstOrRenewal
<1>8. CallerInv'
    BY <1>1 DEF IInv, TokenInv, CallerInv, TokensRest
<1>9. ToServerInv'
    BY <1>1, <1>2 DEF IInv, TokenInv, ToServerInv, SentToServer, WrittenToServer, TokensRest, NoOpn
<1>10. ToClientInv'
    BY <1>1, <1>2 DEF IInv, TokenInv, ToClientInv, SentToClient, WrittenToClient, TokensRest, NoOpn
<1> QED BY <1>4, <1>5, <1>6, <1>7, <1>8, <1>9, <1>10 DEF TokenInv

-----------------------------------------------------------------------------
(* The steps that bring no token.                                           *)

LEMMA RestKeeps ==
    ASSUME IInv, TypeOK', AnswerInv', PendingInv', TokensRest
    PROVE  IInv'
BY TokensStay DEF IInv

LEMMA ConnectKeeps ==
    ASSUME IInv, Connect \/ OnConnectFailed
    PROVE  IInv'
<1> USE DEF Connect, OnConnectFailed
<1>1. TypeOK'
    BY DEF IInv, TypeOK, ConnStates, opening, calls, server, net
<1>2. AnswerInv'
    BY DEF IInv, AnswerInv, calls
<1>3. PendingInv'
    BY DEF IInv, PendingInv, calls
<1>4. TokensRest
    BY DEF TokensRest, opening, calls, server, net
<1> QED BY <1>1, <1>2, <1>3, <1>4, RestKeeps

LEMMA BeginOpenSecureChannelKeeps ==
    ASSUME IInv, BeginOpenSecureChannel
    PROVE  IInv'
<1> USE DEF BeginOpenSecureChannel
<1>1. TypeOK'
    BY DEF IInv, TypeOK, ConnStates, OpnStates, calls, server, net
<1>2. AnswerInv'
    BY DEF IInv, AnswerInv, calls
<1>3. PendingInv'
    BY DEF IInv, PendingInv, calls
<1>4. TokensRest
    <2>1. Settled
        BY DEF IInv, TokenInv, OpeningInv
    <2> QED BY <2>1 DEF TokensRest, calls, server, net, IInv, TypeOK
<1> QED BY <1>1, <1>2, <1>3, <1>4, RestKeeps

LEMMA RegisterOpenKeeps ==
    ASSUME IInv, RegisterOpen
    PROVE  IInv'
<1> USE DEF RegisterOpen
<1>1. opens \in 1 .. MaxOpen
    BY DEF IInv, TypeOK, TokenInv, OpeningInv, FirstOrRenewal
<1>2. TypeOK'
    BY <1>1 DEF IInv, TypeOK, OpnStates, client, calls, server, net
<1>3. AnswerInv'
    BY DEF IInv, AnswerInv, calls
<1>4. PendingInv'
    BY DEF IInv, PendingInv, calls, client
<1>5. TokensRest
    BY DEF TokensRest, client, calls, server, net
<1> QED BY <1>2, <1>3, <1>4, <1>5, RestKeeps

LEMMA SendOpenFailsKeeps ==
    ASSUME IInv, SendOpenFails
    PROVE  IInv'
<1> USE DEF SendOpenFails
<1>1. TypeOK'
    BY DEF IInv, TypeOK, OpnStates, calls, server, net
<1>2. AnswerInv'
    BY DEF IInv, AnswerInv, calls
<1>3. PendingInv'
    BY DEF IInv, PendingInv, calls
<1>4. TokensRest
    <2>1. Settled
        BY DEF IInv, TokenInv, OpeningInv
    <2> QED BY <2>1 DEF TokensRest, calls, server, net, IInv, TypeOK
<1> QED BY <1>1, <1>2, <1>3, <1>4, RestKeeps

LEMMA WatchdogTimerOpenKeeps ==
    ASSUME IInv, WatchdogTimerOpen
    PROVE  IInv'
<1> USE DEF WatchdogTimerOpen
<1>1. TypeOK'
    BY DEF IInv, TypeOK, client, calls, server, net
<1>2. AnswerInv'
    BY DEF IInv, AnswerInv, calls
<1>3. PendingInv'
    BY DEF IInv, PendingInv, calls, client
<1>4. TokensRest
    BY DEF TokensRest, client, calls, server, net
<1> QED BY <1>1, <1>2, <1>3, <1>4, RestKeeps

LEMMA BeginSendRequestKeeps ==
    ASSUME IInv, NEW r \in Requests, BeginSendRequest(r)
    PROVE  IInv'
<1> USE DEF BeginSendRequest
<1>1. TypeOK'
    BY DEF IInv, TypeOK, ReqStates, client, opening, server, net
<1>2. AnswerInv'
    BY DEF IInv, TypeOK, AnswerInv
<1>3. PendingInv'
    BY DEF IInv, PendingInv, client
<1>4. TokensRest
    <2>1. ClientToken >= 1
        BY DEF IInv, TokenInv, CallerInv
    <2> QED BY <2>1 DEF TokensRest, client, opening, server, net
<1> QED BY <1>1, <1>2, <1>3, <1>4, RestKeeps

LEMMA EndSendRequestKeeps ==
    ASSUME IInv, NEW r \in Requests, EndSendRequest(r)
    PROVE  IInv'
<1> USE DEF EndSendRequest
<1>1. TypeOK'
    <2>1. req \in [Requests -> ReqStates] /\ outcomes \in [Requests -> Nat]
        BY DEF IInv, TypeOK
    <2>2. req' \in [Requests -> ReqStates]
        BY <2>1 DEF ReqStates
    <2>3. outcomes' \in [Requests -> Nat]
        BY <2>1
    <2> QED BY <2>2, <2>3 DEF IInv, TypeOK, client, opening, server, net
<1>2. AnswerInv'
    BY DEF IInv, TypeOK, AnswerInv
<1>3. PendingInv'
    BY DEF IInv, PendingInv, client
<1>4. TokensRest
    BY DEF TokensRest, client, opening, server, net, IInv, TypeOK
<1> QED BY <1>1, <1>2, <1>3, <1>4, RestKeeps

LEMMA WriteRequestFailsKeeps ==
    ASSUME IInv, NEW r \in Requests, WriteRequestFails(r)
    PROVE  IInv'
<1> USE DEF WriteRequestFails
<1>1. /\ AnswerInv' /\ pending' \subseteq pending
      /\ outcomes' \in [Requests -> Nat] /\ pending' \in SUBSET Requests
    BY AnswerKeeps DEF IInv, TypeOK
<1>2. TypeOK'
    <2>1. req' \in [Requests -> ReqStates]
        BY DEF IInv, TypeOK, ReqStates
    <2>2. cWrite' \in Seq(Message) /\ Len(cWrite') <= 1
        OBVIOUS
    <2> QED BY <1>1, <2>1, <2>2 DEF IInv, TypeOK, client, opening, server, net
<1>3. PendingInv'
    BY <1>1 DEF IInv, PendingInv, client
<1>4. TokensRest
    BY DEF TokensRest, client, opening, server, net, IInv, TypeOK
<1> QED BY <1>1, <1>2, <1>3, <1>4, RestKeeps

LEMMA WatchdogTimerKeeps ==
    ASSUME IInv, NEW r \in Requests, WatchdogTimer(r)
    PROVE  IInv'
<1> USE DEF WatchdogTimer
<1>1. /\ AnswerInv' /\ pending' \subseteq pending
      /\ outcomes' \in [Requests -> Nat] /\ pending' \in SUBSET Requests
    BY AnswerKeeps DEF IInv, TypeOK
<1>2. TypeOK'
    BY <1>1 DEF IInv, TypeOK, client, opening, server, net
<1>3. PendingInv'
    BY <1>1 DEF IInv, PendingInv, client
<1>4. TokensRest
    BY DEF TokensRest, client, opening, server, net
<1> QED BY <1>1, <1>2, <1>3, <1>4, RestKeeps

LEMMA OnDisconnectKeeps ==
    ASSUME IInv, OnDisconnect
    PROVE  IInv'
<1> USE DEF OnDisconnect
<1>1. CASE cState \in {"Connected", "DisconnectingSecure"}
    <2>1. /\ AnswerInv' /\ pending' = {}
          /\ outcomes' \in [Requests -> Nat] /\ pending' \in SUBSET Requests
        BY <1>1, AnswerKeeps DEF IInv, TypeOK
    <2>2. TypeOK'
        BY <1>1, <2>1 DEF IInv, TypeOK, ConnStates, server
    <2>3. PendingInv'
        BY <2>1 DEF PendingInv
    <2>4. TokensRest
        BY <1>1 DEF TokensRest, server
    <2> QED BY <2>1, <2>2, <2>3, <2>4, RestKeeps
<1>2. CASE cState \notin {"Connected", "DisconnectingSecure"}
    <2>1. TypeOK'
        BY <1>2 DEF IInv, TypeOK, ConnStates, server
    <2>2. AnswerInv'
        BY <1>2 DEF IInv, AnswerInv
    <2>3. PendingInv'
        BY <1>2 DEF IInv, PendingInv
    <2>4. TokensRest
        BY <1>2 DEF TokensRest, server
    <2> QED BY <2>1, <2>2, <2>3, <2>4, RestKeeps
<1> QED BY <1>1, <1>2

LEMMA DisconnectKeeps ==
    ASSUME IInv, Disconnect \/ SetDisconnected
    PROVE  IInv'
<1> USE DEF Disconnect, SetDisconnected
<1>1. TypeOK'
    BY DEF IInv, TypeOK, ConnStates, DiscStates, opening, calls, server, net
<1>2. AnswerInv'
    BY DEF IInv, AnswerInv, calls
<1>3. PendingInv'
    BY DEF IInv, PendingInv, calls
<1>4. TokensRest
    BY DEF TokensRest, opening, calls, server, net
<1> QED BY <1>1, <1>2, <1>3, <1>4, RestKeeps

LEMMA CloseRefusedKeeps ==
    ASSUME IInv, SecureClose, cState \notin {"Connected", "DisconnectingSecure"}
    PROVE  IInv'
<1> USE DEF SecureClose
<1>1. TypeOK'
    BY DEF IInv, TypeOK, DiscStates, client, opening, calls, server, net
<1>2. AnswerInv'
    BY DEF IInv, AnswerInv, calls
<1>3. PendingInv'
    BY DEF IInv, PendingInv, calls, client
<1>4. TokensRest
    BY DEF TokensRest, client, opening, calls, server, net
<1> QED BY <1>1, <1>2, <1>3, <1>4, RestKeeps

LEMMA WriteCloseFailsKeeps ==
    ASSUME IInv, WriteCloseFails
    PROVE  IInv'
<1> USE DEF WriteCloseFails
<1>1. TypeOK'
    <2>1. cWrite' \in Seq(Message) /\ Len(cWrite') <= 1
        OBVIOUS
    <2> QED BY <2>1 DEF IInv, TypeOK, DiscStates, client, opening, calls, server, net
<1>2. AnswerInv'
    BY DEF IInv, AnswerInv, calls
<1>3. PendingInv'
    BY DEF IInv, PendingInv, calls, client
<1>4. TokensRest
    BY DEF TokensRest, client, opening, calls, server, net
<1> QED BY <1>1, <1>2, <1>3, <1>4, RestKeeps

LEMMA DisconnectTransportKeeps ==
    ASSUME IInv, DisconnectTransport
    PROVE  IInv'
<1> USE DEF DisconnectTransport
<1>1. TypeOK'
    BY DEF IInv, TypeOK, DiscStates, client, opening, calls, server
<1>2. AnswerInv'
    BY DEF IInv, AnswerInv, calls
<1>3. PendingInv'
    BY DEF IInv, PendingInv, calls, client
<1>4. TokensRest
    BY DEF TokensRest, client, opening, calls, server
<1> QED BY <1>1, <1>2, <1>3, <1>4, RestKeeps

LEMMA CancelOpenRequestsKeeps ==
    ASSUME IInv, CancelOpenRequests
    PROVE  IInv'
<1> USE DEF CancelOpenRequests
<1>1. /\ AnswerInv' /\ pending' = {}
      /\ outcomes' \in [Requests -> Nat] /\ pending' \in SUBSET Requests
    BY AnswerKeeps DEF IInv, TypeOK
<1>2. TypeOK'
    BY <1>1 DEF IInv, TypeOK, DiscStates, client, server, net
<1>3. PendingInv'
    BY <1>1 DEF PendingInv
<1>4. TokensRest
    BY DEF TokensRest, client, server, net
<1> QED BY <1>1, <1>2, <1>3, <1>4, RestKeeps

LEMMA OnChannelClosedKeeps ==
    ASSUME IInv, OnChannelClosed
    PROVE  IInv'
<1> USE DEF OnChannelClosed
<1>1. TypeOK'
    BY DEF IInv, TypeOK, client, opening, calls, server
<1>2. AnswerInv'
    BY DEF IInv, AnswerInv, calls
<1>3. PendingInv'
    BY DEF IInv, PendingInv, calls, client
<1>4. TokensRest
    BY DEF TokensRest, client, opening, calls, server
<1> QED BY <1>1, <1>2, <1>3, <1>4, RestKeeps

LEMMA CancelSendResponseKeeps ==
    ASSUME IInv, NEW r \in Requests, CancelSendResponse(r)
    PROVE  IInv'
<1> USE DEF CancelSendResponse
<1>1. TypeOK'
    BY DEF IInv, TypeOK, client, opening, calls, net
<1>2. AnswerInv'
    BY DEF IInv, AnswerInv, calls
<1>3. PendingInv'
    BY DEF IInv, PendingInv, calls, client
<1>4. TokensRest
    BY DEF TokensRest, client, opening, calls, net
<1> QED BY <1>1, <1>2, <1>3, <1>4, RestKeeps

LEMMA ChannelTimeoutKeeps ==
    ASSUME IInv, ChannelTimeout
    PROVE  IInv'
<1> USE DEF ChannelTimeout
<1>1. TypeOK'
    BY CloseFields DEF IInv, TypeOK, client, opening, calls, net
<1>2. AnswerInv'
    BY DEF IInv, AnswerInv, calls
<1>3. PendingInv'
    BY DEF IInv, PendingInv, calls, client
<1>4. TokensRest
    BY DEF TokensRest, client, opening, calls, net
<1> QED BY <1>1, <1>2, <1>3, <1>4, RestKeeps

LEMMA LinkBreaksKeeps ==
    ASSUME IInv, LinkBreaks
    PROVE  IInv'
<1> USE DEF LinkBreaks
<1>1. TypeOK'
    <2>1. <<>> \in Seq(Message)
        OBVIOUS
    <2> QED BY <2>1 DEF IInv, TypeOK, client, opening, calls, server
<1>2. AnswerInv'
    BY DEF IInv, AnswerInv, calls
<1>3. PendingInv'
    BY DEF IInv, PendingInv, calls, client
<1>4. TokensRest
    BY DEF TokensRest, client, opening, calls, server
<1> QED BY <1>1, <1>2, <1>3, <1>4, RestKeeps

-----------------------------------------------------------------------------
(* The client asks for a token.                                             *)

LEMMA ExchangeBegins ==
    ASSUME IInv, Settled,
           UNCHANGED <<cChan, sChan, c2s, s2c, sOpn, cWrite, sWrite, working, req, cState>>,
           opens' = opens + 1, bRenewActive' \in BOOLEAN,
           bRenewActive' <=> opens # 0, opens = 0 => ClientToken = 0
    PROVE  TokenInv'
<1> USE DEF ClientToken, ServerToken
<1>1. opens \in Nat
    BY DEF IInv, TypeOK
<1>2. FirstOrRenewal'
    BY <1>1 DEF FirstOrRenewal
<1>3. Settled'
    BY DEF Settled, NoOpn
<1>4. ChannelInv'
    BY DEF IInv, TokenInv, ChannelInv
<1>5. RequestInv' /\ ResponseInv'
    BY <1>3 DEF RequestInv, ResponseInv, Settled
<1>6. OpeningInv'
    BY <1>1, <1>2, <1>3 DEF OpeningInv
<1>7. CallerInv'
    BY DEF IInv, TokenInv, CallerInv
<1>8. ToServerInv'
    BY DEF IInv, TokenInv, ToServerInv, SentToServer, WrittenToServer, NoOpn
<1>9. ToClientInv'
    BY DEF IInv, TokenInv, ToClientInv, SentToClient, WrittenToClient, NoOpn
<1> QED BY <1>4, <1>5, <1>6, <1>7, <1>8, <1>9 DEF TokenInv

LEMMA OnConnectKeeps ==
    ASSUME IInv, OnConnect
    PROVE  IInv'
<1> USE DEF OnConnect
<1>1. TypeOK'
    BY ConversationAssumption DEF IInv, TypeOK, OpnStates, client, calls
<1>2. AnswerInv'
    BY DEF IInv, AnswerInv, calls
<1>3. PendingInv'
    BY DEF IInv, PendingInv, calls, client
<1>4. TokenInv'
    <2>1. Settled /\ ClientToken = 0 /\ bRenewActive = FALSE
        BY DEF IInv, TypeOK, TokenInv, OpeningInv
    <2>2. /\ UNCHANGED <<cChan, sChan, c2s, s2c, sOpn, cWrite, sWrite, working, req, cState>>
          /\ bRenewActive' = bRenewActive
        BY DEF client, calls
    <2>3. bRenewActive' \in BOOLEAN /\ (bRenewActive' <=> opens # 0)
        BY <2>1, <2>2
    <2> QED BY <2>1, <2>2, <2>3, ExchangeBegins
<1> QED BY <1>1, <1>2, <1>3, <1>4 DEF IInv

LEMMA RenewTimerKeeps ==
    ASSUME IInv, RenewTimer
    PROVE  IInv'
<1> USE DEF RenewTimer
<1>1. TypeOK'
    BY ConversationAssumption DEF IInv, TypeOK, OpnStates, calls, server, net
<1>2. AnswerInv'
    BY DEF IInv, AnswerInv, calls
<1>3. PendingInv'
    BY DEF IInv, PendingInv, calls
<1>4. TokenInv'
    <2>1. Settled /\ opens # 0
        BY DEF IInv, TypeOK, TokenInv, OpeningInv, CallerInv, ClientToken
    <2> QED BY <2>1, ExchangeBegins DEF calls, server, net
<1> QED BY <1>1, <1>2, <1>3, <1>4 DEF IInv

LEMMA SendOpenKeeps ==
    ASSUME IInv, SendOpen
    PROVE  IInv'
<1> USE DEF SendOpen
<1>1. opens \in 1 .. MaxOpen /\ FirstOrRenewal /\ Settled
    BY DEF IInv, TypeOK, TokenInv, OpeningInv, FirstOrRenewal
<1> DEFINE m == OPN(opens, 0)
<1>2. m \in Message /\ m.type = "OPN" /\ m.id = opens
    BY <1>1, Messages DEF OPN
<1>3. c2s \in Seq(Message)
    BY DEF IInv, TypeOK
<1>4. c2s' = c2s \/ c2s' = Append(c2s, m)
    BY DEF ToServer
<1> HIDE DEF m
<1>5. TypeOK'
    <2>1. c2s' \in Seq(Message)
        BY <1>2, <1>3, <1>4, AppendFields
    <2> QED BY <2>1 DEF IInv, TypeOK, OpnStates, client, calls, server
<1>6. AnswerInv'
    BY DEF IInv, AnswerInv, calls
<1>7. PendingInv'
    BY DEF IInv, PendingInv, calls, client
<1>8. /\ UNCHANGED <<cState, cChan, bRenewActive, opens, req, cWrite>>
      /\ UNCHANGED <<sChan, sOpn, working, sWrite, s2c>>
      /\ opn' = "idle" /\ cWrite = <<>>
    BY DEF client, calls, server
<1>9. TokenInv'
    <2> USE DEF ClientToken, ServerToken
    <2>1. ChannelInv'
        BY <1>8 DEF IInv, TokenInv, ChannelInv
    <2>2. FirstOrRenewal'
        BY <1>1, <1>8 DEF FirstOrRenewal
    <2>3. RequestInv'
        <3>1. CASE c2s' = c2s
            BY <1>1, <1>8, <3>1 DEF RequestInv, Settled, NoOpn
        <3>2. CASE c2s' = Append(c2s, m)
            <4>1. \A i \in 1 .. Len(c2s') : c2s'[i].type = "OPN" =>
                    i = Len(c2s) + 1 /\ c2s'[i].id = opens
                BY <1>1, <1>2, <1>3, <3>2, AppendFields DEF Settled, NoOpn
            <4>2. Settled => ServerToken' = ClientToken' /\ NoOpn(s2c)' /\ sOpn' = <<>>
                BY <1>8 DEF Settled, NoOpn
            <4> QED BY <1>1, <1>8, <2>2, <4>1, <4>2 DEF RequestInv
        <3> QED BY <1>4, <3>1, <3>2
    <2>4. ResponseInv'
        BY <1>1, <1>8 DEF ResponseInv, Settled, NoOpn
    <2>5. OpeningInv'
        BY <1>1, <1>8 DEF IInv, TokenInv, OpeningInv, CallerInv, FirstOrRenewal
    <2>6. CallerInv'
        BY <1>8 DEF IInv, TokenInv, CallerInv
    <2>7. ToServerInv'
        <3>1. ToServerInv
            BY DEF IInv, TokenInv
        <3>2. CASE c2s' = c2s
            BY <1>8, <3>1, <3>2 DEF ToServerInv, SentToServer, WrittenToServer
        <3>3. CASE c2s' = Append(c2s, m)
            <4>1. ASSUME NEW i \in 1 .. Len(c2s'), c2s'[i].type # "OPN"
                  PROVE  i \in 1 .. Len(c2s) /\ c2s'[i] = c2s[i]
                BY <1>2, <1>3, <3>3, <4>1, AppendFields
            <4>2. \A j \in 1 .. Len(c2s) : c2s'[j] = c2s[j]
                BY <1>2, <1>3, <3>3, AppendFields
            <4>3. Len(c2s) \in Nat
                BY <1>3
            <4> QED BY <1>8, <3>1, <4>1, <4>2, <4>3 DEF ToServerInv, SentToServer, WrittenToServer
        <3> QED BY <1>4, <3>2, <3>3
    <2>8. ToClientInv'
        BY <1>8 DEF IInv, TokenInv, ToClientInv, SentToClient, WrittenToClient, NoOpn
    <2> QED BY <2>1, <2>3, <2>4, <2>5, <2>6, <2>7, <2>8 DEF TokenInv
<1> QED BY <1>5, <1>6, <1>7, <1>9 DEF IInv

-----------------------------------------------------------------------------
(* The client writes a message under a token.                               *)

\* What the steps of a message on the client's side leave alone.
ClientWriting ==
    /\ UNCHANGED <<client, opening, sChan, sOpn, working, sWrite, s2c>>
    /\ \A r \in Requests : req'[r] # "idle" => req[r] # "idle"

LEMMA ClientWritingKeeps ==
    ASSUME IInv, ClientWriting, NoOpn(c2s') <=> NoOpn(c2s), RequestInv', ToServerInv'
    PROVE  TokenInv'
<1> USE DEF ClientToken, ServerToken
<1>1. UNCHANGED <<cState, cChan, bRenewActive, opens, opn, sChan, sOpn, working, sWrite, s2c>>
    BY DEF ClientWriting, client, opening
<1>2. ChannelInv'
    BY <1>1 DEF IInv, TokenInv, ChannelInv
<1>3. FirstOrRenewal' <=> FirstOrRenewal
    BY <1>1 DEF FirstOrRenewal
<1>4. NoOpn(s2c') <=> NoOpn(s2c)
    BY <1>1
<1>5. Settled' <=> Settled
    BY <1>1, <1>4 DEF Settled
<1>6. ResponseInv'
    BY <1>1, <1>3, <1>4 DEF IInv, TokenInv, ResponseInv
<1>7. OpeningInv'
    BY <1>1, <1>3, <1>5 DEF IInv, TokenInv, OpeningInv
<1>8. CallerInv'
    BY <1>1 DEF IInv, TokenInv, CallerInv, ClientWriting
<1>9. ToClientInv'
    BY <1>1, <1>4 DEF IInv, TokenInv, ToClientInv, SentToClient, WrittenToClient
<1> QED BY <1>2, <1>6, <1>7, <1>8, <1>9 DEF TokenInv

LEMMA SecureKeeps ==
    ASSUME IInv, ClientWriting, ClientToken >= 1, c2s' = c2s,
           NEW m \in Message, m.type # "OPN", m.token = SendToken(cChan), cWrite' = <<m>>
    PROVE  TokenInv'
<1> USE DEF ClientToken, ServerToken
<1>1. m.token = ClientToken
    BY DEF SendToken, IInv, TokenInv, ChannelInv
<1>2. UNCHANGED <<bRenewActive, cChan, opens, opn, sChan, sOpn, s2c>>
    BY DEF ClientWriting, client, opening
<1>3. cWrite'[1] = m /\ cWrite' # <<>>
    BY OneMessage
<1>4. RequestInv'
    BY <1>2 DEF IInv, TokenInv, RequestInv, NoOpn, FirstOrRenewal
<1>5. ClientToken \in Nat /\ (ServerToken = ClientToken \/ ServerToken = ClientToken + 1)
    BY DEF IInv, TypeOK, Channel, TokenInv, ChannelInv
<1>6. ~NoOpn(c2s) => ServerToken = ClientToken
    BY DEF IInv, TokenInv, RequestInv
<1>7. ToServerInv'
    BY <1>1, <1>2, <1>3, <1>5, <1>6 DEF IInv, TokenInv, ToServerInv, SentToServer, WrittenToServer
<1> QED BY <1>4, <1>7, ClientWritingKeeps

LEMMA WriteKeeps ==
    ASSUME IInv, ClientWriting, cWrite # <<>>, ToServer(cWrite[1]), cWrite' = <<>>
    PROVE  TokenInv' /\ c2s' \in Seq(Message)
<1> USE DEF ClientToken, ServerToken
<1> DEFINE m == cWrite[1]
<1>1. c2s \in Seq(Message) /\ m \in Message
    BY DEF IInv, TypeOK
<1>2. /\ m.type # "OPN" /\ ClientToken >= 1 /\ m.token <= ClientToken
      /\ m.token = ServerToken \/ m.token = ServerToken - 1
      /\ ~NoOpn(c2s) => m.token = ServerToken
    BY DEF IInv, TokenInv, ToServerInv, SentToServer, WrittenToServer
<1>3. c2s' = c2s \/ c2s' = Append(c2s, m)
    BY DEF ToServer
<1> HIDE DEF m
<1>4. UNCHANGED <<bRenewActive, cChan, opens, opn, sChan, sOpn, s2c>>
    BY DEF ClientWriting, client, opening
<1>5. ToServerInv /\ RequestInv
    BY DEF IInv, TokenInv
<1>6. CASE c2s' = c2s
    <2>1. RequestInv'
        BY <1>4, <1>5, <1>6 DEF RequestInv, NoOpn, FirstOrRenewal
    <2>2. ToServerInv'
        BY <1>4, <1>5, <1>6 DEF ToServerInv, SentToServer, WrittenToServer
    <2> QED BY <1>1, <1>6, <2>1, <2>2, ClientWritingKeeps
<1>7. CASE c2s' = Append(c2s, m)
    <2>1. /\ Len(c2s) \in Nat /\ Len(c2s') = Len(c2s) + 1 /\ c2s' \in Seq(Message)
          /\ \A i \in 1 .. Len(c2s) : c2s'[i] = c2s[i]
          /\ c2s'[Len(c2s) + 1] = m
        BY <1>1, <1>7, AppendFields
    <2>2. \A i \in 1 .. Len(c2s') : c2s'[i].type = "OPN" => i \in 1 .. Len(c2s)
        BY <1>2, <2>1
    <2>3. NoOpn(c2s') <=> NoOpn(c2s)
        BY <2>1, <2>2 DEF NoOpn
    <2>4. RequestInv'
        <3>1. FirstOrRenewal' <=> FirstOrRenewal
            BY <1>4 DEF FirstOrRenewal
        <3> QED BY <1>4, <1>5, <2>1, <2>2, <2>3, <3>1 DEF RequestInv
    <2>5. ToServerInv'
        <3>1. ASSUME NEW i \in 1 .. Len(c2s'), c2s'[i].type # "OPN"
              PROVE  /\ ClientToken >= 1 /\ c2s'[i].token <= ClientToken
                     /\ c2s'[i].token = ServerToken \/ c2s'[i].token = ServerToken - 1
                     /\ \A j \in 1 .. i - 1 : c2s'[j].type = "OPN" => c2s'[i].token = ServerToken
            <4>1. CASE i \in 1 .. Len(c2s)
                BY <1>5, <2>1, <3>1, <4>1 DEF ToServerInv, SentToServer, WrittenToServer
            <4>2. CASE i = Len(c2s) + 1
                BY <1>2, <2>1, <2>2, <4>2 DEF NoOpn
            <4> QED BY <2>1, <4>1, <4>2
        <3> QED BY <1>4, <3>1 DEF ToServerInv, SentToServer, WrittenToServer
    <2> QED BY <2>1, <2>3, <2>4, <2>5, ClientWritingKeeps
<1> QED BY <1>3, <1>6, <1>7

LEMMA SecureRequestKeeps ==
    ASSUME IInv, NEW r \in Requests, SecureRequest(r)
    PROVE  IInv'
<1> USE DEF SecureRequest
<1> DEFINE m == MSG(r, SendToken(cChan))
<1>1. m \in Message /\ m.type # "OPN" /\ m.token = SendToken(cChan)
    <2>1. SendToken(cChan) \in Nat
        BY DEF SendToken, IInv, TypeOK, Channel
    <2> QED BY <2>1, Messages DEF MSG
<1>2. cWrite' = <<m>>
    OBVIOUS
<1> HIDE DEF m
<1>3. req' \in [Requests -> ReqStates]
    BY DEF IInv, TypeOK, ReqStates
<1>4. TypeOK'
    BY <1>1, <1>2, <1>3, OneMessage DEF IInv, TypeOK, client, opening, server, net
<1>5. AnswerInv'
    BY DEF IInv, TypeOK, AnswerInv
<1>6. PendingInv'
    BY DEF IInv, PendingInv, client
<1>7. TokenInv'
    <2>1. ClientToken >= 1
        BY DEF IInv, TokenInv, CallerInv
    <2>2. ClientWriting /\ c2s' = c2s
        BY DEF ClientWriting, client, opening, server, net, IInv, TypeOK
    <2> QED BY <1>1, <1>2, <2>1, <2>2, SecureKeeps
<1> QED BY <1>4, <1>5, <1>6, <1>7 DEF IInv

LEMMA WriteRequestKeeps ==
    ASSUME IInv, WritingInv, NEW r \in Requests, WriteRequest(r)
    PROVE  IInv'
<1> USE DEF WriteRequest
<1>1. ClientWriting
    BY DEF ClientWriting, server, IInv, TypeOK
<1>2. TokenInv' /\ c2s' \in Seq(Message)
    BY <1>1, WriteKeeps DEF WritingInv
<1>3. req' \in [Requests -> ReqStates]
    BY DEF IInv, TypeOK, ReqStates
<1>4. <<>> \in Seq(Message) /\ Len(<<>>) <= 1
    OBVIOUS
<1>5. TypeOK'
    BY <1>2, <1>3, <1>4 DEF IInv, TypeOK, client, opening, server
<1>6. AnswerInv'
    BY DEF IInv, TypeOK, AnswerInv
<1>7. PendingInv'
    BY DEF IInv, PendingInv, client
<1> QED BY <1>2, <1>5, <1>6, <1>7 DEF IInv

LEMMA SecureCloseKeeps ==
    ASSUME IInv, SecureClose, cState \in {"Connected", "DisconnectingSecure"}
    PROVE  IInv'
<1> USE DEF SecureClose
<1> DEFINE m == CLO(SendToken(cChan))
<1>1. m \in Message /\ m.type # "OPN" /\ m.token = SendToken(cChan)
    <2>1. SendToken(cChan) \in Nat
        BY DEF SendToken, IInv, TypeOK, Channel
    <2> QED BY <2>1, Messages DEF CLO
<1>2. cWrite' = <<m>>
    OBVIOUS
<1> HIDE DEF m
<1>3. TypeOK'
    BY <1>1, <1>2, OneMessage DEF IInv, TypeOK, DiscStates, client, opening, calls, server, net
<1>4. AnswerInv'
    BY DEF IInv, AnswerInv, calls
<1>5. PendingInv'
    BY DEF IInv, PendingInv, client, calls
<1>6. TokenInv'
    <2>1. ClientToken >= 1
        BY DEF IInv, TokenInv, CallerInv
    <2>2. ClientWriting /\ c2s' = c2s
        BY DEF ClientWriting, calls, server, net
    <2> QED BY <1>1, <1>2, <2>1, <2>2, SecureKeeps
<1> QED BY <1>3, <1>4, <1>5, <1>6 DEF IInv

LEMMA WriteCloseKeeps ==
    ASSUME IInv, WritingInv, WriteClose
    PROVE  IInv'
<1> USE DEF WriteClose
<1>1. ClientWriting
    BY DEF ClientWriting, calls, server
<1>2. TokenInv' /\ c2s' \in Seq(Message)
    BY <1>1, WriteKeeps DEF WritingInv
<1>3. <<>> \in Seq(Message) /\ Len(<<>>) <= 1
    OBVIOUS
<1>4. TypeOK'
    BY <1>2, <1>3 DEF IInv, TypeOK, DiscStates, client, opening, calls, server
<1>5. AnswerInv'
    BY DEF IInv, AnswerInv, calls
<1>6. PendingInv'
    BY DEF IInv, PendingInv, client, calls
<1> QED BY <1>2, <1>4, <1>5, <1>6 DEF IInv

-----------------------------------------------------------------------------
(* The server takes a request and answers it.                               *)

LEMMA OpnTaken ==
    ASSUME NEW q \in Seq(Message), q # <<>>
    PROVE  /\ NoOpn(q) => NoOpn(Tail(q))
           /\ q[1].type # "OPN" => (NoOpn(Tail(q)) <=> NoOpn(q))
           /\ q[1].type = "OPN" => ~NoOpn(q)
           /\ /\ q[1].type = "OPN"
              /\ \A i, j \in 1 .. Len(q) : q[i].type = "OPN" /\ q[j].type = "OPN" => i = j
              => NoOpn(Tail(q))
<1>1. /\ Len(q) \in Nat \ {0} /\ Len(Tail(q)) = Len(q) - 1
      /\ \A i \in 1 .. Len(q) - 1 : Tail(q)[i] = q[i + 1]
    BY TailFields
<1>2. \A i \in 1 .. Len(Tail(q)) : i + 1 \in 1 .. Len(q) /\ Tail(q)[i] = q[i + 1] /\ i + 1 # 1
    BY <1>1
<1>3. \A i \in 1 .. Len(q) : i = 1 \/ (i - 1 \in 1 .. Len(Tail(q)) /\ Tail(q)[i - 1] = q[i])
    BY <1>1
<1>4. 1 \in 1 .. Len(q)
    BY <1>1
<1> QED BY <1>2, <1>3, <1>4 DEF NoOpn

\* What the server's transport thread leaves alone when it takes a request.
Taking == UNCHANGED <<client, opening, req, cWrite, sWrite, s2c>> /\ c2s # <<>> /\ c2s' = Tail(c2s)

LEMMA RequestTaken ==
    ASSUME IInv, Taking, sOpn' = sOpn,
           sChan' \in Channel, sChan'.Current = sChan.Current,
           sChan'.Previous = sChan.Previous, sChan'.NextTokenId = sChan.NextTokenId,
           sChan'.State = "Unknown" => sChan.State = "Unknown",
           sChan'.bCurrentTokenActive =>
                sChan.bCurrentTokenActive \/ (c2s[1].type # "OPN" /\ c2s[1].token = ServerToken),
           working' \subseteq working \/ c2s[1].type # "OPN"
    PROVE  TokenInv'
<1> USE DEF ClientToken, ServerToken
<1>1. UNCHANGED <<cState, cChan, bRenewActive, opens, opn, req, cWrite, sWrite, s2c>>
    BY DEF Taking, client, opening
<1>2. c2s \in Seq(Message) /\ c2s # <<>> /\ c2s' = Tail(c2s)
    BY DEF IInv, TypeOK, Taking
<1>3. /\ NoOpn(c2s) => NoOpn(c2s')
      /\ Len(c2s) \in Nat \ {0} /\ Len(c2s') = Len(c2s) - 1
      /\ \A i \in 1 .. Len(c2s') : i + 1 \in 1 .. Len(c2s) /\ c2s'[i] = c2s[i + 1]
    <2>1. NoOpn(c2s) => NoOpn(c2s')
        BY <1>2, OpnTaken
    <2>2. /\ Len(c2s) \in Nat \ {0} /\ Len(c2s') = Len(c2s) - 1
          /\ \A i \in 1 .. Len(c2s) - 1 : c2s'[i] = c2s[i + 1]
        BY <1>2, TailFields
    <2> QED BY <2>1, <2>2
<1>4. c2s[1].type # "OPN" => ClientToken >= 1 /\ c2s[1].token <= ClientToken
    BY <1>3 DEF IInv, TokenInv, ToServerInv, SentToServer, WrittenToServer
<1>5. ClientToken \in Nat /\ ServerToken \in Nat
    BY DEF IInv, TypeOK, Channel
<1>6. ChannelInv'
    BY <1>1, <1>4, <1>5 DEF IInv, TokenInv, ChannelInv
<1>7. FirstOrRenewal' <=> FirstOrRenewal
    BY <1>1 DEF FirstOrRenewal
<1>8. Settled => Settled'
    BY <1>1, <1>3 DEF Settled
<1>9. RequestInv'
    <2>1. RequestInv
        BY DEF IInv, TokenInv
    <2>2. NoOpn(s2c') <=> NoOpn(s2c)
        BY <1>1
    <2>3. SUFFICES ASSUME ~NoOpn(c2s')
                   PROVE  RequestInv'
        BY DEF RequestInv
    <2>4. \A i \in 1 .. Len(c2s') : c2s'[i].type = "OPN" => c2s'[i].id = opens
        BY <1>3, <2>1, <2>3 DEF RequestInv
    <2>5. \A i, j \in 1 .. Len(c2s') : c2s'[i].type = "OPN" /\ c2s'[j].type = "OPN" => i = j
        <3> SUFFICES ASSUME NEW i \in 1 .. Len(c2s'), NEW j \in 1 .. Len(c2s'),
                            c2s'[i].type = "OPN", c2s'[j].type = "OPN"
                     PROVE  i = j
            OBVIOUS
        <3>1. i + 1 = j + 1
            BY <1>3, <2>1, <2>3 DEF RequestInv
        <3> QED BY <3>1
    <2> QED BY <1>1, <1>3, <1>7, <2>1, <2>2, <2>4, <2>5 DEF RequestInv
<1>10. ResponseInv'
    BY <1>1, <1>3, <1>7 DEF IInv, TokenInv, ResponseInv
<1>11. OpeningInv'
    BY <1>1, <1>7, <1>8 DEF IInv, TokenInv, OpeningInv
<1>12. CallerInv'
    BY <1>1, <1>4 DEF IInv, TokenInv, CallerInv
<1>13. ToServerInv'
    <2>1. ToServerInv
        BY DEF IInv, TokenInv
    <2>2. ASSUME NEW i \in 1 .. Len(c2s'), c2s'[i].type # "OPN"
          PROVE  /\ ClientToken >= 1 /\ c2s'[i].token <= ClientToken
                 /\ c2s'[i].token = ServerToken \/ c2s'[i].token = ServerToken - 1
        BY <1>3, <2>1, <2>2 DEF ToServerInv, SentToServer, WrittenToServer
    <2>3. ASSUME NEW i \in 1 .. Len(c2s'), c2s'[i].type # "OPN",
                 NEW j \in 1 .. i - 1, c2s'[j].type = "OPN"
          PROVE  c2s'[i].token = ServerToken
        <3>1. j \in 1 .. Len(c2s') /\ j + 1 \in 1 .. (i + 1) - 1
            BY <1>3
        <3>2. i + 1 \in 1 .. Len(c2s) /\ c2s[i + 1].type # "OPN" /\ c2s[j + 1].type = "OPN"
            BY <1>3, <2>3, <3>1
        <3>3. c2s[i + 1].token = ServerToken
            BY <2>1, <3>1, <3>2 DEF ToServerInv, SentToServer
        <3> QED BY <1>3, <3>3
    <2>4. SentToServer'
        BY <1>1, <2>2, <2>3 DEF SentToServer
    <2>5. WrittenToServer'
        BY <1>1, <1>3, <2>1 DEF ToServerInv, WrittenToServer
    <2> QED BY <2>4, <2>5 DEF ToServerInv
<1>14. ToClientInv'
    BY <1>1 DEF IInv, TokenInv, ToClientInv, SentToClient, WrittenToClient
<1> QED BY <1>6, <1>9, <1>10, <1>11, <1>12, <1>13, <1>14 DEF TokenInv

\* The server takes a request for a token: it moves on to the next one and
\* answers with it.
LEMMA TokenGiven ==
    ASSUME IInv, Taking, c2s[1].type = "OPN", working' = working,
           c2s[1].id = 1 => sChan.State = "Unknown",
           sChan' = IF c2s[1].id = 1 THEN Open(TakeToken(sChan), NewToken(sChan))
                                     ELSE Renew(TakeToken(sChan), NewToken(sChan)),
           sOpn' = <<OPN(c2s[1].id, NewToken(sChan))>>
    PROVE  TokenInv' /\ sChan' \in Channel /\ sOpn' \in Seq(Message) /\ Len(sOpn') <= 1
<1> USE DEF ClientToken, ServerToken
<1>1. UNCHANGED <<cState, cChan, bRenewActive, opens, opn, req, cWrite, sWrite, s2c>>
    BY DEF Taking, client, opening
<1>2. c2s \in Seq(Message) /\ c2s # <<>> /\ c2s' = Tail(c2s) /\ sChan \in Channel
    BY DEF IInv, TypeOK, Taking
<1>3. /\ c2s[1] \in Message /\ Len(c2s) \in Nat \ {0} /\ Len(c2s') = Len(c2s) - 1
      /\ \A i \in 1 .. Len(c2s') : i + 1 \in 1 .. Len(c2s) /\ c2s'[i] = c2s[i + 1]
    BY <1>2, TailFields
<1>4. ~NoOpn(c2s)
    BY <1>2, OpnTaken
<1>5. /\ FirstOrRenewal /\ opn = "idle"
      /\ ServerToken = ClientToken /\ NoOpn(s2c) /\ sOpn = <<>>
      /\ c2s[1].id = opens
      /\ \A i, j \in 1 .. Len(c2s) : c2s[i].type = "OPN" /\ c2s[j].type = "OPN" => i = j
    BY <1>3, <1>4 DEF IInv, TokenInv, RequestInv
<1>6. NoOpn(c2s')
    BY <1>2, <1>5, OpnTaken
<1>7. opens \in 1 .. MaxOpen /\ ClientToken \in Nat
    BY <1>5 DEF IInv, TypeOK, Channel, FirstOrRenewal
<1>8. /\ sChan.NextTokenId = ServerToken + 1
      /\ ServerToken = 0 => sChan.Previous = 0
    BY DEF IInv, TokenInv, ChannelInv
<1>9. /\ sChan' \in Channel /\ sChan'.State = "Opened"
      /\ ServerToken' = ServerToken + 1 /\ sChan'.Previous = ServerToken
      /\ sChan'.NextTokenId = ServerToken' + 1
      /\ sChan'.bCurrentTokenActive => ClientToken = 0
    <2> DEFINE ch == TakeToken(sChan)
               t == NewToken(sChan)
    <2>1. /\ ch \in Channel /\ ch.State = sChan.State /\ ch.Current = ServerToken
          /\ ch.Previous = sChan.Previous /\ ch.NextTokenId = ServerToken + 2
        BY <1>2, <1>7, <1>5, <1>8, TakeTokenFields
    <2>2. t = ServerToken + 1 /\ t \in Nat
        BY <1>5, <1>7, <1>8 DEF NewToken
    <2> HIDE DEF ch, t
    <2>3. CASE c2s[1].id = 1
        <3>1. sChan' = Open(ch, t)
            BY <2>3 DEF ch, t
        <3>2. ServerToken = 0 /\ ClientToken = 0
            BY <1>5, <2>3 DEF FirstOrRenewal
        <3>3. /\ Open(ch, t) \in Channel /\ Open(ch, t).State = "Opened"
              /\ Open(ch, t).Current = t /\ Open(ch, t).Previous = ch.Previous
              /\ Open(ch, t).NextTokenId = ch.NextTokenId
            BY <2>1, <2>2, OpenFields
        <3> QED BY <1>5, <1>8, <2>1, <2>2, <3>1, <3>2, <3>3
    <2>4. CASE c2s[1].id # 1
        <3>1. sChan' = Renew(ch, t)
            BY <2>4 DEF ch, t
        <3>2. /\ Renew(ch, t) \in Channel /\ Renew(ch, t).State = "Opened"
              /\ Renew(ch, t).Current = t /\ Renew(ch, t).Previous = ch.Current
              /\ ~Renew(ch, t).bCurrentTokenActive
              /\ Renew(ch, t).NextTokenId = ch.NextTokenId
            BY <2>1, <2>2, RenewFields
        <3> QED BY <1>5, <1>7, <2>1, <2>2, <3>1, <3>2
    <2> QED BY <2>3, <2>4
<1>10. /\ sOpn' \in Seq(Message) /\ Len(sOpn') = 1 /\ sOpn' # <<>>
       /\ sOpn'[1] = OPN(opens, ServerToken')
    <2>1. sOpn' = <<OPN(opens, ServerToken')>>
        BY <1>5, <1>8, <1>9 DEF NewToken
    <2>2. OPN(opens, ServerToken') \in Message
        BY <1>5, <1>7, <1>9, Messages
    <2> QED BY <2>1, <2>2, OneMessage
<1>11. ChannelInv'
    BY <1>1, <1>5, <1>7, <1>9 DEF IInv, TokenInv, ChannelInv
<1>12. RequestInv'
    BY <1>6 DEF RequestInv
<1>13. FirstOrRenewal'
    BY <1>1, <1>5 DEF FirstOrRenewal
<1>14. ResponseInv'
    BY <1>1, <1>5, <1>6, <1>9, <1>10, <1>13 DEF ResponseInv, NoOpn
<1>15. OpeningInv'
    BY <1>1, <1>5, <1>7 DEF IInv, TokenInv, OpeningInv, CallerInv, FirstOrRenewal
<1>16. CallerInv'
    BY <1>1 DEF IInv, TokenInv, CallerInv
<1>17. ToServerInv'
    <2>1. ToServerInv
        BY DEF IInv, TokenInv
    <2>2. ASSUME NEW i \in 1 .. Len(c2s'), c2s'[i].type # "OPN"
          PROVE  /\ ClientToken >= 1 /\ c2s'[i].token <= ClientToken
                 /\ c2s'[i].token = ServerToken
        <3>1. 1 \in 1 .. (i + 1) - 1 /\ i + 1 \in 1 .. Len(c2s) /\ c2s'[i] = c2s[i + 1]
            BY <1>3
        <3> QED BY <2>1, <2>2, <3>1 DEF ToServerInv, SentToServer, WrittenToServer
    <2>3. cWrite # <<>> =>
            /\ cWrite[1].type # "OPN" /\ ClientToken >= 1 /\ cWrite[1].token <= ClientToken
            /\ cWrite[1].token = ServerToken
        BY <1>4, <2>1 DEF ToServerInv, SentToServer, WrittenToServer
    <2>4. \A i \in 1 .. Len(c2s') : \A j \in 1 .. i - 1 : c2s'[j].type # "OPN"
        BY <1>3, <1>6 DEF NoOpn
    <2>5. SentToServer'
        BY <1>1, <1>5, <1>7, <1>9, <2>2, <2>4 DEF SentToServer
    <2>6. WrittenToServer'
        BY <1>1, <1>5, <1>6, <1>7, <1>9, <2>3 DEF WrittenToServer
    <2> QED BY <2>5, <2>6 DEF ToServerInv
<1>18. ToClientInv'
    BY <1>1 DEF IInv, TokenInv, ToClientInv, SentToClient, WrittenToClient
<1> QED BY <1>9, <1>10, <1>11, <1>12, <1>14, <1>15, <1>16, <1>17, <1>18 DEF TokenInv

LEMMA OnRequestKeeps ==
    ASSUME IInv, OnRequest
    PROVE  IInv'
<1> DEFINE m == c2s[1]
<1>1. /\ c2s \in Seq(Message) /\ sChan \in Channel /\ m \in Message /\ Head(c2s) = m
      /\ c2s' = Tail(c2s) /\ Tail(c2s) \in Seq(Message)
    BY TailFields DEF IInv, TypeOK, OnRequest
<1>2. m.token \in Nat /\ (m.type = "MSG" => m.id \in Requests)
    BY <1>1, MessageFields
<1>3. Taking
    BY DEF Taking, OnRequest, calls
<1>4. AnswerInv' /\ PendingInv'
    BY CallsStay DEF OnRequest, client
<1>5. ASSUME sChan' \in Channel, sOpn' \in Seq(Message), Len(sOpn') <= 1,
             working' \in SUBSET Requests, sUp' \in BOOLEAN
      PROVE  TypeOK'
    BY <1>1, <1>5 DEF IInv, TypeOK, OnRequest, client, opening, calls
<1>6. sUp \in BOOLEAN /\ listed \in BOOLEAN /\ working \in SUBSET Requests
      /\ sOpn \in Seq(Message) /\ Len(sOpn) <= 1
    BY DEF IInv, TypeOK
<1>7. CASE m.type = "OPN" /\ ProcessOpenSecureChannelRequest(m)
    <2>1. CASE listed /\ (m.id = 1 => sChan.State = "Unknown")
        <3>1. TokenInv' /\ sChan' \in Channel /\ sOpn' \in Seq(Message) /\ Len(sOpn') <= 1
            BY <1>3, <1>7, <2>1, TokenGiven DEF ProcessOpenSecureChannelRequest
        <3>2. working' = working /\ sUp' = sUp
            BY <1>7, <2>1 DEF ProcessOpenSecureChannelRequest
        <3> QED BY <1>4, <1>5, <1>6, <3>1, <3>2 DEF IInv
    <2>2. CASE ~(listed /\ (m.id = 1 => sChan.State = "Unknown"))
        <3>1. CloseOnError(sChan) /\ sOpn' = sOpn /\ working' = working
            BY <1>7, <2>2 DEF ProcessOpenSecureChannelRequest
        <3>2. sUp' \in BOOLEAN /\ sChan' \in {sChan, Close(sChan)}
            BY <1>6, <3>1 DEF CloseOnError
        <3>3. TokenInv' /\ sChan' \in Channel
            BY <1>1, <1>3, <3>1, <3>2, CloseFields, RequestTaken
        <3> QED BY <1>4, <1>5, <1>6, <3>1, <3>2, <3>3 DEF IInv
    <2> QED BY <2>1, <2>2
<1> DEFINE ch == GetSecuritySet(sChan, m.token)
<1>8. /\ ch \in Channel /\ ch.State = sChan.State /\ ch.Current = sChan.Current
      /\ ch.Previous = sChan.Previous /\ ch.NextTokenId = sChan.NextTokenId
      /\ ch.bCurrentTokenActive <=> (sChan.bCurrentTokenActive \/ m.token = sChan.Current)
    BY <1>1, <1>2, SecuritySetFields
<1> HIDE DEF ch
<1>9. ASSUME m.type # "OPN", sChan' \in {sChan, ch, Close(ch)}, sOpn' = sOpn
      PROVE  TokenInv' /\ sChan' \in Channel
    <2>1. /\ sChan' \in Channel /\ sChan'.Current = sChan.Current
          /\ sChan'.Previous = sChan.Previous /\ sChan'.NextTokenId = sChan.NextTokenId
          /\ sChan'.State = "Unknown" => sChan.State = "Unknown"
          /\ sChan'.bCurrentTokenActive => sChan.bCurrentTokenActive \/ m.token = sChan.Current
        BY <1>1, <1>8, <1>9, CloseFields
    <2> QED BY <1>3, <1>9, <2>1, RequestTaken DEF ServerToken
<1>10. CASE m.type = "MSG" /\ ProcessSessionCallRequest(m)
    <2>1. sChan' \in {sChan, ch, Close(ch)} /\ sOpn' = sOpn /\ sUp' \in BOOLEAN
          /\ working' \subseteq working \union {m.id}
        BY <1>6, <1>10 DEF ProcessSessionCallRequest, CloseOnError, ch
    <2>2. working' \in SUBSET Requests
        BY <1>2, <1>6, <1>10, <2>1
    <2> QED BY <1>4, <1>5, <1>6, <1>9, <1>10, <2>1, <2>2 DEF IInv
<1>11. CASE m.type = "CLO" /\ ProcessCloseSecureChannelRequest(m)
    <2>1. sChan' \in {sChan, ch, Close(ch)} /\ sOpn' = sOpn /\ sUp' \in BOOLEAN
          /\ working' = working
        BY <1>6, <1>11 DEF ProcessCloseSecureChannelRequest, CloseOnError, ch
    <2> QED BY <1>4, <1>5, <1>6, <1>9, <1>11, <2>1 DEF IInv
<1> QED BY <1>1, <1>7, <1>10, <1>11 DEF OnRequest

\* The answer to a request for a token is written, or gets lost.
LEMMA TokenAnnounced ==
    ASSUME IInv, sOpn # <<>>, sWrite = <<>>, sOpn' = <<>>,
           sChan' = sChan \/ sChan' = Close(sChan),
           s2c' = s2c \/ s2c' = Append(s2c, sOpn[1]),
           UNCHANGED <<client, opening, req, cWrite, working, sWrite, c2s>>
    PROVE  TokenInv' /\ s2c' \in Seq(Message)
<1> USE DEF ClientToken, ServerToken
<1>1. UNCHANGED <<cState, cChan, bRenewActive, opens, opn, req, cWrite, sWrite, c2s, working>>
    BY DEF client, opening
<1>2. /\ ServerToken' = ServerToken
      /\ sChan'.Previous = sChan.Previous /\ sChan'.NextTokenId = sChan.NextTokenId
      /\ sChan'.bCurrentTokenActive = sChan.bCurrentTokenActive
      /\ sChan'.State = "Unknown" => sChan.State = "Unknown"
    BY CloseFields DEF IInv, TypeOK
<1>3. /\ FirstOrRenewal /\ opn = "idle" /\ ServerToken = ClientToken + 1
      /\ NoOpn(c2s) /\ NoOpn(s2c) /\ sOpn[1] = OPN(opens, ServerToken)
    BY DEF IInv, TokenInv, ResponseInv
<1> DEFINE m == sOpn[1]
<1>4. s2c \in Seq(Message) /\ m \in Message
    BY DEF IInv, TypeOK
<1>5. m.type = "OPN" /\ m.id = opens /\ m.token = ServerToken
    BY <1>3 DEF OPN
<1>6. s2c' = s2c \/ s2c' = Append(s2c, m)
    OBVIOUS
<1> HIDE DEF m
<1>7. ClientToken \in Nat /\ ServerToken # ClientToken
    BY <1>3 DEF IInv, TypeOK, Channel
<1>8. /\ Len(s2c) \in Nat /\ s2c' \in Seq(Message)
      /\ \A i \in 1 .. Len(s2c') :
            \/ i \in 1 .. Len(s2c) /\ s2c'[i] = s2c[i]
            \/ i = Len(s2c) + 1 /\ s2c'[i] = m
      /\ \A i \in 1 .. Len(s2c) : s2c'[i] = s2c[i]
    BY <1>4, <1>6, AppendFields
<1>9. ChannelInv'
    BY <1>1, <1>2 DEF IInv, TokenInv, ChannelInv
<1>10. FirstOrRenewal'
    BY <1>1, <1>3 DEF FirstOrRenewal
<1>11. NoOpn(c2s') /\ RequestInv'
    BY <1>1, <1>3 DEF RequestInv
<1>12. ResponseInv'
    <2>1. \A i \in 1 .. Len(s2c') : s2c'[i].type = "OPN" =>
            i = Len(s2c) + 1 /\ s2c'[i].id = opens /\ s2c'[i].token = ServerToken
        BY <1>3, <1>5, <1>8 DEF NoOpn
    <2> QED BY <1>1, <1>2, <1>3, <1>10, <1>11, <2>1 DEF ResponseInv
<1>13. OpeningInv'
    BY <1>1, <1>3, <1>7 DEF IInv, TokenInv, OpeningInv, Settled, FirstOrRenewal
<1>14. CallerInv'
    BY <1>1 DEF IInv, TokenInv, CallerInv
<1>15. ToServerInv'
    BY <1>1, <1>2 DEF IInv, TokenInv, ToServerInv, SentToServer, WrittenToServer, NoOpn
<1>16. ToClientInv'
    <2>1. ToClientInv
        BY DEF IInv, TokenInv
    <2>2. ASSUME NEW i \in 1 .. Len(s2c'), s2c'[i].type # "OPN"
          PROVE  i \in 1 .. Len(s2c) /\ s2c'[i] = s2c[i]
        BY <1>5, <1>8, <2>2
    <2>3. SentToClient'
        <3>1. ASSUME NEW i \in 1 .. Len(s2c'), s2c'[i].type # "OPN"
              PROVE  /\ ClientToken >= 1
                     /\ s2c'[i].token = ClientToken \/ s2c'[i].token = ClientToken - 1
                     /\ \A j \in 1 .. i - 1 : s2c[j].type = "OPN" => s2c'[i].token = ClientToken
            BY <2>1, <2>2, <3>1 DEF ToClientInv, SentToClient
        <3>2. ASSUME NEW i \in 1 .. Len(s2c'), s2c'[i].type # "OPN", NEW j \in 1 .. i - 1
              PROVE  s2c'[j] = s2c[j]
            <4>1. i \in 1 .. Len(s2c)
                BY <2>2, <3>2
            <4> QED BY <1>8, <4>1
        <3> QED BY <1>1, <3>1, <3>2 DEF SentToClient
    <2>4. WrittenToClient'
        BY <1>1 DEF WrittenToClient
    <2> QED BY <2>3, <2>4 DEF ToClientInv
<1> QED BY <1>8, <1>9, <1>11, <1>12, <1>13, <1>14, <1>15, <1>16 DEF TokenInv

LEMMA SendOpenResponseKeeps ==
    ASSUME IInv, SendOpenResponse
    PROVE  IInv'
<1> USE DEF SendOpenResponse
<1>1. AnswerInv' /\ PendingInv'
    BY CallsStay DEF client
<1>2. TokenInv' /\ s2c' \in Seq(Message)
    BY TokenAnnounced DEF ToClient, calls
<1>3. <<>> \in Seq(Message) /\ Len(<<>>) <= 1
    OBVIOUS
<1>4. TypeOK'
    BY <1>2, <1>3 DEF IInv, TypeOK, client, opening, calls
<1> QED BY <1>1, <1>2, <1>4 DEF IInv

LEMMA SendOpenResponseFailsKeeps ==
    ASSUME IInv, SendOpenResponseFails
    PROVE  IInv'
<1> USE DEF SendOpenResponseFails
<1>1. AnswerInv' /\ PendingInv'
    BY CallsStay DEF client
<1>2. sUp' \in BOOLEAN /\ (sChan' = sChan \/ sChan' = Close(sChan))
    BY DEF CloseOnError, IInv, TypeOK
<1>3. TokenInv'
    BY <1>2, TokenAnnounced DEF calls
<1>4. <<>> \in Seq(Message) /\ Len(<<>>) <= 1
    OBVIOUS
<1>5. sChan' \in Channel
    BY <1>2, CloseFields DEF IInv, TypeOK
<1>6. TypeOK'
    BY <1>2, <1>4, <1>5 DEF IInv, TypeOK, client, opening, calls
<1> QED BY <1>1, <1>3, <1>6 DEF IInv

\* What the steps of a message on the server's side leave alone.
ServerWriting ==
    UNCHANGED <<client, opening, req, cWrite, sChan, sOpn, c2s>> /\ working' \subseteq working

LEMMA ServerWritingKeeps ==
    ASSUME IInv, ServerWriting, NoOpn(s2c') <=> NoOpn(s2c), ResponseInv', ToClientInv'
    PROVE  TokenInv'
<1> USE DEF ClientToken, ServerToken
<1>1. UNCHANGED <<cState, cChan, bRenewActive, opens, opn, req, cWrite, sChan, sOpn, c2s>>
    BY DEF ServerWriting, client, opening
<1>2. ChannelInv'
    BY <1>1 DEF IInv, TokenInv, ChannelInv
<1>3. FirstOrRenewal' <=> FirstOrRenewal
    BY <1>1 DEF FirstOrRenewal
<1>4. NoOpn(c2s') <=> NoOpn(c2s)
    BY <1>1
<1>5. Settled' <=> Settled
    BY <1>1, <1>4 DEF Settled
<1>6. RequestInv'
    BY <1>1, <1>3, <1>4 DEF IInv, TokenInv, RequestInv
<1>7. OpeningInv'
    BY <1>1, <1>3, <1>5 DEF IInv, TokenInv, OpeningInv
<1>8. CallerInv'
    BY <1>1 DEF IInv, TokenInv, CallerInv, ServerWriting
<1>9. ToServerInv'
    BY <1>1, <1>4 DEF IInv, TokenInv, ToServerInv, SentToServer, WrittenToServer
<1> QED BY <1>2, <1>6, <1>7, <1>8, <1>9 DEF TokenInv

LEMMA SecureResponseKeeps ==
    ASSUME IInv, NEW r \in Requests, SecureResponse(r)
    PROVE  IInv'
<1> USE DEF ClientToken, ServerToken
<1> DEFINE m == MSG(r, SendToken(sChan))
<1>1. m \in Message /\ m.type # "OPN" /\ m.token = SendToken(sChan)
    <2>1. SendToken(sChan) \in Nat
        BY DEF SendToken, IInv, TypeOK, Channel
    <2> QED BY <2>1, Messages DEF MSG
<1>2. sWrite' = <<m>>
    BY DEF SecureResponse
<1> HIDE DEF m
<1>3. TypeOK'
    BY <1>1, <1>2, OneMessage DEF SecureResponse, IInv, TypeOK, client, opening, calls, net
<1>4. AnswerInv' /\ PendingInv'
    BY CallsStay DEF SecureResponse, client
<1>5. UNCHANGED <<cChan, opens, opn, bRenewActive, sChan, sOpn, c2s, s2c>> /\ ServerWriting
    BY DEF SecureResponse, ServerWriting, client, opening, calls, net
<1>6. sWrite'[1] = m /\ sWrite' # <<>>
    BY <1>1, <1>2, OneMessage
<1>7. ClientToken \in Nat /\ ServerToken \in Nat /\ ClientToken >= 1
    BY DEF IInv, TypeOK, Channel, TokenInv, CallerInv, SecureResponse
<1>8. /\ m.token = ServerToken \/ m.token = ServerToken - 1
      /\ ServerToken = ClientToken + 1 => m.token = ClientToken
      /\ ServerToken = ClientToken \/ ServerToken = ClientToken + 1
    BY <1>1, <1>7 DEF SendToken, IInv, TokenInv, ChannelInv
<1>9. ~NoOpn(s2c) => ServerToken = ClientToken + 1
    BY DEF IInv, TokenInv, ResponseInv
<1>10. ResponseInv'
    BY <1>5 DEF IInv, TokenInv, ResponseInv, FirstOrRenewal, NoOpn
<1>11. ToClientInv'
    BY <1>1, <1>5, <1>6, <1>7, <1>8, <1>9 DEF IInv, TokenInv, ToClientInv, SentToClient, WrittenToClient
<1>12. TokenInv'
    BY <1>5, <1>10, <1>11, ServerWritingKeeps
<1> QED BY <1>3, <1>4, <1>12 DEF IInv

LEMMA WriteResponseKeeps ==
    ASSUME IInv, WriteResponse
    PROVE  IInv'
<1> USE DEF ClientToken, ServerToken
<1> DEFINE m == sWrite[1]
<1>1. s2c \in Seq(Message) /\ m \in Message
    BY DEF IInv, TypeOK, WriteResponse
<1>2. /\ m.type # "OPN" /\ ClientToken >= 1
      /\ m.token = ClientToken \/ m.token = ClientToken - 1
      /\ ~NoOpn(s2c) => m.token = ClientToken
    BY DEF IInv, TokenInv, ToClientInv, SentToClient, WrittenToClient, WriteResponse
<1>3. s2c' = s2c \/ s2c' = Append(s2c, m)
    BY DEF ToClient, WriteResponse
<1> HIDE DEF m
<1>4. /\ UNCHANGED <<cChan, opens, opn, bRenewActive, sChan, sOpn, c2s>> /\ ServerWriting
      /\ sWrite' = <<>>
    BY DEF WriteResponse, ServerWriting, client, opening, calls
<1>5. ToClientInv /\ ResponseInv
    BY DEF IInv, TokenInv
<1>6. AnswerInv' /\ PendingInv'
    BY CallsStay DEF WriteResponse, client
<1>7. s2c' \in Seq(Message)
    BY <1>1, <1>3, AppendFields
<1>8. TypeOK'
    <2>1. <<>> \in Seq(Message) /\ Len(<<>>) <= 1
        OBVIOUS
    <2> QED BY <1>7, <2>1 DEF WriteResponse, IInv, TypeOK, client, opening, calls
<1>9. CASE s2c' = s2c
    <2>1. ResponseInv'
        BY <1>4, <1>5, <1>9 DEF ResponseInv, NoOpn, FirstOrRenewal
    <2>2. ToClientInv'
        BY <1>4, <1>5, <1>9 DEF ToClientInv, SentToClient, WrittenToClient
    <2>3. TokenInv'
        BY <1>4, <1>9, <2>1, <2>2, ServerWritingKeeps
    <2> QED BY <1>6, <1>8, <2>3 DEF IInv
<1>10. CASE s2c' = Append(s2c, m)
    <2>1. /\ Len(s2c) \in Nat /\ Len(s2c') = Len(s2c) + 1
          /\ \A i \in 1 .. Len(s2c) : s2c'[i] = s2c[i]
          /\ s2c'[Len(s2c) + 1] = m
        BY <1>1, <1>10, AppendFields
    <2>2. \A i \in 1 .. Len(s2c') : s2c'[i].type = "OPN" => i \in 1 .. Len(s2c)
        BY <1>2, <2>1
    <2>3. NoOpn(s2c') <=> NoOpn(s2c)
        BY <2>1, <2>2 DEF NoOpn
    <2>4. ResponseInv'
        <3>1. FirstOrRenewal' <=> FirstOrRenewal
            BY <1>4 DEF FirstOrRenewal
        <3> QED BY <1>4, <1>5, <2>1, <2>2, <2>3, <3>1 DEF ResponseInv
    <2>5. ToClientInv'
        <3>1. ASSUME NEW i \in 1 .. Len(s2c'), s2c'[i].type # "OPN"
              PROVE  /\ ClientToken >= 1
                     /\ s2c'[i].token = ClientToken \/ s2c'[i].token = ClientToken - 1
                     /\ \A j \in 1 .. i - 1 : s2c'[j].type = "OPN" => s2c'[i].token = ClientToken
            <4>1. CASE i \in 1 .. Len(s2c)
                BY <1>5, <2>1, <3>1, <4>1 DEF ToClientInv, SentToClient, WrittenToClient
            <4>2. CASE i = Len(s2c) + 1
                BY <1>2, <2>1, <2>2, <4>2 DEF NoOpn
            <4> QED BY <2>1, <4>1, <4>2
        <3> QED BY <1>4, <3>1 DEF ToClientInv, SentToClient, WrittenToClient
    <2>6. TokenInv'
        BY <1>4, <2>3, <2>4, <2>5, ServerWritingKeeps
    <2> QED BY <1>6, <1>8, <2>6 DEF IInv
<1> QED BY <1>3, <1>9, <1>10

-----------------------------------------------------------------------------
(* The client takes a response.                                             *)

\* What the client's transport thread leaves alone when it takes a response.
Hearing == UNCHANGED <<opens, opn, req, cWrite, server, c2s>> /\ s2c # <<>> /\ s2c' = Tail(s2c)

\* The response is not for a token, or it is ignored.
LEMMA ResponseTaken ==
    ASSUME IInv, Hearing, UNCHANGED <<cState, bRenewActive>>,
           cChan' = cChan \/ (cChan' = GetSecuritySet(cChan, s2c[1].token) /\ s2c[1].type # "OPN")
    PROVE  TokenInv' /\ cChan' \in Channel
<1> USE DEF ClientToken, ServerToken
<1>1. UNCHANGED <<cState, bRenewActive, opens, opn, req, cWrite, sChan, sOpn, working, sWrite, c2s>>
    BY DEF Hearing, server
<1>2. s2c \in Seq(Message) /\ s2c # <<>> /\ s2c' = Tail(s2c) /\ cChan \in Channel
    BY DEF IInv, TypeOK, Hearing
<1>3. /\ s2c[1] \in Message /\ Len(s2c) \in Nat \ {0} /\ Len(s2c') = Len(s2c) - 1
      /\ \A i \in 1 .. Len(s2c') : i + 1 \in 1 .. Len(s2c) /\ s2c'[i] = s2c[i + 1]
    BY <1>2, TailFields
<1>4. NoOpn(s2c) => NoOpn(s2c')
    BY <1>2, OpnTaken
<1>5. ClientToken \in Nat
    BY <1>2 DEF Channel
<1>6. s2c[1].type # "OPN" => ClientToken >= 1
    BY <1>3 DEF IInv, TokenInv, ToClientInv, SentToClient, WrittenToClient
<1>7. /\ cChan' \in Channel /\ ClientToken' = ClientToken /\ cChan'.Previous = cChan.Previous
      /\ cChan.bCurrentTokenActive => cChan'.bCurrentTokenActive
    <2>1. CASE cChan' = cChan
        BY <1>2, <2>1
    <2>2. CASE cChan' = GetSecuritySet(cChan, s2c[1].token)
        BY <1>2, <1>3, <2>2, SecuritySetFields, MessageFields
    <2> QED BY <2>1, <2>2
<1>8. ChannelInv'
    BY <1>1, <1>5, <1>7 DEF IInv, TokenInv, ChannelInv
<1>9. FirstOrRenewal' <=> FirstOrRenewal
    BY <1>1, <1>7 DEF FirstOrRenewal
<1>10. Settled => Settled'
    BY <1>1, <1>4, <1>7 DEF Settled
<1>11. NoOpn(c2s') <=> NoOpn(c2s)
    BY <1>1
<1>12. RequestInv'
    BY <1>1, <1>4, <1>7, <1>9, <1>11 DEF IInv, TokenInv, RequestInv
<1>13. ResponseInv'
    <2>1. ResponseInv
        BY DEF IInv, TokenInv
    <2>2. \A i, j \in 1 .. Len(s2c') :
            s2c'[i].type = "OPN" /\ s2c'[j].type = "OPN" => NoOpn(s2c') \/ i = j
        <3> SUFFICES ASSUME ~NoOpn(s2c'), NEW i \in 1 .. Len(s2c'), NEW j \in 1 .. Len(s2c'),
                            s2c'[i].type = "OPN", s2c'[j].type = "OPN"
                     PROVE  i = j
            OBVIOUS
        <3>1. i + 1 = j + 1
            BY <1>3, <1>4, <2>1 DEF ResponseInv
        <3> QED BY <3>1
    <2>3. \A i \in 1 .. Len(s2c') : s2c'[i].type = "OPN" =>
            NoOpn(s2c') \/ (s2c'[i].id = opens /\ s2c'[i].token = ServerToken)
        <3> SUFFICES ASSUME ~NoOpn(s2c'), NEW i \in 1 .. Len(s2c'), s2c'[i].type = "OPN"
                     PROVE  s2c'[i].id = opens /\ s2c'[i].token = ServerToken
            OBVIOUS
        <3>1. \A j \in 1 .. Len(s2c) :
                s2c[j].type = "OPN" => s2c[j].id = opens /\ s2c[j].token = ServerToken
            BY <1>4, <2>1 DEF ResponseInv
        <3> QED BY <1>3, <3>1
    <2>4. CASE NoOpn(s2c')
        BY <1>1, <1>4, <1>7, <1>9, <1>11, <2>1, <2>4 DEF ResponseInv, NoOpn
    <2>5. CASE ~NoOpn(s2c')
        BY <1>1, <1>4, <1>7, <1>9, <1>11, <2>1, <2>2, <2>3, <2>5 DEF ResponseInv
    <2> QED BY <2>4, <2>5
<1>14. OpeningInv'
    BY <1>1, <1>7, <1>9, <1>10 DEF IInv, TokenInv, OpeningInv
<1>15. CallerInv'
    BY <1>1, <1>7 DEF IInv, TokenInv, CallerInv
<1>16. ToServerInv'
    BY <1>1, <1>7, <1>11 DEF IInv, TokenInv, ToServerInv, SentToServer, WrittenToServer
<1>17. ToClientInv'
    <2>1. ToClientInv
        BY DEF IInv, TokenInv
    <2>2. ASSUME NEW i \in 1 .. Len(s2c'), s2c'[i].type # "OPN"
          PROVE  /\ ClientToken >= 1
                 /\ s2c'[i].token = ClientToken \/ s2c'[i].token = ClientToken - 1
        BY <1>3, <2>1, <2>2 DEF ToClientInv, SentToClient, WrittenToClient
    <2>3. ASSUME NEW i \in 1 .. Len(s2c'), s2c'[i].type # "OPN",
                 NEW j \in 1 .. i - 1, s2c'[j].type = "OPN"
          PROVE  s2c'[i].token = ClientToken
        <3>1. j \in 1 .. Len(s2c') /\ j + 1 \in 1 .. (i + 1) - 1
            BY <1>3
        <3> QED BY <1>3, <2>1, <2>3, <3>1 DEF ToClientInv, SentToClient, WrittenToClient
    <2>4. SentToClient'
        BY <1>1, <1>7, <2>2, <2>3 DEF SentToClient
    <2>5. WrittenToClient'
        BY <1>1, <1>4, <1>7, <2>1 DEF ToClientInv, WrittenToClient
    <2> QED BY <2>4, <2>5 DEF ToClientInv
<1> QED BY <1>7, <1>8, <1>12, <1>13, <1>14, <1>15, <1>16, <1>17 DEF TokenInv

\* The client takes the token it asked for: the two ends are in step again.
LEMMA TokenTaken ==
    ASSUME IInv, Hearing, s2c[1].type = "OPN", cState' = "Connected", bRenewActive' = FALSE,
           cChan' = IF bRenewActive
                      THEN GetSecuritySet(Renew(cChan, s2c[1].token), s2c[1].token)
                      ELSE Open(cChan, s2c[1].token)
    PROVE  TokenInv' /\ cChan' \in Channel
<1> USE DEF ClientToken, ServerToken
<1>1. UNCHANGED <<opens, opn, req, cWrite, sChan, sOpn, working, sWrite, c2s>>
    BY DEF Hearing, server
<1>2. s2c \in Seq(Message) /\ s2c # <<>> /\ s2c' = Tail(s2c) /\ cChan \in Channel
    BY DEF IInv, TypeOK, Hearing
<1>3. /\ s2c[1] \in Message /\ Len(s2c) \in Nat \ {0} /\ Len(s2c') = Len(s2c) - 1
      /\ \A i \in 1 .. Len(s2c') : i + 1 \in 1 .. Len(s2c) /\ s2c'[i] = s2c[i + 1]
    BY <1>2, TailFields
<1>4. ~NoOpn(s2c)
    BY <1>2, OpnTaken
<1>5. /\ FirstOrRenewal /\ opn = "idle" /\ ServerToken = ClientToken + 1 /\ NoOpn(c2s)
      /\ sOpn = <<>> /\ s2c[1].token = ServerToken
      /\ \A i, j \in 1 .. Len(s2c) : s2c[i].type = "OPN" /\ s2c[j].type = "OPN" => i = j
    BY <1>3, <1>4 DEF IInv, TokenInv, ResponseInv
<1>6. NoOpn(s2c')
    BY <1>2, <1>5, OpnTaken
<1>7. ClientToken \in Nat /\ opens \in Nat /\ opens >= 1
    BY <1>2, <1>5 DEF IInv, TypeOK, Channel, FirstOrRenewal
<1>8. /\ cChan' \in Channel /\ ClientToken' = ServerToken
      /\ cChan'.Previous = ClientToken /\ cChan'.bCurrentTokenActive
    <2> DEFINE t == s2c[1].token
    <2>1. t = ServerToken /\ t \in Nat
        BY <1>3, <1>5, MessageFields
    <2> HIDE DEF t
    <2>2. CASE bRenewActive
        <3> DEFINE ch == Renew(cChan, t)
        <3>1. ch \in Channel /\ ch.Current = t /\ ch.Previous = ClientToken
            BY <1>2, <2>1, RenewFields
        <3> HIDE DEF ch
        <3>2. /\ GetSecuritySet(ch, t) \in Channel /\ GetSecuritySet(ch, t).Current = ch.Current
              /\ GetSecuritySet(ch, t).Previous = ch.Previous
              /\ GetSecuritySet(ch, t).bCurrentTokenActive
            BY <2>1, <3>1, SecuritySetFields
        <3>3. cChan' = GetSecuritySet(ch, t)
            BY <2>2 DEF ch, t
        <3> QED BY <2>1, <3>1, <3>2, <3>3
    <2>3. CASE ~bRenewActive
        <3>1. ClientToken = 0 /\ cChan.Previous = 0
            BY <1>5, <1>7, <2>3 DEF FirstOrRenewal, IInv, TokenInv, ChannelInv
        <3>2. /\ Open(cChan, t) \in Channel /\ Open(cChan, t).Current = t
              /\ Open(cChan, t).Previous = cChan.Previous /\ Open(cChan, t).bCurrentTokenActive
            BY <1>2, <2>1, OpenFields
        <3>3. cChan' = Open(cChan, t)
            BY <2>3 DEF t
        <3> QED BY <2>1, <3>1, <3>2, <3>3
    <2> QED BY <2>2, <2>3
<1>9. Settled'
    BY <1>1, <1>5, <1>6, <1>8 DEF Settled
<1>10. ChannelInv'
    BY <1>1, <1>5, <1>7, <1>8 DEF IInv, TokenInv, ChannelInv
<1>11. RequestInv' /\ ResponseInv'
    BY <1>9 DEF Settled, RequestInv, ResponseInv
<1>12. OpeningInv'
    BY <1>1, <1>5, <1>7, <1>9 DEF OpeningInv
<1>13. CallerInv'
    BY <1>5, <1>7, <1>8 DEF CallerInv
<1>14. ToServerInv'
    <2>1. ToServerInv
        BY DEF IInv, TokenInv
    <2>2. \A i \in 1 .. Len(c2s) : c2s[i].token \in Nat
        BY MessageFields DEF IInv, TypeOK
    <2>3. cWrite # <<>> => cWrite[1].token \in Nat
        BY MessageFields DEF IInv, TypeOK
    <2>4. SentToServer'
        BY <1>1, <1>5, <1>7, <1>8, <2>1, <2>2 DEF ToServerInv, SentToServer
    <2>5. WrittenToServer'
        BY <1>1, <1>5, <1>7, <1>8, <2>1, <2>3 DEF ToServerInv, WrittenToServer, NoOpn
    <2> QED BY <2>4, <2>5 DEF ToServerInv
<1>15. ToClientInv'
    <2>1. ToClientInv
        BY DEF IInv, TokenInv
    <2>2. ASSUME NEW i \in 1 .. Len(s2c'), s2c'[i].type # "OPN"
          PROVE  s2c'[i].token = ClientToken
        <3>1. 1 \in 1 .. (i + 1) - 1 /\ i + 1 \in 1 .. Len(s2c) /\ s2c'[i] = s2c[i + 1]
            BY <1>3
        <3> QED BY <2>1, <2>2, <3>1 DEF ToClientInv, SentToClient, WrittenToClient
    <2>3. sWrite # <<>> => sWrite[1].type # "OPN" /\ sWrite[1].token = ClientToken
        BY <1>4, <2>1 DEF ToClientInv, SentToClient, WrittenToClient
    <2>4. \A i \in 1 .. Len(s2c') : \A j \in 1 .. i - 1 : s2c'[j].type # "OPN"
        BY <1>3, <1>6 DEF NoOpn
    <2>5. SentToClient'
        BY <1>1, <1>5, <1>7, <1>8, <2>2, <2>4 DEF SentToClient
    <2>6. WrittenToClient'
        BY <1>1, <1>6, <1>5, <1>7, <1>8, <2>3 DEF WrittenToClient
    <2> QED BY <2>5, <2>6 DEF ToClientInv
<1> QED BY <1>8, <1>10, <1>11, <1>12, <1>13, <1>14, <1>15 DEF TokenInv

LEMMA OnResponseKeeps ==
    ASSUME IInv, OnResponse
    PROVE  IInv'
<1> DEFINE m == s2c[1]
<1>1. /\ s2c \in Seq(Message) /\ m \in Message /\ Head(s2c) = m
      /\ s2c' = Tail(s2c) /\ Tail(s2c) \in Seq(Message)
    BY TailFields DEF IInv, TypeOK, OnResponse
<1>2. ASSUME cState' \in ConnStates, cChan' \in Channel, bRenewActive' \in BOOLEAN,
             pendingOpen' \in SUBSET (1 .. MaxOpen), pending' \in SUBSET Requests,
             req' = req, outcomes' \in [Requests -> Nat]
      PROVE  TypeOK'
    BY <1>1, <1>2 DEF IInv, TypeOK, OnResponse, server
<1>3. /\ cState \in ConnStates /\ cChan \in Channel /\ bRenewActive \in BOOLEAN
      /\ pendingOpen \in SUBSET (1 .. MaxOpen) /\ pending \in SUBSET Requests
      /\ outcomes \in [Requests -> Nat]
    BY DEF IInv, TypeOK
<1>4. CASE m.type = "OPN" /\ ProcessOpenSecureChannelResponse(m)
    <2>1. UNCHANGED calls /\ pendingOpen' \in SUBSET (1 .. MaxOpen) /\ Hearing
        BY <1>3, <1>4 DEF ProcessOpenSecureChannelResponse, Hearing, OnResponse, calls
    <2>2. AnswerInv'
        BY <2>1 DEF IInv, AnswerInv, calls
    <2>3. CASE cState \in {"Connected", "ConnectingSecure"} /\ m.id \in pendingOpen
        <3>1. cState' = "Connected" /\ bRenewActive' = FALSE
            BY <1>4, <2>3 DEF ProcessOpenSecureChannelResponse
        <3>2. TokenInv' /\ cChan' \in Channel
            BY <1>4, <2>1, <2>3, <3>1, TokenTaken DEF ProcessOpenSecureChannelResponse
        <3>3. PendingInv'
            BY <3>1 DEF PendingInv
        <3>4. TypeOK'
            BY <1>2, <1>3, <2>1, <3>1, <3>2 DEF ConnStates, calls
        <3> QED BY <2>2, <3>2, <3>3, <3>4 DEF IInv
    <2>4. CASE ~(cState \in {"Connected", "ConnectingSecure"} /\ m.id \in pendingOpen)
        <3>1. UNCHANGED client
            BY <1>4, <2>4 DEF ProcessOpenSecureChannelResponse
        <3>2. TokenInv' /\ cChan' \in Channel
            BY <2>1, <3>1, ResponseTaken DEF client
        <3>3. PendingInv'
            BY <2>1, <3>1 DEF IInv, PendingInv, client, calls, OnResponse
        <3>4. TypeOK'
            BY <1>2, <1>3, <2>1, <3>1, <3>2 DEF client, calls
        <3> QED BY <2>2, <3>2, <3>3, <3>4 DEF IInv
    <2> QED BY <2>3, <2>4
<1>5. CASE m.type = "MSG" /\ ProcessSessionCallResponse(m)
    <2>1. UNCHANGED <<cState, bRenewActive, pendingOpen, req, disc>> /\ Hearing
        BY <1>5 DEF ProcessSessionCallResponse, Hearing, OnResponse
    <2>2. TokenInv' /\ cChan' \in Channel
        BY <1>5, <2>1, ResponseTaken DEF ProcessSessionCallResponse
    <2>3. AnswerInv' /\ outcomes' \in [Requests -> Nat] /\ pending' \subseteq pending
        <3>1. CASE Answer(pending \intersect {m.id})
            BY <2>1, <3>1, AnswerKeeps DEF IInv
        <3>2. CASE UNCHANGED <<pending, outcomes>>
            BY <1>3, <2>1, <3>2 DEF IInv, AnswerInv
        <3> QED BY <1>5, <3>1, <3>2 DEF ProcessSessionCallResponse
    <2>4. PendingInv'
        BY <2>1, <2>3 DEF IInv, PendingInv
    <2>5. TypeOK'
        BY <1>2, <1>3, <2>1, <2>2, <2>3
    <2> QED BY <2>2, <2>3, <2>4, <2>5 DEF IInv
<1> QED BY <1>1, <1>4, <1>5 DEF OnResponse

-----------------------------------------------------------------------------
(* Who is writing.                                                          *)

LEMMA WritersStay ==
    ASSUME WritingInv, cWrite' = cWrite, disc' = "writing" => disc = "writing",
           \A r \in Requests : req'[r] = "writing" => req[r] = "writing"
    PROVE  WritingInv'
BY DEF WritingInv

LEMMA WritingKeeps ==
    ASSUME TypeOK, WritingInv, [Next]_vars
    PROVE  WritingInv'
<1>1. req \in [Requests -> ReqStates]
    BY DEF TypeOK
<1>2. CASE Opening
    BY <1>2, WritersStay DEF Opening, RenewTimer, BeginOpenSecureChannel, RegisterOpen, SendOpen,
       SendOpenFails, calls
<1>3. ASSUME NEW r \in Requests, Call(r)
      PROVE  WritingInv'
    <2>1. CASE BeginSendRequest(r)
        BY <1>1, <2>1, WritersStay DEF BeginSendRequest
    <2>2. CASE EndSendRequest(r)
        BY <1>1, <2>2, WritersStay DEF EndSendRequest
    <2>3. CASE SecureRequest(r)
        <3>1. cWrite' # <<>> /\ cWrite'[1].type = "MSG" /\ cWrite'[1].id = r
            BY <2>3 DEF SecureRequest, MSG
        <3>2. \A x \in Requests : req'[x] = "writing" => x = r
            BY <1>1, <2>3 DEF SecureRequest, WritingInv
        <3>3. disc' # "writing"
            BY <2>3 DEF SecureRequest, WritingInv
        <3> QED BY <3>1, <3>2, <3>3 DEF WritingInv
    <2>4. CASE WriteRequest(r) \/ WriteRequestFails(r)
        <3>1. /\ req[r] = "writing" /\ disc' = disc
              /\ req' = [req EXCEPT ![r] = "returned"]
            BY <2>4 DEF WriteRequest, WriteRequestFails
        <3>2. disc' # "writing"
            BY <3>1 DEF WritingInv
        <3>3. \A x \in Requests : req'[x] # "writing"
            BY <1>1, <3>1 DEF WritingInv
        <3> QED BY <3>2, <3>3 DEF WritingInv
    <2> QED BY <1>3, <2>1, <2>2, <2>3, <2>4 DEF Call
<1>4. CASE Disconnecting
    <2>1. CASE Disconnect \/ SetDisconnected \/ DisconnectTransport \/ CancelOpenRequests
        BY <2>1, WritersStay DEF Disconnect, SetDisconnected, DisconnectTransport,
           CancelOpenRequests, calls
    <2>2. CASE SecureClose
        <3>1. CASE cState \in {"Connected", "DisconnectingSecure"}
            <4>1. cWrite' # <<>> /\ cWrite'[1].type = "CLO"
                BY <2>2, <3>1 DEF SecureClose, CLO
            <4>2. \A x \in Requests : req'[x] # "writing"
                BY <2>2, <3>1 DEF SecureClose, WritingInv, calls
            <4> QED BY <4>1, <4>2 DEF WritingInv
        <3>2. CASE cState \notin {"Connected", "DisconnectingSecure"}
            BY <2>2, <3>2, WritersStay DEF SecureClose, calls
        <3> QED BY <3>1, <3>2
    <2>3. CASE WriteClose \/ WriteCloseFails
        <3>1. disc = "writing" /\ disc' # "writing" /\ req' = req
            BY <2>3 DEF WriteClose, WriteCloseFails, calls
        <3>2. \A x \in Requests : req'[x] # "writing"
            BY <3>1 DEF WritingInv
        <3> QED BY <3>1, <3>2 DEF WritingInv
    <2> QED BY <1>4, <2>1, <2>2, <2>3 DEF Disconnecting
<1>5. CASE OnNotify
    <2>1. UNCHANGED <<req, disc, cWrite>>
        BY <1>5 DEF OnNotify, Connect, OnConnect, OnConnectFailed, OnResponse, OnDisconnect,
           ProcessOpenSecureChannelResponse, ProcessSessionCallResponse, calls
    <2> QED BY <2>1, WritersStay
<1>6. CASE Listener \/ LinkBreaks \/ WatchdogTimerOpen
    <2>1. UNCHANGED <<req, disc, cWrite>>
        BY <1>6 DEF Listener, OnRequest, SendOpenResponse, SendOpenResponseFails, OnChannelClosed,
           WriteResponse, ChannelTimeout, LinkBreaks, WatchdogTimerOpen, calls
    <2> QED BY <2>1, WritersStay
<1>7. ASSUME NEW r \in Requests, WatchdogTimer(r) \/ SecureResponse(r) \/ CancelSendResponse(r)
      PROVE  WritingInv'
    <2>1. UNCHANGED <<req, disc, cWrite>>
        BY <1>7 DEF WatchdogTimer, SecureResponse, CancelSendResponse, calls
    <2> QED BY <2>1, WritersStay
<1>8. CASE UNCHANGED vars
    BY <1>8, WritersStay DEF vars, calls
<1> QED BY <1>2, <1>3, <1>4, <1>5, <1>6, <1>7, <1>8 DEF Next

-----------------------------------------------------------------------------
(* The session calls on the wire.                                           *)

LEMMA InIds ==
    ASSUME NEW q, NEW r
    PROVE  r \in Ids(q) <=> \E i \in 1 .. Len(q) : q[i].type = "MSG" /\ q[i].id = r
BY DEF Ids

LEMMA IdsAppend ==
    ASSUME NEW q \in Seq(Message), NEW m \in Message, Distinct(q)
    PROVE  /\ Ids(Append(q, m)) = Ids(q) \union (IF m.type = "MSG" THEN {m.id} ELSE {})
           /\ (m.type = "MSG" => m.id \notin Ids(q)) => Distinct(Append(q, m))
<1>1. ASSUME NEW r
      PROVE  r \in Ids(Append(q, m)) <=> r \in Ids(q) \/ (m.type = "MSG" /\ r = m.id)
    <2> DEFINE p == Append(q, m)
    <2>1. /\ Len(q) \in Nat /\ Len(p) = Len(q) + 1 /\ p[Len(q) + 1] = m
          /\ \A i \in 1 .. Len(q) : p[i] = q[i]
        BY AppendFields
    <2> HIDE DEF p
    <2>2. Len(q) + 1 \in 1 .. Len(p) /\ \A i \in 1 .. Len(q) : i \in 1 .. Len(p)
        BY <2>1
    <2>3. \A i \in 1 .. Len(p) : i \in 1 .. Len(q) \/ i = Len(q) + 1
        BY <2>1
    <2>4. r \in Ids(p) <=> r \in Ids(q) \/ (m.type = "MSG" /\ r = m.id)
        BY <2>1, <2>2, <2>3, InIds
    <2> QED BY <2>4 DEF p
<1>2. ASSUME m.type = "MSG" => m.id \notin Ids(q)
      PROVE  Distinct(Append(q, m))
    BY <1>2, AppendFields, InIds DEF Distinct
<1> QED BY <1>1, <1>2

LEMMA IdsTail ==
    ASSUME NEW q \in Seq(Message), q # <<>>, Distinct(q)
    PROVE  /\ Ids(Tail(q)) = Ids(q) \ (IF q[1].type = "MSG" THEN {q[1].id} ELSE {})
           /\ q[1].type = "MSG" => q[1].id \in Ids(q)
           /\ Distinct(Tail(q))
<1>1. /\ Len(q) \in Nat \ {0} /\ Len(Tail(q)) = Len(q) - 1
      /\ \A i \in 1 .. Len(q) - 1 : Tail(q)[i] = q[i + 1]
    BY TailFields
<1>2. ASSUME NEW r, r \in Ids(Tail(q))
      PROVE  r \in Ids(q) /\ ~(q[1].type = "MSG" /\ r = q[1].id)
    <2>1. PICK i \in 1 .. Len(Tail(q)) : Tail(q)[i].type = "MSG" /\ Tail(q)[i].id = r
        BY <1>2, InIds
    <2>2. i + 1 \in 1 .. Len(q) /\ q[i + 1].type = "MSG" /\ q[i + 1].id = r /\ i + 1 # 1
        BY <1>1, <2>1
    <2>3. 1 \in 1 .. Len(q)
        BY <1>1
    <2> QED BY <2>2, <2>3, InIds DEF Distinct
<1>3. ASSUME NEW r, r \in Ids(q), ~(q[1].type = "MSG" /\ r = q[1].id)
      PROVE  r \in Ids(Tail(q))
    <2>1. PICK i \in 1 .. Len(q) : q[i].type = "MSG" /\ q[i].id = r
        BY <1>3, InIds
    <2>2. i - 1 \in 1 .. Len(Tail(q)) /\ Tail(q)[i - 1] = q[i]
        BY <1>1, <1>3, <2>1
    <2> QED BY <2>1, <2>2, InIds
<1>4. q[1].type = "MSG" => q[1].id \in Ids(q)
    BY <1>1, InIds
<1>5. Distinct(Tail(q))
    <2>1. \A i \in 1 .. Len(Tail(q)) : i + 1 \in 1 .. Len(q) /\ Tail(q)[i] = q[i + 1]
        BY <1>1
    <2>2. ASSUME NEW i \in 1 .. Len(Tail(q)), NEW j \in 1 .. Len(Tail(q)),
                 Tail(q)[i].type = "MSG", Tail(q)[j].type = "MSG", Tail(q)[i].id = Tail(q)[j].id
          PROVE  i = j
        <3>1. i + 1 = j + 1
            BY <2>1, <2>2 DEF Distinct
        <3> QED BY <3>1, <1>1
    <2> QED BY <2>2 DEF Distinct
<1> QED BY <1>2, <1>3, <1>4, <1>5

LEMMA IdsEmpty == Ids(<<>>) = {} /\ Distinct(<<>>)
BY DEF Ids, Distinct

LEMMA IdsSent ==
    ASSUME IInv, FlowInv, NEW m \in Message, ToServer(m), m.type = "MSG" => m.id \notin Ids(c2s)
    PROVE  /\ m.type # "MSG" => Ids(c2s)' = Ids(c2s)
           /\ m.type = "MSG" => Ids(c2s)' \in {Ids(c2s), Ids(c2s) \union {m.id}}
           /\ Distinct(c2s)'
<1>1. c2s \in Seq(Message) /\ Distinct(c2s)
    BY DEF IInv, TypeOK, FlowInv
<1>2. c2s' = Append(c2s, m) \/ c2s' = c2s
    BY DEF ToServer
<1> QED BY <1>1, <1>2, IdsAppend

LEMMA IdsReplied ==
    ASSUME IInv, FlowInv, NEW m \in Message, ToClient(m), m.type = "MSG" => m.id \notin Ids(s2c)
    PROVE  /\ m.type # "MSG" => Ids(s2c)' = Ids(s2c)
           /\ m.type = "MSG" => Ids(s2c)' \in {Ids(s2c), Ids(s2c) \union {m.id}}
           /\ Distinct(s2c)'
<1>1. s2c \in Seq(Message) /\ Distinct(s2c)
    BY DEF IInv, TypeOK, FlowInv
<1>2. s2c' = Append(s2c, m) \/ s2c' = s2c
    BY DEF ToClient
<1> QED BY <1>1, <1>2, IdsAppend

\* The wire carries the same calls as before.
Flowless ==
    /\ Ids(c2s)' = Ids(c2s) /\ Ids(s2c)' = Ids(s2c) /\ working' = working
    /\ Distinct(c2s)' /\ Distinct(s2c)'

LEMMA WireStays ==
    ASSUME FlowInv, UNCHANGED <<c2s, s2c, working>>
    PROVE  Flowless
BY DEF FlowInv, Flowless

LEMMA FlowStays ==
    ASSUME FlowInv, Flowless, Returned \subseteq Returned', sWrite' = sWrite \/ sWrite' = <<>>
    PROVE  FlowInv'
BY DEF FlowInv, Flowless

LEMMA HeardStays ==
    ASSUME HeardInv, UNCHANGED calls
    PROVE  HeardInv' /\ Returned' = Returned /\ Progress' = Progress
BY DEF HeardInv, Returned, Progress, calls

\* Nothing that the callers can see.
LEMMA Unseen ==
    ASSUME UNCHANGED calls, Flowless, Ended <=> Ended'
    PROVE  UNCHANGED Calls!vars
<1>1. Progress' = Progress
    BY DEF Progress, calls
<1>2. Ended' = Ended
    BY DEF Ended
<1> QED BY <1>1, <1>2 DEF Flowless, calls, Calls!vars, Calls!caller, Calls!server

-----------------------------------------------------------------------------
(* The steps of a call.                                                      *)

LEMMA BeginIsBegin ==
    ASSUME IInv, CallsInv, NEW r \in Requests, BeginSendRequest(r)
    PROVE  CallsInv' /\ Calls!Begin(r)
<1> USE DEF BeginSendRequest
<1>1. /\ req \in [Requests -> ReqStates] /\ req[r] = "idle"
      /\ req' = [req EXCEPT ![r] = "begun"]
      /\ UNCHANGED <<pending, outcomes, working, sWrite, c2s, s2c, cUp, opens, cState, disc>>
    BY DEF IInv, TypeOK, client, opening, server, net
<1>2. FlowInv'
    BY <1>1, WireStays, FlowStays DEF CallsInv, Returned
<1>3. HeardInv'
    BY <1>1 DEF CallsInv, HeardInv
<1>4. Progress[r] = "idle" /\ Progress' = [Progress EXCEPT ![r] = "inside"]
    BY <1>1 DEF Progress
<1>5. ~Ended /\ Ended' = Ended
    BY <1>1 DEF Ended
<1>6. Ids(c2s)' = Ids(c2s) /\ Ids(s2c)' = Ids(s2c)
    BY <1>1
<1> QED BY <1>1, <1>2, <1>3, <1>4, <1>5, <1>6 DEF CallsInv, Calls!Begin, Calls!server

LEMMA EndSendIsWaitOrRefuse ==
    ASSUME IInv, CallsInv, NEW r \in Requests, EndSendRequest(r)
    PROVE  CallsInv' /\ (Calls!Wait(r) \/ Calls!Refuse(r))
<1> USE DEF EndSendRequest
<1>1. /\ req \in [Requests -> ReqStates] /\ req[r] = "begun"
      /\ outcomes \in [Requests -> Nat] /\ pending \subseteq Requests
      /\ UNCHANGED <<working, sWrite, c2s, s2c, cUp, opens, cState, disc>>
    BY DEF IInv, TypeOK, client, opening, server, net
<1>2. r \notin pending /\ outcomes[r] = 0 /\ Progress[r] = "inside"
    BY <1>1 DEF IInv, AnswerInv, Progress
<1>3. (Ended' = Ended) /\ Ids(c2s)' = Ids(c2s) /\ Ids(s2c)' = Ids(s2c)
    BY <1>1 DEF Ended
<1>4. CASE cState \in {"Connected", "DisconnectingSecure"}
    <2>1. /\ pending' = pending \union {r} /\ req' = [req EXCEPT ![r] = "registered"]
          /\ outcomes' = outcomes
        BY <1>4
    <2>2. FlowInv'
        BY <1>1, <2>1, WireStays, FlowStays DEF CallsInv, Returned
    <2>3. HeardInv'
        BY <1>1, <2>1 DEF CallsInv, HeardInv
    <2>4. Progress' = Progress
        BY <1>1, <2>1 DEF Progress
    <2>5. ~Ended
        BY <1>4 DEF Ended
    <2>6. Calls!Wait(r)
        BY <1>1, <1>2, <1>3, <2>1, <2>4, <2>5 DEF Calls!Wait, Calls!Unheard, Calls!server
    <2> QED BY <1>1, <2>2, <2>3, <2>6 DEF CallsInv
<1>5. CASE cState \notin {"Connected", "DisconnectingSecure"}
    <2>1. /\ pending' = pending /\ req' = [req EXCEPT ![r] = "returned"]
          /\ outcomes' = [outcomes EXCEPT ![r] = @ + 1]
        BY <1>5
    <2>2. FlowInv'
        BY <1>1, <2>1, WireStays, FlowStays DEF CallsInv, Returned
    <2>3. HeardInv'
        BY <1>1, <1>2, <2>1 DEF CallsInv, HeardInv
    <2>4. Progress' = [Progress EXCEPT ![r] = "returned"]
        BY <1>1, <2>1 DEF Progress
    <2>5. Calls!Refuse(r)
        BY <1>1, <1>2, <1>3, <2>1, <2>4 DEF Calls!Refuse, Calls!Unheard, Calls!server
    <2> QED BY <1>1, <2>2, <2>3, <2>5 DEF CallsInv
<1> QED BY <1>4, <1>5

LEMMA SecureIsUnseen ==
    ASSUME IInv, CallsInv, NEW r \in Requests, SecureRequest(r)
    PROVE  CallsInv' /\ UNCHANGED Calls!vars
<1> USE DEF SecureRequest
<1>1. /\ req \in [Requests -> ReqStates] /\ req[r] = "registered"
      /\ req' = [req EXCEPT ![r] = "writing"]
      /\ UNCHANGED <<pending, outcomes, working, sWrite, c2s, s2c, cUp, opens, cState, disc>>
    BY DEF IInv, TypeOK, client, opening, server, net
<1>2. FlowInv'
    BY <1>1, WireStays, FlowStays DEF CallsInv, Returned
<1>3. HeardInv'
    BY <1>1 DEF CallsInv, HeardInv
<1>4. Progress' = Progress
    BY <1>1 DEF Progress
<1>5. (Ended' = Ended) /\ Ids(c2s)' = Ids(c2s) /\ Ids(s2c)' = Ids(s2c)
    BY <1>1 DEF Ended
<1> QED BY <1>1, <1>2, <1>3, <1>4, <1>5 DEF CallsInv, Calls!vars, Calls!server, Calls!caller

LEMMA WriteIsReturn ==
    ASSUME IInv, WritingInv, CallsInv, NEW r \in Requests, WriteRequest(r)
    PROVE  CallsInv' /\ Calls!Return(r)
<1> USE DEF WriteRequest
<1>1. /\ req \in [Requests -> ReqStates] /\ req[r] = "writing"
      /\ req' = [req EXCEPT ![r] = "returned"]
      /\ UNCHANGED <<pending, outcomes, working, sWrite, s2c, cUp, opens, cState, disc>>
    BY DEF IInv, TypeOK, client, opening, server, net
<1>2. cWrite # <<>> /\ cWrite[1] \in Message /\ cWrite[1].type = "MSG" /\ cWrite[1].id = r
    BY <1>1 DEF WritingInv, IInv, TypeOK
<1>3. r \notin Ids(c2s) /\ r \notin Ids(s2c) /\ r \notin working
    BY <1>1 DEF CallsInv, FlowInv, Returned
<1>4. Ids(c2s)' \in {Ids(c2s), Ids(c2s) \union {r}} /\ Distinct(c2s)'
    BY <1>2, <1>3, IdsSent DEF CallsInv
<1>5. Ids(s2c)' = Ids(s2c) /\ (Distinct(s2c)' <=> Distinct(s2c))
    BY <1>1
<1>6. Returned' = Returned \union {r}
    BY <1>1 DEF Returned
<1>7. FlowInv'
    BY <1>1, <1>3, <1>4, <1>5, <1>6 DEF CallsInv, FlowInv
<1>8. HeardInv'
    BY <1>1 DEF CallsInv, HeardInv
<1>9. Progress[r] = "inside" /\ Progress' = [Progress EXCEPT ![r] = "returned"]
    BY <1>1 DEF Progress
<1>10. ~Calls!Unheard(r)
    BY <1>1 DEF CallsInv, HeardInv, Calls!Unheard
<1>11. Ended' = Ended
    BY <1>1 DEF Ended
<1> QED BY <1>1, <1>4, <1>5, <1>7, <1>8, <1>9, <1>10, <1>11 DEF CallsInv, Calls!Return

\* What Answer does to those it answers.
LEMMA AnswerIsTell ==
    ASSUME TypeOK, NEW rs \in SUBSET pending, Answer(rs)
    PROVE  Calls!Tell(rs) /\ \A r \in Requests : outcomes'[r] = outcomes[r] + (IF r \in rs THEN 1 ELSE 0)
BY DEF Answer, Calls!Tell, TypeOK

LEMMA AnswerHears ==
    ASSUME TypeOK, AnswerInv, HeardInv, NEW rs \in SUBSET pending, Answer(rs),
           \A r \in Requests : req'[r] \in {"registered", "writing", "returned"} =>
                req[r] \in {"registered", "writing", "returned"}
    PROVE  HeardInv'
<1>1. /\ \A r \in Requests : outcomes'[r] = outcomes[r] + (IF r \in rs THEN 1 ELSE 0)
      /\ pending' = pending \ rs /\ pending \subseteq Requests
    BY AnswerIsTell DEF Answer, TypeOK
<1> QED BY <1>1 DEF HeardInv, AnswerInv

LEMMA WriteFailsIsReturnFailed ==
    ASSUME IInv, CallsInv, NEW r \in Requests, WriteRequestFails(r)
    PROVE  CallsInv' /\ Calls!ReturnFailed(r)
<1> USE DEF WriteRequestFails
<1>1. /\ req \in [Requests -> ReqStates] /\ req[r] = "writing"
      /\ req' = [req EXCEPT ![r] = "returned"] /\ Answer(pending \intersect {r})
      /\ UNCHANGED <<working, sWrite, c2s, s2c, cUp, opens, cState, disc>>
    BY DEF IInv, TypeOK, client, opening, server, net
<1>2. FlowInv'
    BY <1>1, WireStays, FlowStays DEF CallsInv, Returned
<1>3. HeardInv'
    <2>1. \A x \in Requests : req'[x] \in {"registered", "writing", "returned"} =>
                req[x] \in {"registered", "writing", "returned"}
        BY <1>1
    <2> QED BY <1>1, <2>1, AnswerHears DEF CallsInv, IInv
<1>4. Progress[r] = "inside" /\ Progress' = [Progress EXCEPT ![r] = "returned"]
    BY <1>1 DEF Progress
<1>5. (Ended' = Ended) /\ Ids(c2s)' = Ids(c2s) /\ Ids(s2c)' = Ids(s2c)
    BY <1>1 DEF Ended
<1>6. Calls!Tell(pending \intersect {r})
    BY <1>1, AnswerIsTell DEF IInv
<1>7. ~Calls!Unheard(r)
    BY <1>1 DEF CallsInv, HeardInv, Calls!Unheard
<1> QED BY <1>1, <1>2, <1>3, <1>4, <1>5, <1>6, <1>7 DEF CallsInv, Calls!ReturnFailed, Calls!server

LEMMA WatchdogIsTimeOut ==
    ASSUME IInv, CallsInv, NEW r \in Requests, WatchdogTimer(r)
    PROVE  CallsInv' /\ Calls!TimeOut(r)
<1> USE DEF WatchdogTimer
<1>1. /\ r \in pending /\ Answer({r})
      /\ UNCHANGED <<req, working, sWrite, c2s, s2c, cUp, opens, cState, disc>>
    BY DEF client, opening, server, net
<1>2. FlowInv'
    BY <1>1, WireStays, FlowStays DEF CallsInv, Returned
<1>3. HeardInv'
    BY <1>1, AnswerHears DEF CallsInv, IInv
<1>4. Progress' = Progress
    BY <1>1 DEF Progress
<1>5. (Ended' = Ended) /\ Ids(c2s)' = Ids(c2s) /\ Ids(s2c)' = Ids(s2c)
    BY <1>1 DEF Ended
<1>6. Calls!Tell({r})
    BY <1>1, AnswerIsTell DEF IInv
<1> QED BY <1>1, <1>2, <1>3, <1>4, <1>5, <1>6 DEF CallsInv, Calls!TimeOut, Calls!server

-----------------------------------------------------------------------------
(* What the callers do not see.                                              *)

LEMMA QuietIsUnseen ==
    ASSUME CallsInv, UNCHANGED calls, Flowless, Ended <=> Ended', cUp' => opens' > 0,
           sWrite' # <<>> => sWrite'[1].type = "MSG" /\ sWrite'[1].id \in working
    PROVE  CallsInv' /\ UNCHANGED Calls!vars
<1>1. HeardInv' /\ Returned' = Returned
    BY HeardStays DEF CallsInv
<1>2. FlowInv'
    BY <1>1 DEF CallsInv, FlowInv, Flowless
<1> QED BY <1>1, <1>2, Unseen DEF CallsInv

LEMMA OpeningIsUnseen ==
    ASSUME IInv, CallsInv, Opening
    PROVE  CallsInv' /\ UNCHANGED Calls!vars
<1>1. /\ UNCHANGED <<calls, working, sWrite, s2c, disc, cUp>>
      /\ opens \in Nat /\ opens' \in {opens, opens + 1}
    BY DEF Opening, RenewTimer, BeginOpenSecureChannel, RegisterOpen, SendOpen, SendOpenFails,
           server, net, IInv, TypeOK
<1>2. Flowless
    <2>1. CASE c2s' = c2s
        BY <1>1, <2>1, WireStays DEF CallsInv
    <2>2. CASE SendOpen
        <3>1. opens \in 1 .. MaxOpen
            BY <2>2 DEF SendOpen, CallsInv, IInv, TypeOK
        <3>2. OPN(opens, 0) \in Message /\ OPN(opens, 0).type # "MSG"
            BY <3>1, Messages DEF OPN
        <3> QED BY <1>1, <2>2, <3>2, IdsSent DEF SendOpen, CallsInv, FlowInv, Flowless
    <2> QED BY <2>1, <2>2 DEF Opening, RenewTimer, BeginOpenSecureChannel, RegisterOpen,
                              SendOpenFails, net
<1>3. Ended <=> Ended'
    <2>1. CASE cState' = cState /\ opens' = opens
        BY <1>1, <2>1 DEF Ended
    <2>2. CASE RenewTimer
        BY <2>2 DEF RenewTimer, Ended
    <2>3. CASE BeginOpenSecureChannel
        BY <2>3 DEF BeginOpenSecureChannel, Ended
    <2> QED BY <2>1, <2>2, <2>3 DEF Opening, RegisterOpen, SendOpen, SendOpenFails, client
<1> QED BY <1>1, <1>2, <1>3, QuietIsUnseen DEF CallsInv, FlowInv

LEMMA ConnectIsUnseen ==
    ASSUME IInv, CallsInv, Connect \/ OnConnect \/ OnConnectFailed
    PROVE  CallsInv' /\ UNCHANGED Calls!vars
<1>1. /\ UNCHANGED <<calls, working, sWrite, c2s, s2c, disc>>
      /\ cUp' => opens' > 0
    BY DEF Connect, OnConnect, OnConnectFailed, server, net, opening, CallsInv
<1>2. ~Ended /\ ~Ended'
    BY DEF Connect, OnConnect, OnConnectFailed, Ended, client, opening
<1> QED BY <1>1, <1>2, WireStays, QuietIsUnseen DEF CallsInv, FlowInv

LEMMA ClosingIsUnseen ==
    ASSUME IInv, WritingInv, CallsInv,
           SecureClose \/ WriteClose \/ WriteCloseFails \/ DisconnectTransport
    PROVE  CallsInv' /\ UNCHANGED Calls!vars
<1>1. /\ UNCHANGED <<calls, working, sWrite, s2c, cState, opens>>
      /\ disc # "idle" /\ disc' # "idle" /\ (cUp' => cUp)
    BY DEF SecureClose, WriteClose, WriteCloseFails, DisconnectTransport, server, net, opening, client
<1>2. Flowless
    <2>1. CASE c2s' = c2s
        BY <1>1, <2>1, WireStays DEF CallsInv
    <2>2. CASE WriteClose
        <3>1. cWrite[1] \in Message /\ cWrite[1].type # "MSG" /\ ToServer(cWrite[1])
            BY <2>2 DEF WriteClose, WritingInv, IInv, TypeOK
        <3> QED BY <1>1, <3>1, IdsSent DEF CallsInv, FlowInv, Flowless
    <2> QED BY <2>1, <2>2 DEF SecureClose, WriteCloseFails, DisconnectTransport, net
<1>3. Ended <=> Ended'
    BY <1>1 DEF Ended
<1> QED BY <1>1, <1>2, <1>3, QuietIsUnseen DEF CallsInv, FlowInv

LEMMA ServerIsUnseen ==
    ASSUME IInv, CallsInv,
           \/ SendOpenResponse \/ SendOpenResponseFails \/ OnChannelClosed \/ ChannelTimeout
           \/ WatchdogTimerOpen \/ \E r \in Requests : SecureResponse(r)
    PROVE  CallsInv' /\ UNCHANGED Calls!vars
<1>1. /\ UNCHANGED <<calls, working, c2s, cState, opens, disc, cUp>>
      /\ sWrite' = sWrite \/ \E r \in Requests : SecureResponse(r)
    BY DEF SendOpenResponse, SendOpenResponseFails, OnChannelClosed, ChannelTimeout,
           WatchdogTimerOpen, SecureResponse, server, net, opening, client
<1>2. Flowless
    <2>1. CASE s2c' = s2c
        BY <1>1, <2>1, WireStays DEF CallsInv
    <2>2. CASE SendOpenResponse
        <3>1. sOpn[1] \in Message /\ sOpn[1].type # "MSG" /\ ToClient(sOpn[1])
            BY <2>2 DEF SendOpenResponse, IInv, TypeOK, TokenInv, ResponseInv, OPN
        <3> QED BY <1>1, <3>1, IdsReplied DEF CallsInv, FlowInv, Flowless
    <2> QED BY <2>1, <2>2 DEF SendOpenResponseFails, OnChannelClosed, ChannelTimeout,
                              WatchdogTimerOpen, SecureResponse, server, net
<1>3. Ended <=> Ended'
    BY <1>1 DEF Ended
<1>4. sWrite' # <<>> => sWrite'[1].type = "MSG" /\ sWrite'[1].id \in working
    <2>1. CASE sWrite' = sWrite
        BY <2>1 DEF CallsInv, FlowInv
    <2>2. ASSUME NEW r \in Requests, SecureResponse(r)
          PROVE  sWrite'[1].type = "MSG" /\ sWrite'[1].id \in working
        BY <2>2 DEF SecureResponse, MSG
    <2> QED BY <1>1, <2>1, <2>2
<1> QED BY <1>1, <1>2, <1>3, <1>4, QuietIsUnseen DEF CallsInv

-----------------------------------------------------------------------------
(* The end of the connection.                                                *)

LEMMA DisconnectIsEnd ==
    ASSUME IInv, CallsInv, Disconnect \/ SetDisconnected
    PROVE  CallsInv' /\ (Calls!End \/ UNCHANGED Calls!vars)
<1>1. /\ UNCHANGED <<calls, working, sWrite, c2s, s2c, opens, cUp>>
      /\ disc' # "idle"
    BY DEF Disconnect, SetDisconnected, server, net, opening
<1>2. Flowless
    BY <1>1, WireStays DEF CallsInv
<1>3. CallsInv'
    <2>1. HeardInv' /\ Returned' = Returned
        BY <1>1, HeardStays DEF CallsInv
    <2> QED BY <1>1, <1>2, <2>1, FlowStays DEF CallsInv
<1>4. CASE cState' = "Disconnected"
    <2>1. Ended'
        BY <1>1, <1>4 DEF Ended
    <2>2. Progress' = Progress
        BY <1>1 DEF Progress, calls
    <2>3. Calls!End
        BY <1>1, <1>2, <2>1, <2>2 DEF Calls!End, Calls!caller, Calls!server, Flowless, calls, Ended
    <2> QED BY <1>3, <2>3
<1>5. CASE cState' # "Disconnected"
    <2>1. ~Ended /\ ~Ended'
        BY <1>5 DEF Disconnect, SetDisconnected, Ended
    <2> QED BY <1>1, <1>2, <1>3, <2>1, Unseen
<1> QED BY <1>4, <1>5

LEMMA CancelIsCancel ==
    ASSUME IInv, CallsInv, CancelOpenRequests, cState = "Disconnected"
    PROVE  CallsInv' /\ Calls!Cancel
<1> USE DEF CancelOpenRequests
<1>1. /\ UNCHANGED <<req, working, sWrite, c2s, s2c, opens, cUp, cState>>
      /\ disc' = "returned" /\ Answer(pending)
    BY DEF client, server, net
<1>2. FlowInv'
    BY <1>1, WireStays, FlowStays DEF CallsInv, Returned
<1>3. HeardInv'
    BY <1>1, AnswerHears DEF CallsInv, IInv
<1>4. Progress' = Progress /\ Ids(c2s)' = Ids(c2s) /\ Ids(s2c)' = Ids(s2c)
    BY <1>1 DEF Progress
<1>5. Ended'
    BY <1>1 DEF Ended
<1>6. Calls!Tell(pending)
    BY <1>1, AnswerIsTell DEF IInv
<1> QED BY <1>1, <1>2, <1>3, <1>4, <1>5, <1>6 DEF CallsInv, Calls!Cancel, Calls!server, Ended

LEMMA OnDisconnectEnds ==
    ASSUME IInv, CallsInv, OnDisconnect
    PROVE  CallsInv' /\ (Calls!End \/ Calls!Cancel \/ UNCHANGED Calls!vars)
<1> USE DEF OnDisconnect
<1>1. /\ UNCHANGED <<req, working, sWrite, c2s, s2c, opens, disc>>
      /\ opens > 0 /\ cUp' = FALSE
    BY DEF server, CallsInv
<1>2. FlowInv'
    BY <1>1, WireStays, FlowStays DEF CallsInv, Returned
<1>3. Progress' = Progress /\ Ids(c2s)' = Ids(c2s) /\ Ids(s2c)' = Ids(s2c)
    BY <1>1 DEF Progress
<1>4. CASE cState \in {"Connected", "DisconnectingSecure"}
    <2>1. Answer(pending) /\ cState' = "Disconnected"
        BY <1>4
    <2>2. HeardInv'
        BY <1>1, <2>1, AnswerHears DEF CallsInv, IInv
    <2>3. Calls!Tell(pending)
        BY <2>1, AnswerIsTell DEF IInv
    <2>4. Ended'
        BY <1>1, <2>1 DEF Ended
    <2>5. Calls!Cancel
        BY <1>1, <1>3, <2>3, <2>4 DEF Calls!Cancel, Calls!server, Ended
    <2> QED BY <1>1, <1>2, <2>2, <2>5 DEF CallsInv
<1>5. CASE cState \notin {"Connected", "DisconnectingSecure"}
    <2>1. UNCHANGED calls
        BY <1>5 DEF calls
    <2>2. CallsInv'
        BY <1>1, <1>2, <2>1, HeardStays DEF CallsInv
    <2>3. CASE cState \in {"ConnectingSecure", "ConnectingTransport"}
        <3>1. Ended'
            BY <1>1, <2>3 DEF Ended
        <3>2. Calls!End
            BY <1>1, <1>3, <2>1, <3>1 DEF Calls!End, Calls!caller, Calls!server, calls, Ended
        <3> QED BY <2>2, <3>2
    <2>4. CASE cState \notin {"ConnectingSecure", "ConnectingTransport"}
        <3>1. Ended <=> Ended'
            BY <1>1, <1>5, <2>4 DEF Ended
        <3> QED BY <1>1, <2>1, <2>2, <3>1, WireStays, Unseen DEF CallsInv
    <2> QED BY <2>3, <2>4
<1> QED BY <1>4, <1>5

-----------------------------------------------------------------------------
(* The server and the network.                                               *)

LEMMA OnRequestIsExecute ==
    ASSUME IInv, CallsInv, OnRequest
    PROVE  CallsInv' /\ ((\E r \in Requests : Calls!Execute(r)) \/ UNCHANGED Calls!vars)
<1>1. /\ UNCHANGED <<calls, s2c, sWrite, cState, opens, disc, cUp>>
      /\ c2s \in Seq(Message) /\ c2s # <<>> /\ c2s' = Tail(c2s)
    BY DEF OnRequest, IInv, TypeOK, client, opening
<1>2. Head(c2s) = c2s[1] /\ c2s[1] \in Message
    BY <1>1, TailFields
<1>3. /\ Ids(c2s)' = Ids(c2s) \ (IF c2s[1].type = "MSG" THEN {c2s[1].id} ELSE {})
      /\ c2s[1].type = "MSG" => c2s[1].id \in Ids(c2s)
      /\ Distinct(c2s)'
    BY <1>1, IdsTail DEF CallsInv, FlowInv
<1>4. /\ (Ended' = Ended) /\ Ids(s2c)' = Ids(s2c) /\ (Distinct(s2c)' <=> Distinct(s2c))
      /\ Progress' = Progress /\ HeardInv' /\ Returned' = Returned
    BY <1>1, HeardStays DEF Ended, CallsInv
<1>5. CASE c2s[1].type = "MSG"
    <2>1. c2s[1].id \in Requests /\ ProcessSessionCallRequest(c2s[1])
        BY <1>2, <1>5, MessageFields DEF OnRequest
    <2>2. working' \in {working, working \union {c2s[1].id}}
        BY <2>1 DEF ProcessSessionCallRequest
    <2>3. FlowInv'
        BY <1>1, <1>3, <1>4, <1>5, <2>2 DEF CallsInv, FlowInv
    <2>4. Calls!Execute(c2s[1].id)
        BY <1>1, <1>3, <1>4, <1>5, <2>2 DEF Calls!Execute, Calls!caller, calls
    <2> QED BY <1>1, <1>4, <2>1, <2>3, <2>4 DEF CallsInv
<1>6. CASE c2s[1].type # "MSG"
    <2>1. working' = working
        BY <1>2, <1>6 DEF OnRequest, ProcessOpenSecureChannelRequest, ProcessCloseSecureChannelRequest
    <2>2. Flowless
        BY <1>3, <1>4, <1>6, <2>1 DEF Flowless, CallsInv, FlowInv
    <2> QED BY <1>1, <1>4, <2>2, QuietIsUnseen DEF CallsInv, FlowInv
<1> QED BY <1>5, <1>6

LEMMA WriteResponseIsReply ==
    ASSUME IInv, CallsInv, WriteResponse
    PROVE  CallsInv' /\ \E r \in Requests : Calls!Reply(r)
<1>1. PICK r \in Requests : r = sWrite[1].id
    BY MessageFields DEF WriteResponse, CallsInv, FlowInv, IInv, TypeOK
<1>2. /\ UNCHANGED <<calls, c2s, cState, opens, disc, cUp>>
      /\ sWrite # <<>> /\ sWrite' = <<>> /\ working' = working \ {r}
    BY <1>1 DEF WriteResponse, client, opening
<1>3. /\ (Ended' = Ended) /\ Ids(c2s)' = Ids(c2s) /\ (Distinct(c2s)' <=> Distinct(c2s))
      /\ Progress' = Progress /\ HeardInv' /\ Returned' = Returned
    BY <1>2, HeardStays DEF Ended, CallsInv
<1>4. r \in working /\ sWrite[1].type = "MSG" /\ sWrite[1] \in Message /\ r \notin Ids(s2c)
    BY <1>1, <1>2 DEF CallsInv, FlowInv, IInv, TypeOK
<1>5. Ids(s2c)' \in {Ids(s2c), Ids(s2c) \union {r}} /\ Distinct(s2c)'
    <2>1. CASE sUp
        BY <1>1, <1>4, <2>1, IdsReplied DEF WriteResponse, CallsInv
    <2>2. CASE ~sUp
        BY <2>2 DEF WriteResponse, CallsInv, FlowInv
    <2> QED BY <2>1, <2>2
<1>6. FlowInv'
    BY <1>2, <1>3, <1>4, <1>5 DEF CallsInv, FlowInv
<1>7. Calls!Reply(r)
    BY <1>2, <1>3, <1>4, <1>5 DEF Calls!Reply, Calls!caller, calls
<1> QED BY <1>2, <1>3, <1>6, <1>7 DEF CallsInv

LEMMA CancelSendIsReply ==
    ASSUME IInv, CallsInv, NEW r \in Requests, CancelSendResponse(r)
    PROVE  CallsInv' /\ Calls!Reply(r)
<1>1. /\ UNCHANGED <<calls, c2s, s2c, cState, opens, disc, cUp, sWrite>>
      /\ sWrite = <<>> /\ r \in working /\ working' = working \ {r}
    BY DEF CancelSendResponse, client, opening, net
<1>2. /\ (Ended' = Ended) /\ Ids(c2s)' = Ids(c2s) /\ (Distinct(c2s)' <=> Distinct(c2s))
      /\ Ids(s2c)' = Ids(s2c) /\ (Distinct(s2c)' <=> Distinct(s2c))
      /\ Progress' = Progress /\ HeardInv' /\ Returned' = Returned
    BY <1>1, HeardStays DEF Ended, CallsInv
<1>3. FlowInv'
    BY <1>1, <1>2 DEF CallsInv, FlowInv
<1>4. Calls!Reply(r)
    BY <1>1, <1>2 DEF Calls!Reply, Calls!caller, calls
<1> QED BY <1>1, <1>2, <1>3, <1>4 DEF CallsInv

LEMMA OnResponseIsDeliver ==
    ASSUME IInv, CallsInv, OnResponse
    PROVE  CallsInv' /\ ((\E r \in Requests : Calls!Deliver(r)) \/ UNCHANGED Calls!vars)
<1>1. /\ UNCHANGED <<req, c2s, sWrite, working, opens, disc, cUp>>
      /\ s2c \in Seq(Message) /\ s2c # <<>> /\ s2c' = Tail(s2c)
    BY DEF OnResponse, IInv, TypeOK, server, ProcessOpenSecureChannelResponse,
           ProcessSessionCallResponse, calls
<1>2. Head(s2c) = s2c[1] /\ s2c[1] \in Message
    BY <1>1, TailFields
<1>3. /\ Ids(s2c)' = Ids(s2c) \ (IF s2c[1].type = "MSG" THEN {s2c[1].id} ELSE {})
      /\ s2c[1].type = "MSG" => s2c[1].id \in Ids(s2c)
      /\ Distinct(s2c)'
    BY <1>1, IdsTail DEF CallsInv, FlowInv
<1>4. /\ Ids(c2s)' = Ids(c2s) /\ (Distinct(c2s)' <=> Distinct(c2s))
      /\ Progress' = Progress /\ Returned' = Returned
    BY <1>1 DEF Progress, Returned
<1>5. FlowInv'
    BY <1>1, <1>3, <1>4 DEF CallsInv, FlowInv
<1>6. CASE s2c[1].type = "MSG"
    <2>1. PICK r \in Requests : r = s2c[1].id
        BY <1>2, <1>6, MessageFields
    <2>2. ProcessSessionCallResponse(s2c[1])
        BY <1>2, <1>6 DEF OnResponse
    <2>3. (Ended' = Ended)
        BY <1>1, <2>2 DEF ProcessSessionCallResponse, Ended
    <2>4. /\ (r \in pending /\ Calls!Tell({r})) \/ UNCHANGED <<pending, outcomes>>
          /\ HeardInv'
        <3>1. CASE Answer(pending \intersect {r}) /\ r \in pending
            <4>1. Answer({r})
                BY <3>1 DEF Answer
            <4> QED BY <1>1, <3>1, <4>1, AnswerIsTell, AnswerHears DEF CallsInv, IInv
        <3>2. CASE Answer(pending \intersect {r}) /\ r \notin pending
            <4>1. UNCHANGED <<pending, outcomes>>
                BY <3>2 DEF Answer, IInv, TypeOK
            <4> QED BY <1>1, <4>1 DEF CallsInv, HeardInv
        <3>3. CASE UNCHANGED <<pending, outcomes>>
            BY <1>1, <3>3 DEF CallsInv, HeardInv
        <3> QED BY <2>1, <2>2, <3>1, <3>2, <3>3 DEF ProcessSessionCallResponse
    <2>5. Calls!Deliver(r)
        BY <1>1, <1>3, <1>4, <1>6, <2>1, <2>3, <2>4 DEF Calls!Deliver
    <2> QED BY <1>1, <1>5, <2>4, <2>5 DEF CallsInv
<1>7. CASE s2c[1].type # "MSG"
    <2>1. ProcessOpenSecureChannelResponse(s2c[1])
        BY <1>2, <1>7 DEF OnResponse
    <2>2. UNCHANGED calls /\ (Ended <=> Ended')
        BY <1>1, <2>1 DEF ProcessOpenSecureChannelResponse, Ended, client
    <2>3. Flowless
        BY <1>1, <1>3, <1>4, <1>7 DEF Flowless, CallsInv, FlowInv
    <2> QED BY <1>1, <2>2, <2>3, QuietIsUnseen DEF CallsInv, FlowInv
<1> QED BY <1>6, <1>7

LEMMA BreakIsLose ==
    ASSUME IInv, CallsInv, LinkBreaks
    PROVE  CallsInv' /\ Calls!Lose
<1>1. /\ UNCHANGED <<calls, working, sWrite, cState, opens, disc, cUp>>
      /\ c2s' = <<>> /\ s2c' = <<>>
    BY DEF LinkBreaks, client, opening, server
<1>2. /\ (Ended' = Ended) /\ Progress' = Progress /\ HeardInv' /\ Returned' = Returned
    BY <1>1, HeardStays DEF Ended, CallsInv
<1>3. Ids(c2s)' = {} /\ Ids(s2c)' = {} /\ Distinct(c2s)' /\ Distinct(s2c)'
    BY <1>1, IdsEmpty
<1>4. FlowInv'
    BY <1>1, <1>2, <1>3 DEF CallsInv, FlowInv
<1> QED BY <1>1, <1>2, <1>3, <1>4 DEF CallsInv, Calls!Lose, Calls!caller, calls

-----------------------------------------------------------------------------
(* Every step is a step of RemoteCalls.                                     *)

LEMMA EndInvKeeps ==
    ASSUME EndInv, [Next]_vars
    PROVE  EndInv'
<1>1. CASE Opening
    BY <1>1 DEF EndInv, Opening, RenewTimer, BeginOpenSecureChannel, RegisterOpen, SendOpen,
       SendOpenFails, client
<1>2. CASE OnNotify
    BY <1>2 DEF EndInv, OnNotify, Connect, OnConnect, OnConnectFailed, OnResponse, OnDisconnect,
       ProcessOpenSecureChannelResponse, ProcessSessionCallResponse, client
<1>3. CASE Disconnecting
    BY <1>3 DEF EndInv, Disconnecting, Disconnect, SecureClose, WriteClose, WriteCloseFails,
       SetDisconnected, DisconnectTransport, CancelOpenRequests, client
<1>4. CASE WatchdogTimerOpen \/ Listener \/ LinkBreaks
    BY <1>4 DEF EndInv, WatchdogTimerOpen, Listener, OnRequest, SendOpenResponse,
       SendOpenResponseFails, OnChannelClosed, WriteResponse, ChannelTimeout, LinkBreaks, client
<1>5. ASSUME NEW r \in Requests,
             \/ Call(r) \/ WatchdogTimer(r) \/ SecureResponse(r) \/ CancelSendResponse(r)
      PROVE  EndInv'
    BY <1>5 DEF EndInv, Call, BeginSendRequest, EndSendRequest, SecureRequest, WriteRequest,
       WriteRequestFails, WatchdogTimer, SecureResponse, CancelSendResponse, client
<1>6. CASE UNCHANGED vars
    BY <1>6 DEF EndInv, vars, client
<1> QED BY <1>1, <1>2, <1>3, <1>4, <1>5, <1>6 DEF Next

LEMMA InitIsCalls == Init => CallsInv /\ EndInv /\ Calls!Init
<1> SUFFICES ASSUME Init
             PROVE  CallsInv /\ EndInv /\ Calls!Init
    OBVIOUS
<1>1. Ids(c2s) = {} /\ Ids(s2c) = {} /\ Distinct(c2s) /\ Distinct(s2c)
    BY IdsEmpty DEF Init
<1>2. ~Ended /\ Progress = [r \in Requests |-> "idle"]
    BY DEF Init, Ended, Progress
<1>3. CallsInv /\ EndInv
    BY <1>1 DEF Init, CallsInv, FlowInv, HeardInv, EndInv
<1> QED BY <1>1, <1>2, <1>3 DEF Init, Calls!Init, Ended

LEMMA StepIsCalls ==
    IInv /\ WritingInv /\ CallsInv /\ EndInv /\ [Next]_vars => CallsInv' /\ [Calls!Next]_Calls!vars
<1> SUFFICES ASSUME IInv, WritingInv, CallsInv, EndInv, [Next]_vars
             PROVE  CallsInv' /\ (Calls!Next \/ UNCHANGED Calls!vars)
    OBVIOUS
<1> USE DEF Calls!Next
<1>1. CASE Opening
    BY <1>1, OpeningIsUnseen
<1>2. CASE OnNotify
    BY <1>2, ConnectIsUnseen, OnResponseIsDeliver, OnDisconnectEnds DEF OnNotify
<1>3. CASE Disconnecting
    BY <1>3, DisconnectIsEnd, ClosingIsUnseen, CancelIsCancel
    DEF Disconnecting, CancelOpenRequests, EndInv
<1>4. CASE WatchdogTimerOpen \/ Listener \/ LinkBreaks
    BY <1>4, OnRequestIsExecute, ServerIsUnseen, WriteResponseIsReply, BreakIsLose DEF Listener
<1>5. ASSUME NEW r \in Requests,
             \/ Call(r) \/ WatchdogTimer(r) \/ SecureResponse(r) \/ CancelSendResponse(r)
      PROVE  CallsInv' /\ (Calls!Next \/ UNCHANGED Calls!vars)
    BY <1>5, BeginIsBegin, EndSendIsWaitOrRefuse, SecureIsUnseen, WriteIsReturn,
       WriteFailsIsReturnFailed, WatchdogIsTimeOut, ServerIsUnseen, CancelSendIsReply DEF Call
<1>6. CASE UNCHANGED vars
    <2>1. UNCHANGED <<calls, working, sWrite, c2s, s2c, cState, opens, disc, cUp>>
        BY <1>6 DEF vars, client, opening, server, net
    <2>2. Ended <=> Ended'
        BY <2>1 DEF Ended
    <2> QED BY <2>1, <2>2, WireStays, QuietIsUnseen DEF CallsInv, FlowInv
<1> QED BY <1>1, <1>2, <1>3, <1>4, <1>5, <1>6 DEF Next

-----------------------------------------------------------------------------
(* The invariant.                                                           *)

LEMMA InitInvariant == Init => IInv /\ WritingInv
<1> SUFFICES ASSUME Init
             PROVE  IInv /\ WritingInv
    OBVIOUS
<1> USE DEF Init
<1>1. /\ Create \in Channel /\ Create.Current = 0 /\ Create.Previous = 0
      /\ Create.NextTokenId = 1
    BY DEF Create, Channel, ChannelStates
<1>2. <<>> \in Seq(Message) /\ Len(<<>>) = 0
    OBVIOUS
<1>3. TypeOK
    <2>1. req \in [Requests -> ReqStates]
        BY DEF ReqStates
    <2>2. outcomes \in [Requests -> Nat]
        OBVIOUS
    <2>3. opens \in 0 .. MaxOpen
        BY ConversationAssumption
    <2>4. cState \in ConnStates /\ opn \in OpnStates /\ disc \in DiscStates
        BY DEF ConnStates, OpnStates, DiscStates
    <2>5. /\ bRenewActive \in BOOLEAN /\ listed \in BOOLEAN
          /\ cUp \in BOOLEAN /\ sUp \in BOOLEAN /\ link \in BOOLEAN
        OBVIOUS
    <2> QED BY <1>1, <1>2, <2>1, <2>2, <2>3, <2>4, <2>5 DEF TypeOK
<1>4. AnswerInv
    BY DEF AnswerInv
<1>5. PendingInv
    BY DEF PendingInv
<1>6. Settled
    BY <1>2 DEF Settled, NoOpn, ClientToken, ServerToken
<1>7. TokenInv
    <2>1. ChannelInv
        BY <1>1 DEF ChannelInv, ClientToken, ServerToken
    <2>2. RequestInv /\ ResponseInv
        BY <1>6 DEF RequestInv, ResponseInv, Settled
    <2>3. OpeningInv /\ CallerInv
        BY <1>1, <1>6 DEF OpeningInv, CallerInv, ClientToken
    <2>4. ToServerInv /\ ToClientInv
        BY <1>2 DEF ToServerInv, SentToServer, WrittenToServer, ToClientInv, SentToClient, WrittenToClient
    <2> QED BY <2>1, <2>2, <2>3, <2>4 DEF TokenInv
<1>8. WritingInv
    BY DEF WritingInv
<1> QED BY <1>3, <1>4, <1>5, <1>7, <1>8 DEF IInv

LEMMA StepInvariant == IInv /\ WritingInv /\ [Next]_vars => IInv' /\ WritingInv'
<1> SUFFICES ASSUME IInv, WritingInv, [Next]_vars
             PROVE  IInv'
    BY WritingKeeps DEF IInv
<1>1. CASE Opening
    BY <1>1, RenewTimerKeeps, BeginOpenSecureChannelKeeps, RegisterOpenKeeps, SendOpenKeeps,
       SendOpenFailsKeeps DEF Opening
<1>2. ASSUME NEW r \in Requests,
             \/ Call(r) \/ WatchdogTimer(r) \/ SecureResponse(r) \/ CancelSendResponse(r)
      PROVE  IInv'
    BY <1>2, BeginSendRequestKeeps, EndSendRequestKeeps, SecureRequestKeeps, WriteRequestKeeps,
       WriteRequestFailsKeeps, WatchdogTimerKeeps, SecureResponseKeeps, CancelSendResponseKeeps
    DEF Call
<1>3. CASE Disconnecting
    BY <1>3, DisconnectKeeps, CloseRefusedKeeps, SecureCloseKeeps, WriteCloseKeeps,
       WriteCloseFailsKeeps, DisconnectTransportKeeps, CancelOpenRequestsKeeps DEF Disconnecting
<1>4. CASE OnNotify
    BY <1>4, ConnectKeeps, OnConnectKeeps, OnResponseKeeps, OnDisconnectKeeps DEF OnNotify
<1>5. CASE Listener
    BY <1>5, OnRequestKeeps, SendOpenResponseKeeps, SendOpenResponseFailsKeeps,
       OnChannelClosedKeeps, WriteResponseKeeps, ChannelTimeoutKeeps DEF Listener
<1>6. CASE LinkBreaks \/ WatchdogTimerOpen
    BY <1>6, LinkBreaksKeeps, WatchdogTimerOpenKeeps
<1>7. CASE UNCHANGED vars
    <2>1. UNCHANGED <<client, opening, calls, disc, cWrite, server, net>>
        BY <1>7 DEF vars
    <2>2. TypeOK'
        BY <2>1 DEF IInv, TypeOK, client, opening, calls, server, net
    <2>3. AnswerInv' /\ PendingInv'
        BY <2>1, CallsStay DEF client
    <2>4. TokensRest
        BY <2>1 DEF TokensRest, client, opening, calls, server, net
    <2> QED BY <2>2, <2>3, <2>4, RestKeeps
<1> QED BY <1>1, <1>2, <1>3, <1>4, <1>5, <1>6, <1>7 DEF Next

LEMMA ConversationCalls == Spec => [](IInv /\ WritingInv /\ CallsInv /\ EndInv)
<1>1. Init => IInv /\ WritingInv /\ CallsInv /\ EndInv
    BY InitInvariant, InitIsCalls
<1>2. IInv /\ WritingInv /\ CallsInv /\ EndInv /\ [Next]_vars
        => (IInv /\ WritingInv /\ CallsInv /\ EndInv)'
    BY StepInvariant, StepIsCalls, EndInvKeeps
<1> QED BY <1>1, <1>2, PTL DEF Spec

\* Calls, channels, tokens and messages are always as IInv says
\* (opcua_secureconnection.c, opcua_securelistener.c).
THEOREM ConversationInvariant == Spec => []IInv
<1>1. Spec => [](IInv /\ WritingInv)
    BY InitInvariant, StepInvariant, PTL DEF Spec
<1> QED BY <1>1, PTL

\* Every variable keeps its type, and no side ever writes two messages at once.
THEOREM TypeCorrect == Spec => []TypeOK
<1>1. IInv => TypeOK
    BY DEF IInv
<1> QED BY <1>1, ConversationInvariant, PTL

\* A side has the keys of the message it receives next, whatever renewals,
\* timeouts and losses came between the choice of the token and the message
\* (GetCurrentSecuritySet, GetSecuritySet).
THEOREM TokensAreKnown == Spec => []TokensKnown
<1>1. ASSUME IInv
      PROVE  TokensKnown
    <2> USE DEF ClientToken, ServerToken
    <2>1. /\ c2s # <<>> => 1 \in 1 .. Len(c2s) /\ Head(c2s) = c2s[1]
          /\ s2c # <<>> => 1 \in 1 .. Len(s2c) /\ Head(s2c) = s2c[1]
        BY <1>1, TailFields DEF IInv, TypeOK
    <2>2. /\ ClientToken \in Nat /\ ServerToken \in Nat
          /\ ClientToken # 0 => cChan.Previous = ClientToken - 1
          /\ ServerToken # 0 => sChan.Previous = ServerToken - 1
          /\ ServerToken = ClientToken \/ ServerToken = ClientToken + 1
        BY <1>1 DEF IInv, TypeOK, Channel, TokenInv, ChannelInv
    <2>3. s2c # <<>> /\ Head(s2c).type = "MSG" =>
            Head(s2c).token \in {cChan.Current, cChan.Previous}
        BY <1>1, <2>1, <2>2 DEF IInv, TokenInv, ToClientInv, SentToClient, WrittenToClient
    <2>4. c2s # <<>> /\ Head(c2s).type # "OPN" =>
            Head(c2s).token \in {sChan.Current, sChan.Previous}
        BY <1>1, <2>1, <2>2 DEF IInv, TokenInv, ToServerInv, SentToServer, WrittenToServer
    <2> QED BY <2>3, <2>4 DEF TokensKnown, Knows
<1> QED BY <1>1, ConversationInvariant, PTL

\* The two ends are never more than one renewal apart (Renew on both sides).
THEOREM TokensAreInStep == Spec => []TokensInStep
<1>1. ASSUME IInv
      PROVE  TokensInStep
    <2>1. cChan.Current \in Nat /\ sChan.Current \in Nat
        BY <1>1 DEF IInv, TypeOK, Channel
    <2>2. sChan.Current = cChan.Current \/ sChan.Current = cChan.Current + 1
        BY <1>1 DEF IInv, TokenInv, ChannelInv, ClientToken, ServerToken
    <2> QED BY <2>1, <2>2 DEF TokensInStep
<1> QED BY <1>1, ConversationInvariant, PTL

\* The caller of a session call hears of it once at most, and not while the request is
\* pending; once the call has returned one of the two is so (the pending list of
\* opcua_secureconnection.c, EndSendRequest, the watchdog and the cancellation).
THEOREM AnsweredOnceHolds == Spec => []AnsweredOnce
<1>1. IInv /\ CallsInv => AnsweredOnce
    BY DEF IInv, TypeOK, AnswerInv, CallsInv, HeardInv, AnsweredOnce
<1> QED BY <1>1, ConversationCalls, PTL

\* The end of a connection leaves no request behind, however it came (Disconnect,
\* OnDisconnect).
THEOREM NobodyIsStranded == Spec => []NobodyStranded
<1>1. IInv => NobodyStranded
    BY DEF IInv, PendingInv, NobodyStranded
<1> QED BY <1>1, ConversationInvariant, PTL

\* The connection implements RemoteCalls: a request is executed once at most and its
\* caller hears of it once, whatever becomes of tokens, of the network and of the two
\* ends, and after the end nobody begins a call or starts to wait.
THEOREM CallsImplemented == Spec => ImplementsCalls
<1>1. Init => Calls!Init
    BY InitIsCalls
<1> QED BY <1>1, StepIsCalls, ConversationCalls, PTL DEF Spec, ImplementsCalls, Calls!Spec
=============================================================================
