----------------------- MODULE ClientChannel_proofs -----------------------
(***************************************************************************)
(* Proofs about the client's channel, for every set of sending threads and *)
(* every number of calls.                                                  *)
(*                                                                         *)
(* Neither LossIsTold nor WaitsForSomeone is inductive: that a Connect     *)
(* which was told "good" still has a connection that is up, or whose end   *)
(* somebody has yet to report, rests on what the mutexes keep apart        *)
(* (Control), on the state of the secure connection following that of the  *)
(* transport (Line), on the call states being new when they are waited on  *)
(* (CallInv), and on what holds while each call waits (DialInv, WaitInv,   *)
(* HangUpInv).  IInv is the conjunction.  The steps are taken by thread:   *)
(* the user's, the transport thread's, the handling of an event by any     *)
(* thread, and a sender's.                                                 *)
(***************************************************************************)
EXTENDS ClientChannel, TLAPS

-----------------------------------------------------------------------------
(* What the invariant says.                                                *)

\* The labels of each thread.
UserLabels ==
  {"out", "begin", "join", "start", "await", "expired", "reset", "settle", "replace", "close",
   "closeSend", "closeWrite", "closed", "drop", "report", "dAwait", "dExpired", "return",
   "clear", "clearing", "gone", "notify", "tell"}
NetLabels ==
  {"idle", "handle", "notify", "tell", "opening", "openSend", "openWrite", "openBroken", "openFailed"}
SenderLabels == {"idle", "sendBegin", "sendEnd", "sendWrite", "sendDone", "notify", "tell"}

\* What the socket reports, and what the transport makes of it.
Socket == {"acknowledge", "nack", "except", "err", "opened", "rejected", "closed"}
Events == {"connect", "refused", "error", "opened", "rejected", "disconnect"}

\* What a Connect, and what a Disconnect needs its AsyncCallState for.
Connecting == {"begin", "join", "start", "await", "expired", "reset", "settle"}
Closing == {"close", "closeSend", "closeWrite", "closed", "drop", "report", "dAwait", "notify", "tell"}
Disconnecting == Closing \cup {"replace", "dExpired", "return"}

\* Where the threads are, the events they handle, and the mutexes they hold.
PcType ==
  /\ pc \in [Threads -> UserLabels \cup NetLabels \cup SenderLabels]
  /\ pc["user"] \in UserLabels /\ pc["net"] \in NetLabels
  /\ \A s \in Senders : pc[s] \in SenderLabels

\* An event and its report belong to the thread that handles it.
EventType ==
  /\ after \in [Threads -> {"idle", "closed", "return", "openBroken", "sendDone"}]
  /\ ev \in [Threads -> {"none"} \cup Socket \cup Events]
  /\ tell \in [Threads -> {"none", "connected", "failed", "lost"}]
  /\ after["net"] \in {"idle", "openBroken"}
  /\ pc["net"] = "handle" => ev["net"] \in Socket
  /\ \A t \in Threads :
       /\ pc[t] = "notify" => ev[t] \in IF t = "net" THEN Events ELSE {"disconnect"}
       /\ pc[t] # "tell" => tell[t] = "none"
  /\ pc["user"] \in {"notify", "tell"} => after["user"] \in {"closed", "return"}
  /\ \A s \in Senders : pc[s] \in {"notify", "tell"} => after[s] = "sendDone"

\* Each mutex is held exactly in the region it guards.
LockType ==
  /\ chan \in {Free, "user"} \union Senders
  /\ req \in {Free} \union Threads
  /\ chan = "user" <=> pc["user"] = "join"
  /\ \A t \in Threads : req = t <=> pc[t] = "tell"
  /\ \A s \in Senders : chan = s <=> pc[s] # "idle"

\* The threads, taken together.
ThreadInv == PcType /\ EventType /\ LockType

\* The types of everything but the threads.
DataType ==
  /\ tcp \in TcpStates /\ sc \in ScStates
  /\ sccb \in BOOLEAN /\ opn \in BOOLEAN /\ conn \in BOOLEAN /\ owed \in BOOLEAN
  /\ cb \in [to : {"null", "connect", "disconnect", "app"}, state : States \union {NoState}]
  /\ life \in [States -> {"unused", "live", "deleted"}]
  /\ status \in [States -> {"waiting", "good", "bad", "abandoned"}]
  /\ late \subseteq States

\* A call has its AsyncCallState while it needs it.
CallType ==
  /\ call \in [connect : States \cup {NoState}, disconnect : States \cup {NoState},
               good : BOOLEAN, sent : BOOLEAN]
  /\ pc["user"] \in Connecting => call.connect \in States
  /\ pc["user"] \in Disconnecting => call.disconnect \in States
  /\ cb.to \in {"connect", "disconnect"} => cb.state \in States

\* The transport has just come up, and the secure connection does not know.
Early ==
  \/ pc["net"] = "handle" /\ ev["net"] \in {"acknowledge", "nack"}
  \/ pc["net"] = "notify" /\ ev["net"] \in {"connect", "refused"}

\* The secure connection before it uses the transport, or after.
Down == {"ConnectingTransport", "Disconnected", "Unknown"}

\* The state of the secure connection follows the transport.
NetInv ==
  /\ ~conn => pc["net"] = "idle"
  /\ pc["user"] = "start" => pc["net"] = "idle" /\ tcp = "Disconnected" /\ sc = "Disconnected"
  /\ tcp = "Connecting" =>
       /\ sc \in Down
       /\ pc["net"] = "idle" \/ (pc["net"] = "handle" /\ ev["net"] \notin {"opened", "rejected"})
  /\ Early => sc \in Down
  /\ sc \notin {"Disconnected", "Unknown"} => sccb

\* A thread that sends is past the opening of the channel.
SendInv ==
  \A s \in Senders :
    pc[s] \notin {"idle", "sendBegin"} =>
      sc \notin {"ConnectingTransport", "ConnectingSecure"} /\ pc["user"] # "start"

\* An end of the connection that is to be handled, or is being told; a connection
\* that is up or about to fail; and one in the given state whose end is not told yet.
Failing == \E t \in Threads : pc[t] = "notify" /\ ev[t] \in {"disconnect", "error"}
Told    == \E t \in Threads : tell[t] = "lost"
Up      == tcp = "Connected" \/ Failing
Link(state) == Told \/ (sc = state /\ Up)

\* A Connect that waits, or was told that it succeeded.
Dialing == pc["user"] = "await" \/ (pc["user"] = "settle" /\ call.good)

\* An AsyncCallState is waited on only when it is new, and is not signalled before that.
CallInv ==
  /\ \A s \in States : life[s] = "unused" => status[s] = "waiting"
  /\ cb.to \in {"connect", "disconnect"} => life[cb.state] # "unused"
  /\ call.connect # NoState => life[call.connect] # "unused"
  /\ pc["user"] \in Disconnecting => life[call.disconnect] # "unused"
  /\ pc["user"] \in {"begin", "join"} /\ cb.to \in {"connect", "disconnect"} => cb.state # call.connect
  /\ pc["user"] \in {"begin", "join", "start"} => status[call.connect] = "waiting"
  /\ pc["user"] = "start" => cb = [to |-> "connect", state |-> call.connect] /\ ~opn
  /\ pc["user"] = "out" => call.connect = NoState
  /\ pc["user"] \in Disconnecting \cup {"reset"} /\ call.connect # NoState => ~call.good

\* A Connect that is told of success has a connection whose end will be told.
DialInv ==
  Dialing =>
    /\ sccb
    /\ cb = [to |-> "connect", state |-> call.connect] \/ cb = Null
    /\ \A t \in Threads : tell[t] = "connected" => sc = "Connected" /\ Up
    /\ sc = "ConnectingTransport" => ~opn /\ pc["net"] # "openSend"
    /\ sc = "ConnectingSecure" /\ opn => Up
    /\ sc = "ConnectingSecure" /\ pc["net"] \in {"openSend", "openWrite"} => tcp = "Connected"
    /\ status[call.connect] = "good" =>
         cb = [to |-> "connect", state |-> call.connect] /\ Link("Connected")

\* The same for an application that counts on hearing of the end.
OwedInv == owed => pc["user"] = "out" /\ cb.to = "app" /\ sccb /\ Link("Connected")

\* A Connect that was told nothing yet, and where the transport thread is then.
Waiting == pc["user"] = "await" /\ status[call.connect] = "waiting"
WaitInv ==
  Waiting =>
    /\ cb = [to |-> "connect", state |-> call.connect]
    /\ \A s \in Senders : pc[s] \in {"idle", "sendBegin"}
    /\ pc["net"] = "idle" =>
         \/ sc = "ConnectingTransport" /\ tcp = "Connecting"
         \/ sc = "ConnectingSecure" /\ tcp = "Connected" /\ opn
    /\ pc["net"] \in {"handle", "notify"} => sc \in {"ConnectingTransport", "ConnectingSecure"}
    /\ pc["net"] = "handle" => tcp # "Disconnected"
    /\ Early \/ pc["net"] = "opening" => sc = "ConnectingTransport"
    /\ pc["net"] \in {"openSend", "openWrite", "openBroken", "openFailed"} => sc = "ConnectingSecure"
    /\ pc["net"] \in {"openWrite", "openBroken"} => opn
    /\ pc["net"] = "tell" => tell["net"] # "none"

\* A Disconnect that was told nothing yet holds the callback, and once it has asked
\* the server to close, the end of the connection is still to come.
HangUpInv ==
  /\ pc["user"] \in Closing /\ status[call.disconnect] = "waiting" =>
       cb = [to |-> "disconnect", state |-> call.disconnect]
  /\ pc["user"] \in {"closeSend", "closeWrite"} => sccb
  /\ pc["user"] \in (Closing \cup {"dExpired"}) \ {"close"} /\ call.sent => sccb
  /\ pc["user"] \in {"closeSend", "closeWrite"} /\ status[call.disconnect] = "waiting" =>
       Link("DisconnectingSecure")
  /\ pc["user"] = "dAwait" /\ status[call.disconnect] = "waiting" =>
       sccb /\ Link("DisconnectingSecure")

-----------------------------------------------------------------------------
(* Threads.                                                                 *)

\* The threads are different from each other and from nobody.
LEMMA ThreadNames ==
  /\ "user" \in Threads /\ "net" \in Threads /\ "user" \notin Senders /\ "net" \notin Senders
  /\ \A s \in Senders : s \in Threads /\ s # "user" /\ s # "net"
  /\ \A t \in Threads : t \in Senders \/ t = "user" \/ t = "net"
  /\ Free \notin Threads
  BY ChannelAssumption DEF Threads, Free

\* A thread goes to a label.
LEMMA GotoIs ==
    ASSUME PcType, NEW t \in Threads, NEW to, Goto(t, to)
    PROVE  /\ \A u \in Threads : pc'[u] = IF u = t THEN to ELSE pc[u]
           /\ to \in UserLabels \cup NetLabels \cup SenderLabels =>
                pc' \in [Threads -> UserLabels \cup NetLabels \cup SenderLabels]
  BY DEF PcType, Goto

\* The labels of a thread that has an event, and the ones that are only of one thread.
EventLabels == {"notify", "tell"}

\* A thread goes on; it takes the channel's Mutex or gives it back where it should.
LEMMA UserMoves ==
    ASSUME ThreadInv, NEW to \in UserLabels \ EventLabels, Goto("user", to), NoEvent,
           pc["user"] # "tell", req' = req,
           \/ chan' = chan /\ (to = "join" <=> pc["user"] = "join")
           \/ to = "join" /\ chan = Free /\ chan' = "user"
           \/ to # "join" /\ pc["user"] = "join" /\ chan' = Free
    PROVE  ThreadInv'
  <1>1. /\ pc' \in [Threads -> UserLabels \cup NetLabels \cup SenderLabels]
        /\ \A u \in Threads : pc'[u] = IF u = "user" THEN to ELSE pc[u]
    BY GotoIs, ThreadNames DEF ThreadInv
  <1>2. PcType'
    BY <1>1, ThreadNames DEF ThreadInv, PcType
  <1>3. EventType'
    BY <1>1, ThreadNames DEF ThreadInv, EventType, NoEvent, EventLabels
  <1>4. LockType'
    BY <1>1, ThreadNames DEF ThreadInv, LockType, EventLabels
  <1> QED
    BY <1>2, <1>3, <1>4 DEF ThreadInv

\* A sender goes on, and takes or gives back the channel's Mutex.
LEMMA SenderMoves ==
    ASSUME ThreadInv, NEW s \in Senders, NEW to \in SenderLabels \ EventLabels, Goto(s, to),
           UNCHANGED << after, ev, tell >>, pc[s] # "tell", req' = req,
           \/ chan' = chan /\ (to = "idle" <=> pc[s] = "idle")
           \/ to # "idle" /\ chan = Free /\ chan' = s
           \/ to = "idle" /\ pc[s] # "idle" /\ chan' = Free
    PROVE  ThreadInv'
  <1>1. /\ pc' \in [Threads -> UserLabels \cup NetLabels \cup SenderLabels]
        /\ \A u \in Threads : pc'[u] = IF u = s THEN to ELSE pc[u]
    BY GotoIs, ThreadNames DEF ThreadInv
  <1>2. PcType'
    BY <1>1, ThreadNames DEF ThreadInv, PcType
  <1>3. EventType'
    BY <1>1, ThreadNames DEF ThreadInv, EventType, EventLabels
  <1>4. LockType'
    BY <1>1, ThreadNames DEF ThreadInv, LockType, EventLabels
  <1> QED
    BY <1>2, <1>3, <1>4 DEF ThreadInv

\* The transport thread goes on, perhaps with an event of the socket.
LEMMA NetMoves ==
    ASSUME ThreadInv, NEW to \in NetLabels \ EventLabels, Goto("net", to),
           UNCHANGED << after, tell, chan, req >>, pc["net"] # "tell",
           \/ ev' = ev /\ to # "handle"
           \/ \E e \in Socket : ev' = [ev EXCEPT !["net"] = e]
    PROVE  ThreadInv'
  <1>1. /\ pc' \in [Threads -> UserLabels \cup NetLabels \cup SenderLabels]
        /\ \A u \in Threads : pc'[u] = IF u = "net" THEN to ELSE pc[u]
    BY GotoIs, ThreadNames DEF ThreadInv
  <1>2. PcType'
    BY <1>1, ThreadNames DEF ThreadInv, PcType
  <1>3. EventType'
    BY <1>1, ThreadNames DEF ThreadInv, EventType, EventLabels
  <1>4. LockType'
    BY <1>1, ThreadNames DEF ThreadInv, LockType, EventLabels
  <1> QED
    BY <1>2, <1>3, <1>4 DEF ThreadInv

\* A thread has an event to report, or has told the channel of it.
LEMMA RaiseKeeps ==
    ASSUME ThreadInv, NEW t \in Threads, NEW e \in Events, NEW label, Raise(t, e, label),
           UNCHANGED << tell, chan, req >>, pc[t] # "tell",
           \/ t = "user" /\ e = "disconnect" /\ label \in {"closed", "return"} /\ pc[t] # "join"
           \/ t = "net" /\ label \in {"idle", "openBroken"}
           \/ t \in Senders /\ e = "disconnect" /\ label = "sendDone" /\ pc[t] # "idle"
    PROVE  ThreadInv'
  <1>1. /\ pc' \in [Threads -> UserLabels \cup NetLabels \cup SenderLabels]
        /\ \A u \in Threads : pc'[u] = IF u = t THEN "notify" ELSE pc[u]
    BY GotoIs, ThreadNames DEF ThreadInv, Raise, UserLabels
  <1>2. PcType'
    BY <1>1, ThreadNames DEF ThreadInv, PcType, UserLabels, NetLabels, SenderLabels
  <1>3. EventType'
    BY <1>1, ThreadNames DEF ThreadInv, EventType, Raise
  <1>4. LockType'
    BY <1>1, ThreadNames DEF ThreadInv, LockType
  <1> QED
    BY <1>2, <1>3, <1>4 DEF ThreadInv

\* What the secure connection makes of an event.
LEMMA OutcomeIs ==
    ASSUME NEW e \in Events \ {"connect"}, sc \in ScStates, opn \in BOOLEAN
    PROVE  /\ Outcome(e).sc \in ScStates /\ Outcome(e).opn \in BOOLEAN
           /\ Outcome(e).tell \in {"none", "connected", "failed", "lost"}
           /\ Outcome(e).sc \in {sc, "Unknown", "Disconnected", "Connected"}
           /\ Outcome(e).sc = "Unknown" /\ sc # "Unknown" => e = "refused"
           /\ Outcome(e).sc = "Connected" /\ sc # "Connected" =>
                e = "opened" /\ sc = "ConnectingSecure" /\ opn /\ Outcome(e).tell = "connected"
           /\ Outcome(e).tell = "connected" => 
                e = "opened" /\ sc = "ConnectingSecure" /\ opn /\ Outcome(e).sc = "Connected"
           /\ e \in {"opened", "rejected"} => Outcome(e).sc \in {sc, "Connected"}
           /\ e \in {"disconnect", "error"} /\ sc \in {"Connected", "DisconnectingSecure"} =>
                Outcome(e).tell = "lost"
           /\ sc \in {"ConnectingTransport", "ConnectingSecure"} => Outcome(e).tell # "none"
           /\ e \in {"refused", "opened", "rejected"} => Outcome(e).tell \in {"failed", "connected"}
           /\ Outcome(e).opn => opn /\ Outcome(e).sc # "ConnectingSecure"
  <1>1. CASE e = "refused"
    BY <1>1 DEF Outcome, ScStates
  <1>2. CASE e = "disconnect"
    BY <1>2 DEF Outcome, ScStates
  <1>3. CASE e = "error"
    BY <1>3 DEF Outcome, ScStates
  <1>4. CASE e = "opened"
    BY <1>4 DEF Outcome, ScStates
  <1>5. CASE e = "rejected"
    BY <1>5 DEF Outcome, ScStates
  <1> QED
    BY <1>1, <1>2, <1>3, <1>4, <1>5 DEF Events

\* A thread takes the RequestMutex with something to tell.
LEMMA NotifyTakes ==
    ASSUME ThreadInv, NEW t \in Threads, NEW what \in {"none", "connected", "failed", "lost"},
           Goto(t, "tell"), req = Free, req' = t, tell' = [tell EXCEPT ![t] = what],
           UNCHANGED << chan, after, ev >>, pc[t] # "idle", pc[t] # "join",
           t # "net" => pc[t] = "notify"
    PROVE  ThreadInv'
  <1>1. /\ pc' \in [Threads -> UserLabels \cup NetLabels \cup SenderLabels]
        /\ \A u \in Threads : pc'[u] = IF u = t THEN "tell" ELSE pc[u]
    BY GotoIs, ThreadNames DEF ThreadInv, UserLabels
  <1>2. PcType'
    BY <1>1, ThreadNames DEF ThreadInv, PcType, UserLabels, NetLabels, SenderLabels
  <1>3. EventType'
    BY <1>1, ThreadNames DEF ThreadInv, EventType
  <1>4. LockType'
    BY <1>1, ThreadNames DEF ThreadInv, LockType
  <1> QED
    BY <1>2, <1>3, <1>4 DEF ThreadInv

\* A thread has told the channel and gives the RequestMutex back.
LEMMA TellKeeps ==
    ASSUME ThreadInv, NEW t \in Threads, NotifyTell(t)
    PROVE  ThreadInv'
  <1>1. /\ pc[t] = "tell" /\ req' = Free /\ tell' = [tell EXCEPT ![t] = "none"]
        /\ Goto(t, after[t]) /\ UNCHANGED << chan, after, ev >>
    BY DEF NotifyTell
  <1>2. /\ t = "user" => after[t] \in {"closed", "return"}
        /\ t = "net" => after[t] \in {"idle", "openBroken"}
        /\ t \in Senders => after[t] = "sendDone"
    BY <1>1, ThreadNames DEF ThreadInv, EventType
  <1>3. /\ pc' \in [Threads -> UserLabels \cup NetLabels \cup SenderLabels]
        /\ \A u \in Threads : pc'[u] = IF u = t THEN after[t] ELSE pc[u]
    BY <1>1, <1>2, GotoIs, ThreadNames DEF ThreadInv, UserLabels, NetLabels, SenderLabels
  <1>4. PcType'
    BY <1>2, <1>3, ThreadNames DEF ThreadInv, PcType, UserLabels, NetLabels, SenderLabels
  <1>5. EventType'
    BY <1>1, <1>2, <1>3, ThreadNames DEF ThreadInv, EventType
  <1>6. LockType'
    BY <1>1, <1>2, <1>3, ThreadNames DEF ThreadInv, LockType
  <1> QED
    BY <1>4, <1>5, <1>6 DEF ThreadInv

\* The steps of the user's thread.
UserStep ==
  Connect \/ ConnectStep \/ Disconnect \/ DisconnectStep \/ Clear \/ ClearTransport \/ Cleared
NetStep == SocketEvent \/ Handle \/ OpenStep

\* ThreadInv in the steps of the user's thread ...
LEMMA UserThread == ThreadInv /\ UserStep => ThreadInv'
  <1> SUFFICES ASSUME ThreadInv, UserStep PROVE ThreadInv'
    OBVIOUS
  <1> USE DEF UserLabels, EventLabels, locks
  <1>1. CASE Connect \/ Disconnect \/ Clear \/ ClearTransport \/ Cleared
    BY <1>1, UserMoves DEF Connect, Disconnect, Clear, ClearTransport, Cleared
  <1>2. CASE BeginConnect \/ BeginConnectJoined
    BY <1>2, UserMoves DEF BeginConnect, BeginConnectJoined, FreshConnection
  <1>3. CASE Start \/ ConnectCompleted \/ ConnectExpired \/ ConnectAbandoned \/ Settle
    BY <1>3, UserMoves DEF Start, ConnectCompleted, Completed, ConnectExpired, Expired,
         ConnectAbandoned, Settle
  <1>4. CASE ReplaceCallback \/ Close \/ CloseSend \/ Closed \/ Drop
    BY <1>4, UserMoves DEF ReplaceCallback, Close, CloseSend, Closed, Drop
  <1>5. CASE CloseWrite
    <2>1. CASE Raise("user", "disconnect", "closed")
      BY <1>5, <2>1, RaiseKeeps, ThreadNames DEF CloseWrite, Events
    <2>2. CASE NoEvent /\ \E label \in {"closed", "dAwait"} : Goto("user", label)
      BY <1>5, <2>2, UserMoves DEF CloseWrite
    <2> QED
      BY <1>5, <2>1, <2>2 DEF CloseWrite, NoEvent
  <1>6. CASE Report
    BY <1>6, UserMoves DEF Report
  <1>7. CASE DisconnectCompleted \/ DisconnectExpired \/ DisconnectReturns
    BY <1>7, UserMoves DEF DisconnectCompleted, Completed, DisconnectExpired, Expired,
         DisconnectReturns, Caller
  <1>8. CASE DisconnectAbandoned
    <2>1. CASE Raise("user", "disconnect", "return")
      BY <1>8, <2>1, RaiseKeeps, ThreadNames DEF DisconnectAbandoned, Events
    <2>2. CASE NoEvent /\ Goto("user", "return")
      BY <1>8, <2>2, UserMoves DEF DisconnectAbandoned
    <2> QED
      BY <1>8, <2>1, <2>2 DEF DisconnectAbandoned, NoEvent
  <1> QED
    BY <1>1, <1>2, <1>3, <1>4, <1>5, <1>6, <1>7, <1>8 DEF UserStep, ConnectStep, DisconnectStep

\* ... of the transport thread ...
LEMMA NetThread == ThreadInv /\ NetStep => ThreadInv'
  <1> SUFFICES ASSUME ThreadInv, NetStep PROVE ThreadInv'
    OBVIOUS
  <1> USE DEF NetLabels, EventLabels, locks
  <1>1. CASE SocketEvent
    <2>1. Arrivals \subseteq Socket
      BY DEF Arrivals, Socket
    <2> QED
      BY <1>1, <2>1, NetMoves DEF SocketEvent
  <1>2. CASE Handle
    <2>1. CASE Goto("net", "idle") /\ UNCHANGED << ev, after >>
      BY <1>2, <2>1, NetMoves DEF Handle
    <2>2. CASE \E e \in Events : Raise("net", e, "idle")
      BY <1>2, <2>2, RaiseKeeps, ThreadNames DEF Handle
    <2>3. ev["net"] \in {"opened", "rejected"} => ev["net"] \in Events
      BY DEF Events
    <2> QED
      BY <1>2, <2>1, <2>2, <2>3 DEF Handle, Events
  <1>3. CASE Opening \/ OpenSend \/ OpenBroken
    BY <1>3, NetMoves DEF Opening, OpenSend, OpenBroken
  <1>4. CASE OpenWrite
    <2>1. CASE Raise("net", "disconnect", "openBroken")
      BY <1>4, <2>1, RaiseKeeps, ThreadNames DEF OpenWrite, Events
    <2>2. CASE UNCHANGED << after, ev >> /\ \E label \in {"idle", "openBroken"} : Goto("net", label)
      BY <1>4, <2>2, NetMoves DEF OpenWrite
    <2> QED
      BY <1>4, <2>1, <2>2 DEF OpenWrite
  <1>5. CASE OpenFailed
    BY <1>5, NotifyTakes, ThreadNames DEF OpenFailed
  <1> QED
    BY <1>1, <1>2, <1>3, <1>4, <1>5 DEF NetStep, OpenStep

\* ... of a thread that handles an event ...
LEMMA NotifyThread ==
    ASSUME ThreadInv, DataType, NEW t \in Threads, NotifyStep(t)
    PROVE  ThreadInv'
  <1>1. CASE NotifyConnect(t)
    <2>1. t = "net"
      BY <1>1, ThreadNames DEF NotifyConnect, ThreadInv, EventType
    <2> QED
      <3>1. \E label \in {"opening", "idle", "openBroken"} : Goto("net", label)
        BY <1>1, <2>1 DEF NotifyConnect, ThreadInv, EventType
      <3>2. UNCHANGED << chan, req, after, ev, tell >> /\ pc["net"] # "tell"
        BY <1>1, <2>1 DEF NotifyConnect, locks
      <3> QED
        BY <3>1, <3>2, NetMoves DEF NetLabels, EventLabels
  <1>2. CASE Notify(t)
    <2>1. ev[t] \in Events \ {"connect"} /\ pc[t] = "notify"
      BY <1>2, ThreadNames DEF Notify, ThreadInv, EventType, Events
    <2>2. Outcome(ev[t]).tell \in {"none", "connected", "failed", "lost"}
      BY <2>1, OutcomeIs DEF DataType
    <2> QED
      BY <1>2, <2>1, <2>2, NotifyTakes DEF Notify
  <1>3. CASE NotifyTell(t)
    BY <1>3, TellKeeps
  <1> QED
    BY <1>1, <1>2, <1>3 DEF NotifyStep

\* ... and of a sender.
LEMMA SenderThread ==
    ASSUME ThreadInv, NEW s \in Senders, Send(s) \/ SendStep(s)
    PROVE  ThreadInv'
  <1> USE DEF SenderLabels, EventLabels, locks
  <1>1. CASE Send(s) \/ SendBegin(s) \/ SendEnd(s) \/ SendDone(s)
    BY <1>1, SenderMoves DEF Send, SendBegin, SendEnd, SendDone
  <1>2. CASE SendWrite(s)
    <2>1. CASE Raise(s, "disconnect", "sendDone")
      BY <1>2, <2>1, RaiseKeeps, ThreadNames DEF SendWrite, Events
    <2>2. CASE UNCHANGED << after, ev >> /\ Goto(s, "sendDone")
      BY <1>2, <2>2, SenderMoves DEF SendWrite
    <2> QED
      BY <1>2, <2>1, <2>2 DEF SendWrite
  <1> QED
    BY <1>1, <1>2 DEF SendStep

\* A step of one thread leaves the others where they are.
Only(t) ==
  \A u \in Threads \ {t} :
    pc'[u] = pc[u] /\ after'[u] = after[u] /\ ev'[u] = ev[u] /\ tell'[u] = tell[u]

\* Every step is a step of one thread.
LEMMA OneThread ==
    ASSUME ThreadInv
    PROVE  /\ UserStep => Only("user") /\ UNCHANGED tell
           /\ NetStep => Only("net")
           /\ \A t \in Threads : NotifyStep(t) => Only(t) /\ UNCHANGED << after, ev >>
           /\ \A s \in Senders : Send(s) \/ SendStep(s) => Only(s) /\ UNCHANGED tell
  <1>1. ASSUME NEW t \in Threads, NEW to, Goto(t, to), NoEvent PROVE Only(t)
    BY <1>1, GotoIs DEF ThreadInv, NoEvent, Only
  <1>2. ASSUME NEW t \in Threads, NEW e, NEW label, Raise(t, e, label), UNCHANGED tell PROVE Only(t)
    <2>1. \A u \in Threads \ {t} : pc'[u] = pc[u]
      BY <1>2, GotoIs DEF ThreadInv, Raise
    <2>2. \A u \in Threads \ {t} : after'[u] = after[u] /\ ev'[u] = ev[u]
      BY <1>2 DEF ThreadInv, EventType, Raise
    <2> QED
      BY <1>2, <2>1, <2>2 DEF Only
  <1>3. ASSUME NEW t \in Threads, NEW to, Goto(t, to), UNCHANGED << after, ev >>,
               NEW what, tell' = [tell EXCEPT ![t] = what]
        PROVE  Only(t)
    BY <1>3, GotoIs DEF ThreadInv, EventType, Only
  <1>4. ASSUME UserStep PROVE Only("user") /\ UNCHANGED tell
    <2>1. UNCHANGED tell
      BY <1>4 DEF UserStep, Connect, ConnectStep, BeginConnect, BeginConnectJoined, Start,
           ConnectCompleted, ConnectExpired, ConnectAbandoned, Settle, Disconnect, DisconnectStep,
           ReplaceCallback, Close, CloseSend, CloseWrite, Closed, Drop, Report, DisconnectCompleted,
           DisconnectExpired, DisconnectAbandoned, DisconnectReturns, Clear, ClearTransport, Cleared,
           NoEvent
    <2>2. (\E to : Goto("user", to) /\ NoEvent) \/ (\E label : Raise("user", "disconnect", label))
      <3>1. CASE Connect \/ ConnectStep \/ Disconnect \/ Clear \/ ClearTransport \/ Cleared
        BY <3>1 DEF Connect, ConnectStep, BeginConnect, BeginConnectJoined, FreshConnection, Start,
           ConnectCompleted, ConnectExpired, Completed, Expired, ConnectAbandoned, Settle, Disconnect,
           Clear, ClearTransport, Cleared
      <3>2. CASE ReplaceCallback \/ Close \/ CloseSend \/ Closed \/ Drop \/ Report
                 \/ DisconnectCompleted \/ DisconnectExpired \/ DisconnectReturns
        BY <3>2 DEF ReplaceCallback, Close, CloseSend, Closed, Drop, Report,
           DisconnectCompleted, DisconnectExpired, Completed, Expired, DisconnectReturns
      <3>3. CASE CloseWrite
        BY <3>3 DEF CloseWrite, NoEvent
      <3>4. CASE DisconnectAbandoned
        BY <3>4 DEF DisconnectAbandoned, NoEvent
      <3> QED
        BY <1>4, <3>1, <3>2, <3>3, <3>4 DEF UserStep, DisconnectStep
    <2> QED
      BY <1>1, <1>2, <2>1, <2>2, ThreadNames
  <1>5. ASSUME NetStep PROVE Only("net")
    <2>1. CASE SocketEvent
      BY <2>1, GotoIs, ThreadNames DEF SocketEvent, ThreadInv, EventType, Only
    <2>2. CASE Handle
      BY <2>2, <1>1, <1>2, ThreadNames DEF Handle, NoEvent
    <2>3. CASE Opening \/ OpenSend \/ OpenBroken
      <3>1. \E to : Goto("net", to) /\ NoEvent
        BY <2>3 DEF Opening, OpenSend, OpenBroken, NoEvent
      <3> QED
        BY <3>1, <1>1, ThreadNames
    <2>4. CASE OpenWrite
      BY <2>4, <1>1, <1>2, ThreadNames DEF OpenWrite, NoEvent
    <2>5. CASE OpenFailed
      BY <2>5, <1>3, ThreadNames DEF OpenFailed
    <2> QED
      BY <1>5, <2>1, <2>2, <2>3, <2>4, <2>5 DEF NetStep, OpenStep
  <1>6. ASSUME NEW t \in Threads, NotifyStep(t) PROVE Only(t) /\ UNCHANGED << after, ev >>
    <2>1. CASE NotifyConnect(t)
      BY <2>1, <1>1 DEF NotifyConnect, NoEvent
    <2>2. CASE Notify(t)
      BY <2>2, <1>3 DEF Notify
    <2>3. CASE NotifyTell(t)
      BY <2>3, <1>3 DEF NotifyTell
    <2> QED
      BY <1>6, <2>1, <2>2, <2>3 DEF NotifyStep
  <1>7. ASSUME NEW s \in Senders, Send(s) \/ SendStep(s) PROVE Only(s) /\ UNCHANGED tell
    <2>1. CASE Send(s) \/ SendBegin(s) \/ SendEnd(s) \/ SendDone(s)
      <3>1. NoEvent /\ \E to : Goto(s, to)
        BY <2>1 DEF Send, SendBegin, SendEnd, SendDone, NoEvent
      <3> QED
        BY <3>1, <1>1, ThreadNames DEF NoEvent
    <2>2. CASE SendWrite(s)
      BY <2>2, <1>1, <1>2, ThreadNames DEF SendWrite, NoEvent
    <2> QED
      BY <1>7, <2>1, <2>2 DEF SendStep
  <1> QED
    BY <1>4, <1>5, <1>6, <1>7

-----------------------------------------------------------------------------
(* What the channel and its connection are.                                 *)

Control == ThreadInv /\ DataType /\ CallType

\* The channel is told of its connection, and whoever waits of that.
LEMMA TellData ==
    ASSUME DataType, CallType, NEW t \in Threads, NEW report, CallBack(t, report)
    PROVE  /\ cb' \in {cb, Null} /\ UNCHANGED life
           /\ status' \in [States -> {"waiting", "good", "bad", "abandoned"}]
           /\ late' \subseteq States /\ owed' \in BOOLEAN
  <1>1. CASE UNCHANGED async
    BY <1>1 DEF async, DataType
  <1>2. CASE ChannelNotify(report)
    <2>1. cb' \in {cb, Null} /\ UNCHANGED life /\ owed' \in BOOLEAN
      BY <1>2 DEF ChannelNotify, DataType
    <2>2. CASE UNCHANGED << status, late >>
      BY <2>1, <2>2 DEF DataType
    <2>3. ASSUME NEW v \in {"good", "bad"}, Signal(cb.state, v), cb.state \in States
          PROVE  /\ status' \in [States -> {"waiting", "good", "bad", "abandoned"}]
                 /\ late' \subseteq States
      BY <2>3 DEF Signal, DataType
    <2>4. \/ UNCHANGED << status, late >>
          \/ cb.state \in States /\ \E v \in {"good", "bad"} : Signal(cb.state, v)
      BY <1>2 DEF ChannelNotify, CallType
    <2> QED
      BY <2>1, <2>2, <2>3, <2>4
  <1> QED
    BY <1>1, <1>2 DEF CallBack

\* The callback of a channel that has none.
LEMMA NullType == Null \in [to : {"null", "connect", "disconnect", "app"}, state : States \union {NoState}]
  BY DEF Null, NoState

\* A new AsyncCallState, and one that is deleted.
LEMMA CallFields ==
    ASSUME CallType
    PROVE  /\ \A s : LET c == [call EXCEPT !.connect = s] IN
                c.connect = s /\ c.disconnect = call.disconnect /\ c.good = call.good /\ c.sent = call.sent
           /\ \A s : LET c == [call EXCEPT !.disconnect = s] IN
                c.disconnect = s /\ c.connect = call.connect /\ c.good = call.good /\ c.sent = call.sent
           /\ \A b : LET c == [call EXCEPT !.good = b] IN
                c.good = b /\ c.connect = call.connect /\ c.disconnect = call.disconnect /\ c.sent = call.sent
           /\ \A b : LET c == [call EXCEPT !.sent = b] IN
                c.sent = b /\ c.connect = call.connect /\ c.disconnect = call.disconnect /\ c.good = call.good
  BY DEF CallType

\* DataType in the steps of the user's thread ...
LEMMA UserData == Control /\ UserStep => DataType'
  <1> SUFFICES ASSUME Control, UserStep PROVE DataType'
    OBVIOUS
  <1> USE DEF Control, secure, async
  <1>1. CASE Connect \/ Disconnect
    <2>1. life' \in [States -> {"unused", "live", "deleted"}]
      BY <1>1 DEF Connect, Disconnect, NewState, DataType
    <2> QED
      BY <1>1, <2>1 DEF Connect, Disconnect, DataType
  <1>2. CASE BeginConnect \/ BeginConnectJoined
    <2>1. call.connect \in States
      BY <1>2 DEF BeginConnect, BeginConnectJoined, CallType, Connecting
    <2>2. CASE FreshConnection /\ UNCHANGED << life, status, late, owed >>
      BY <2>1, <2>2 DEF FreshConnection, DataType, TcpStates, ScStates
    <2>3. CASE tcp' = "Disconnected" /\ UNCHANGED << secure, conn, cb, life, status, late, owed >>
      BY <2>3 DEF DataType, TcpStates
    <2> QED
      BY <1>2, <2>2, <2>3 DEF BeginConnect, BeginConnectJoined
  <1>3. CASE Start
    <2>1. life' \in [States -> {"unused", "live", "deleted"}]
      BY <1>3 DEF Start, Delete, DataType
    <2> QED
      BY <1>3, <2>1 DEF Start, DataType, TcpStates, ScStates
  <1>4. CASE ConnectCompleted \/ ConnectExpired \/ CloseSend \/ DisconnectCompleted
             \/ DisconnectExpired
    BY <1>4 DEF ConnectCompleted, ConnectExpired, CloseSend, DisconnectCompleted,
         DisconnectExpired, DataType
  <1>5. CASE ConnectAbandoned \/ DisconnectAbandoned
    <2>1. status' \in [States -> {"waiting", "good", "bad", "abandoned"}]
      BY <1>5 DEF ConnectAbandoned, DisconnectAbandoned, Abandoned, DataType
    <2> QED
      BY <1>5, <2>1 DEF ConnectAbandoned, DisconnectAbandoned, DropTransport, DataType, TcpStates
  <1>6. CASE Settle
    <2>1. life' \in [States -> {"unused", "live", "deleted"}]
      BY <1>6 DEF Settle, Delete, DataType
    <2>2. cb' \in {cb, [to |-> "app", state |-> NoState]} /\ owed' \in BOOLEAN
      BY <1>6 DEF Settle, DataType
    <2>3. cb' \in [to : {"null", "connect", "disconnect", "app"}, state : States \union {NoState}]
      BY <2>2 DEF DataType
    <2> QED
      BY <1>6, <2>1, <2>2, <2>3 DEF Settle, DataType
  <1>7. CASE ReplaceCallback
    <2>1. call.disconnect \in States
      BY <1>7 DEF ReplaceCallback, CallType, Disconnecting
    <2> QED
      BY <1>7, <2>1 DEF ReplaceCallback, DataType
  <1>8. CASE Close \/ Closed
    BY <1>8 DEF Close, Closed, DataType, ScStates
  <1>9. CASE CloseWrite \/ Drop
    BY <1>9 DEF CloseWrite, Drop, DropTransport, DataType, TcpStates
  <1>10. CASE Report
    BY <1>10, TellData, NullType, ThreadNames DEF Report, DataType
  <1>11. CASE DisconnectReturns
    BY <1>11 DEF DisconnectReturns, Delete, DataType
  <1>12. CASE Clear \/ ClearTransport \/ Cleared
    BY <1>12, NullType DEF Clear, ClearTransport, Cleared, DataType, TcpStates, ScStates
  <1> QED
    BY <1>1, <1>2, <1>3, <1>4, <1>5, <1>6, <1>7, <1>8, <1>9, <1>10, <1>11, <1>12
       DEF UserStep, ConnectStep, DisconnectStep

\* ... and of the other threads.
LEMMA OtherData ==
    ASSUME Control, \/ NetStep
                    \/ \E t \in Threads : NotifyStep(t)
                    \/ \E s \in Senders : Send(s) \/ SendStep(s)
    PROVE  DataType' /\ UNCHANGED << call, conn >>
  <1> USE DEF Control, secure, async
  <1>1. CASE NetStep
    <2>1. CASE SocketEvent \/ Handle
      BY <2>1 DEF SocketEvent, Handle, DataType, TcpStates
    <2>2. CASE Opening \/ OpenSend \/ OpenBroken \/ OpenFailed
      BY <2>2 DEF Opening, OpenSend, OpenBroken, OpenFailed, DataType, ScStates
    <2>3. CASE OpenWrite
      BY <2>3 DEF OpenWrite, DataType, TcpStates
    <2> QED
      BY <1>1, <2>1, <2>2, <2>3 DEF NetStep, OpenStep
  <1>2. ASSUME NEW t \in Threads, NotifyStep(t) PROVE DataType' /\ UNCHANGED << call, conn >>
    <2>1. CASE NotifyConnect(t)
      BY <2>1 DEF NotifyConnect, DataType
    <2>2. CASE Notify(t)
      <3>1. ev[t] \in Events \ {"connect"} /\ pc[t] = "notify"
        BY <2>2, ThreadNames DEF Notify, ThreadInv, EventType, Events
      <3>2. Outcome(ev[t]).sc \in ScStates /\ Outcome(ev[t]).opn \in BOOLEAN
        BY <3>1, OutcomeIs DEF DataType
      <3> QED
        BY <2>2, <3>2 DEF Notify, DataType
    <2>3. CASE NotifyTell(t)
      BY <2>3, TellData, NullType DEF NotifyTell, DataType
    <2> QED
      BY <1>2, <2>1, <2>2, <2>3 DEF NotifyStep
  <1>3. ASSUME NEW s \in Senders, Send(s) \/ SendStep(s) PROVE DataType' /\ UNCHANGED << call, conn >>
    BY <1>3 DEF Send, SendStep, SendBegin, SendEnd, SendWrite, SendDone, DataType, TcpStates
  <1> QED
    BY <1>1, <1>2, <1>3

\* CallType in the steps of the user's thread ...
LEMMA UserCall == Control /\ UserStep => CallType'
  <1> SUFFICES ASSUME Control, UserStep PROVE CallType'
    OBVIOUS
  <1> DEFINE CallSet == [connect : States \cup {NoState}, disconnect : States \cup {NoState},
                         good : BOOLEAN, sent : BOOLEAN]
             Names(to) == /\ to \in Connecting => call'.connect \in States
                          /\ to \in Disconnecting => call'.disconnect \in States
  <1> USE DEF Control, async
  <1>1. ASSUME NEW to, Goto("user", to), call' \in CallSet, Names(to),
               cb'.to \in {"connect", "disconnect"} => cb'.state \in States
        PROVE  CallType'
    <2>1. pc'["user"] = to
      BY <1>1, GotoIs, ThreadNames DEF ThreadInv
    <2> QED
      BY <1>1, <2>1 DEF CallType
  <1>2. cb' = cb => (cb'.to \in {"connect", "disconnect"} => cb'.state \in States)
    BY DEF CallType
  <1>3. call \in CallSet
    BY DEF CallType
  <1> HIDE DEF CallSet
  <1> USE DEF Connecting, Disconnecting, Closing
  <1>4. CASE Connect \/ Disconnect
    <2>1. CASE Connect
      <3>1. PICK s \in States : call' = [call EXCEPT !.connect = s]
        BY <2>1 DEF Connect, NewState
      <3>2. call' \in CallSet /\ call'.connect = s
        BY <1>3, <3>1 DEF CallSet
      <3>3. Goto("user", "begin") /\ cb' = cb
        BY <2>1 DEF Connect
      <3> QED
        BY <1>1, <1>2, <3>2, <3>3
    <2>2. CASE Disconnect
      <3>1. PICK s \in States : call' = [call EXCEPT !.disconnect = s]
        BY <2>2 DEF Disconnect, NewState
      <3>2. call' \in CallSet /\ call'.disconnect = s
        BY <1>3, <3>1 DEF CallSet
      <3>3. Goto("user", "replace") /\ cb' = cb
        BY <2>2 DEF Disconnect
      <3> QED
        BY <1>1, <1>2, <3>2, <3>3
    <2> QED
      BY <1>4, <2>1, <2>2
  <1>5. CASE BeginConnect \/ BeginConnectJoined
    <2>1. call.connect \in States /\ call' = call
      BY <1>5 DEF BeginConnect, BeginConnectJoined, CallType
    <2>2. cb' \in {cb, [to |-> "connect", state |-> call.connect]}
      BY <1>5 DEF BeginConnect, BeginConnectJoined, FreshConnection
    <2>3. cb'.to \in {"connect", "disconnect"} => cb'.state \in States
      BY <1>2, <2>1, <2>2
    <2>4. \E to \in {"join", "start"} : Goto("user", to)
      BY <1>5 DEF BeginConnect, BeginConnectJoined, FreshConnection
    <2> QED
      BY <1>1, <1>3, <2>1, <2>3, <2>4
  <1>6. CASE Start
    <2>1. CASE Goto("user", "await") /\ UNCHANGED call
      BY <1>1, <1>2, <1>3, <1>6, <2>1 DEF Start, CallType
    <2>2. CASE Goto("user", "out") /\ call' = [call EXCEPT !.connect = NoState]
      <3>1. call' \in CallSet
        BY <1>3, <2>2 DEF CallSet
      <3> QED
        BY <1>1, <1>2, <1>6, <2>2, <3>1 DEF Start
    <2> QED
      BY <1>6, <2>1, <2>2 DEF Start
  <1>7. CASE ConnectCompleted \/ ConnectAbandoned
    <2>1. PICK b \in BOOLEAN : call' = [call EXCEPT !.good = b]
      BY <1>7 DEF ConnectCompleted, ConnectAbandoned
    <2>2. call' \in CallSet /\ call'.connect = call.connect
      BY <1>3, <2>1, CallFields DEF CallSet
    <2>3. call.connect \in States /\ cb' = cb
      BY <1>7 DEF ConnectCompleted, Completed, ConnectAbandoned, CallType
    <2>4. \E to \in {"settle", "reset"} : Goto("user", to)
      BY <1>7 DEF ConnectCompleted, Completed, ConnectAbandoned
    <2> QED
      BY <1>1, <1>2, <2>2, <2>3, <2>4
  <1>8. CASE ConnectExpired
    BY <1>1, <1>2, <1>3, <1>8 DEF ConnectExpired, Expired, CallType
  <1>9. CASE Settle
    <2>1. call' \in CallSet
      BY <1>3, <1>9 DEF Settle, CallSet
    <2>2. cb' \in {cb, [to |-> "app", state |-> NoState]}
      BY <1>9 DEF Settle
    <2> QED
      BY <1>1, <1>2, <1>9, <2>1, <2>2 DEF Settle
  <1>10. CASE ReplaceCallback
    <2>1. call.disconnect \in States
      BY <1>10 DEF ReplaceCallback, CallType
    <2>2. call' \in CallSet /\ call'.disconnect = call.disconnect
      <3>1. call' = call \/ call' = [call EXCEPT !.sent = FALSE]
        BY <1>10 DEF ReplaceCallback
      <3> QED
        BY <1>3, <3>1 DEF CallSet
    <2>3. cb'.state = call.disconnect /\ \E to \in {"close", "return"} : Goto("user", to)
      BY <1>10 DEF ReplaceCallback
    <2> QED
      BY <1>1, <2>1, <2>2, <2>3
  <1>11. CASE Close \/ CloseSend \/ CloseWrite
    <2>1. call' = call \/ \E b \in BOOLEAN : call' = [call EXCEPT !.sent = b]
      BY <1>11 DEF Close, CloseSend, CloseWrite
    <2>2. call' \in CallSet /\ call'.disconnect = call.disconnect
      BY <1>3, <2>1, CallFields DEF CallSet
    <2>3. call.disconnect \in States /\ cb' = cb
      BY <1>11 DEF Close, CloseSend, CloseWrite, CallType
    <2>4. \E to \in {"closeSend", "drop", "report", "closeWrite", "closed", "dAwait", "notify"} : Goto("user", to)
      BY <1>11 DEF Close, CloseSend, CloseWrite, Raise
    <2> QED
      BY <1>1, <1>2, <2>2, <2>3, <2>4
  <1>12. CASE Closed \/ Drop \/ Report \/ DisconnectCompleted \/ DisconnectExpired \/ DisconnectAbandoned
    <2>1. call.disconnect \in States /\ call' = call
      BY <1>12 DEF Closed, Drop, Report, DisconnectCompleted, DisconnectExpired, Completed, Expired,
           DisconnectAbandoned, CallType
    <2>2. \E to \in {"drop", "report", "dAwait", "return", "dExpired", "notify"} : Goto("user", to)
      BY <1>12 DEF Closed, Drop, Report, DisconnectCompleted, DisconnectExpired, Completed, Expired,
           DisconnectAbandoned, Raise
    <2>3. cb' \in {cb, Null}
      BY <1>12, TellData, ThreadNames DEF Closed, Drop, Report, DisconnectCompleted, DisconnectExpired,
           DisconnectAbandoned
    <2> QED
      BY <1>1, <1>2, <1>3, <2>1, <2>2, <2>3 DEF Null
  <1>13. CASE DisconnectReturns
    <2>1. call' = [call EXCEPT !.disconnect = NoState] /\ cb' = cb
      BY <1>13 DEF DisconnectReturns
    <2>2. call' \in CallSet /\ call'.connect = call.connect
      BY <1>3, <2>1 DEF CallSet
    <2>3. Goto("user", Caller) /\ (Caller = "out" \/ (Caller = "settle" /\ call.connect \in States))
      BY <1>13 DEF DisconnectReturns, Caller, CallType
    <2> QED
      BY <1>1, <1>2, <2>1, <2>2, <2>3
  <1>14. CASE Clear \/ ClearTransport \/ Cleared
    <2>1. call' = call /\ cb' \in {cb, Null}
      BY <1>14 DEF Clear, ClearTransport, Cleared
    <2>2. \E to \in {"clear", "clearing", "gone"} : Goto("user", to)
      BY <1>14 DEF Clear, ClearTransport, Cleared
    <2> QED
      BY <1>1, <1>2, <1>3, <2>1, <2>2 DEF Null
  <1> QED
    BY <1>4, <1>5, <1>6, <1>7, <1>8, <1>9, <1>10, <1>11, <1>12, <1>13, <1>14
       DEF UserStep, ConnectStep, DisconnectStep

\* ... and of the other threads.
LEMMA OtherCall ==
    ASSUME Control, \/ NetStep
                    \/ \E t \in Threads : NotifyStep(t)
                    \/ \E s \in Senders : Send(s) \/ SendStep(s)
    PROVE  CallType'
  <1>1. ASSUME cb' \in {cb, Null}, call' = call,
               \/ pc'["user"] = pc["user"]
               \/ pc'["user"] \in Disconnecting /\ pc["user"] \in Disconnecting
        PROVE  CallType'
    BY <1>1 DEF Control, CallType, Null, Connecting, Disconnecting, Closing
  <1> DEFINE Away == pc'["user"] = pc["user"]
  <1>6. \A t \in Threads : Only(t) /\ t # "user" => Away
    BY ThreadNames DEF Only
  <1>2. call' = call
    BY OtherData
  <1>3. CASE NetStep
    <2>1. cb' = cb
      BY <1>3 DEF NetStep, OpenStep, SocketEvent, Handle, Opening, OpenSend, OpenWrite, OpenBroken,
           OpenFailed, async
    <2>2. Only("net")
      BY <1>3, OneThread DEF Control
    <2> QED
      BY <1>1, <1>2, <1>6, <2>1, <2>2, ThreadNames
  <1>4. ASSUME NEW t \in Threads, NotifyStep(t) PROVE CallType'
    <2>1. cb' \in {cb, Null}
      BY <1>4, TellData DEF NotifyStep, NotifyConnect, Notify, NotifyTell, async, Control
    <2>2. CASE t # "user"
      <3>1. Only(t)
        BY <1>4, OneThread DEF Control
      <3> QED
        BY <1>1, <1>2, <1>6, <2>1, <2>2, <3>1
    <2>3. CASE t = "user"
      <3>1. pc["user"] \in {"notify", "tell"} /\ ~NotifyConnect("user")
        BY <1>4, <2>3, ThreadNames DEF NotifyStep, NotifyConnect, Notify, NotifyTell, Control,
             ThreadInv, EventType
      <3>2. \E to \in {"tell", "closed", "return"} : Goto("user", to)
        BY <1>4, <2>3, <3>1 DEF NotifyStep, Notify, NotifyTell, Control, ThreadInv, EventType
      <3>3. pc'["user"] \in Disconnecting /\ pc["user"] \in Disconnecting
        BY <3>1, <3>2, GotoIs, ThreadNames DEF Control, ThreadInv, Disconnecting, Closing
      <3> QED
        BY <1>1, <1>2, <2>1, <3>3
    <2> QED
      BY <2>2, <2>3
  <1>5. ASSUME NEW s \in Senders, Send(s) \/ SendStep(s) PROVE CallType'
    <2>1. cb' = cb
      BY <1>5 DEF Send, SendStep, SendBegin, SendEnd, SendWrite, SendDone, async
    <2>2. Only(s)
      BY <1>5, OneThread DEF Control
    <2> QED
      BY <1>1, <1>2, <1>6, <2>1, <2>2, ThreadNames
  <1> QED
    BY <1>3, <1>4, <1>5

OtherStep ==
  \/ NetStep
  \/ \E t \in Threads : NotifyStep(t)
  \/ \E s \in Senders : Send(s) \/ SendStep(s)

\* Types and mutexes are kept by every step, with no help from what the calls mean.
LEMMA ControlStep == Control /\ [Next]_vars => Control'
  <1> SUFFICES ASSUME Control, [Next]_vars PROVE Control'
    OBVIOUS
  <1>1. Next => UserStep \/ OtherStep
    BY DEF Next, UserStep, NetStep, OtherStep
  <1>2. CASE UserStep
    BY <1>2, UserThread, UserData, UserCall DEF Control
  <1>3. CASE OtherStep
    <2>1. ThreadInv'
      BY <1>3, NetThread, NotifyThread, SenderThread DEF OtherStep, Control
    <2> QED
      BY <1>3, <2>1, OtherData, OtherCall DEF OtherStep, Control
  <1>4. CASE UNCHANGED vars
    <2>1. UNCHANGED << chan, req, tcp, sc, sccb, opn, conn, cb, life, status, late, owed, pc, after, ev,
                       tell, call >>
      BY <1>4 DEF vars, locks, secure, async, thread
    <2>2. ThreadInv'
      BY <2>1 DEF Control, ThreadInv, PcType, EventType, LockType
    <2>3. DataType' /\ CallType'
      BY <2>1 DEF Control, DataType, CallType
    <2> QED
      BY <2>2, <2>3 DEF Control
  <1> QED
    BY <1>1, <1>2, <1>3, <1>4

-----------------------------------------------------------------------------
(* The state of the connection follows the transport.                       *)

Line == NetInv /\ SendInv

\* A step of the user's thread that starts no new connection.
LEMMA LineKeeps ==
    ASSUME ThreadInv, Line, Only("user"), pc'["user"] # "start",
           tcp' = "Connecting" => tcp = "Connecting",
           sc' \in {"Disconnected", "Unknown", sc} \/ (sc = "Connected" /\ sc' = "DisconnectingSecure"),
           sccb' = sccb \/ sc' \in {"Disconnected", "Unknown"},
           ~conn' => pc["net"] = "idle"
    PROVE  Line'
  <1>1. pc'["net"] = pc["net"] /\ ev'["net"] = ev["net"] /\ \A s \in Senders : pc'[s] = pc[s]
    BY ThreadNames DEF Only
  <1>2. NetInv'
    BY <1>1 DEF Line, NetInv, Early, Down
  <1>3. SendInv'
    BY <1>1 DEF Line, SendInv
  <1> QED
    BY <1>2, <1>3 DEF Line

\* New connection objects are made when neither the transport nor a sender works on the old.
LEMMA LineFresh ==
    ASSUME Control, Line, Only("user"), FreshConnection, pc["net"] = "idle",
           \A s \in Senders : pc[s] = "idle"
    PROVE  Line'
  <1>1. pc'["net"] = "idle" /\ pc'["user"] = "start" /\ \A s \in Senders : pc'[s] = "idle"
    BY GotoIs, ThreadNames DEF Only, FreshConnection, Control, ThreadInv
  <1>2. NetInv'
    BY <1>1 DEF NetInv, Early, FreshConnection
  <1>3. SendInv'
    BY <1>1 DEF SendInv
  <1> QED
    BY <1>2, <1>3 DEF Line

\* Line in the steps of the user's thread ...
LEMMA UserLine == Control /\ Line /\ UserStep => Line'
  <1> SUFFICES ASSUME Control, Line, UserStep PROVE Line'
    OBVIOUS
  <1>1. Only("user") /\ ThreadInv
    BY OneThread DEF Control
  <1>2. \A to : Goto("user", to) => pc'["user"] = to
    BY GotoIs, ThreadNames DEF Control, ThreadInv
  <1>3. ~conn => pc["net"] = "idle"
    BY DEF Line, NetInv
  <1> USE DEF secure
  <1>4. CASE Connect \/ ConnectCompleted \/ ConnectExpired \/ ConnectAbandoned \/ Settle
    <2>1. UNCHANGED << tcp, sc, sccb, conn >>
          /\ \E to \in {"begin", "settle", "expired", "reset", "out"} : Goto("user", to)
      BY <1>4 DEF Connect, ConnectCompleted, ConnectExpired, Completed, Expired, ConnectAbandoned, Settle
    <2> QED
      BY <1>1, <1>2, <1>3, <2>1, LineKeeps
  <1>5. CASE BeginConnect
    <2>1. CASE ~conn /\ FreshConnection
      <3>1. chan = Free
        BY <1>5 DEF BeginConnect
      <3>2. \A s \in Senders : pc[s] = "idle"
        BY <3>1, ThreadNames DEF Control, ThreadInv, LockType
      <3> QED
        BY <1>1, <1>3, <2>1, <3>2, LineFresh
    <2>2. CASE conn /\ tcp' = "Disconnected" /\ Goto("user", "join") /\ UNCHANGED << secure, conn >>
      BY <1>1, <1>2, <2>2, LineKeeps
    <2> QED
      BY <1>5, <2>1, <2>2 DEF BeginConnect
  <1>6. CASE BeginConnectJoined
    <2>1. chan = "user" /\ pc["net"] = "idle" /\ FreshConnection
      BY <1>6 DEF BeginConnectJoined, Control, ThreadInv, LockType
    <2>2. \A s \in Senders : pc[s] = "idle"
      BY <2>1, ThreadNames DEF Control, ThreadInv, LockType
    <2> QED
      BY <1>1, <2>1, <2>2, LineFresh
  <1>7. CASE Start
    <2>1. pc["user"] = "start" /\ pc["net"] = "idle" /\ pc'["net"] = "idle" /\ UNCHANGED conn
          /\ \A s \in Senders : pc'[s] = pc[s]
      BY <1>1, <1>7, ThreadNames DEF Start, Line, NetInv, Only
    <2>2. \A s \in Senders : pc'[s] \in {"idle", "sendBegin"}
      BY <2>1 DEF Line, SendInv
    <2>3. pc'["user"] # "start"
      BY <1>2, <1>7 DEF Start
    <2>4. NetInv'
      BY <1>7, <2>1, <2>3 DEF NetInv, Early, Down, Start
    <2>5. SendInv'
      BY <2>2 DEF SendInv
    <2> QED
      BY <2>4, <2>5 DEF Line
  <1>8. CASE Disconnect \/ ReplaceCallback \/ CloseSend \/ Report \/ DisconnectCompleted
             \/ DisconnectExpired \/ Clear
    <2>1. UNCHANGED << tcp, sc, sccb, conn >>
      BY <1>8 DEF Disconnect, ReplaceCallback, CloseSend, Report, DisconnectCompleted,
           DisconnectExpired, Clear
    <2>2. \E to \in {"replace", "close", "closeWrite", "closed", "dAwait", "return", "dExpired", "clear"} :
            Goto("user", to)
      BY <1>8 DEF Disconnect, ReplaceCallback, CloseSend, Report, DisconnectCompleted,
           DisconnectExpired, Completed, Expired, Clear
    <2> QED
      BY <1>1, <1>2, <1>3, <2>1, <2>2, LineKeeps
  <1>9. CASE Close \/ Closed
    <2>1. UNCHANGED << tcp, sccb, conn >>
          /\ (sc' \in {"Disconnected", sc} \/ (sc = "Connected" /\ sc' = "DisconnectingSecure"))
      BY <1>9 DEF Close, Closed
    <2>2. \E to \in {"closeSend", "drop", "report"} : Goto("user", to)
      BY <1>9 DEF Close, Closed
    <2> QED
      BY <1>1, <1>2, <1>3, <2>1, <2>2, LineKeeps
  <1>10. CASE CloseWrite \/ Drop \/ DisconnectAbandoned \/ ClearTransport
    <2>1. UNCHANGED << sc, sccb, conn >> /\ tcp' \in {tcp, "Disconnected"}
      BY <1>10 DEF CloseWrite, Drop, DisconnectAbandoned, DropTransport, ClearTransport
    <2>2. \E to \in {"closed", "dAwait", "notify", "report", "return", "clearing"} : Goto("user", to)
      BY <1>10 DEF CloseWrite, Drop, DisconnectAbandoned, ClearTransport, Raise
    <2> QED
      BY <1>1, <1>2, <1>3, <2>1, <2>2, LineKeeps
  <1>11. CASE DisconnectReturns
    <2>1. UNCHANGED << tcp, sc, sccb, conn >> /\ \E to \in {"settle", "out"} : Goto("user", to)
      BY <1>11 DEF DisconnectReturns, Caller
    <2> QED
      BY <1>1, <1>2, <1>3, <2>1, LineKeeps
  <1>12. CASE Cleared
    <2>1. tcp' = tcp /\ sc' = "Disconnected" /\ pc["net"] = "idle" /\ Goto("user", "gone")
      BY <1>12 DEF Cleared
    <2> QED
      BY <1>1, <1>2, <2>1, LineKeeps
  <1> QED
    BY <1>4, <1>5, <1>6, <1>7, <1>8, <1>9, <1>10, <1>11, <1>12
       DEF UserStep, ConnectStep, DisconnectStep

\* The transport thread works only for a connection that is there and was started.
LEMMA NetWorks ==
    ASSUME Control, Line, NetStep
    PROVE  /\ pc["user"] # "start" /\ conn
           /\ pc'["user"] = pc["user"] /\ \A s \in Senders : pc'[s] = pc[s]
  <1>1. pc["net"] # "idle" \/ SocketEvent
    BY DEF NetStep, OpenStep, Handle, Opening, OpenSend, OpenWrite, OpenBroken, OpenFailed
  <1>2. pc["user"] # "start" /\ conn
    BY <1>1 DEF Line, NetInv, SocketEvent
  <1>3. Only("net")
    BY OneThread DEF Control
  <1> QED
    BY <1>2, <1>3, ThreadNames DEF Only

\* ... of the transport thread ...
LEMMA NetLine == Control /\ Line /\ NetStep => Line'
  <1> SUFFICES ASSUME Control, Line, NetStep PROVE Line'
    OBVIOUS
  <1>1. /\ pc["user"] # "start" /\ conn' /\ pc'["user"] = pc["user"]
        /\ \A s \in Senders : pc'[s] = pc[s]
    BY NetWorks, OtherData
  <1>2. \A to : Goto("net", to) => pc'["net"] = to
    BY GotoIs, ThreadNames DEF Control, ThreadInv
  <1>3. NetInv /\ SendInv
    BY DEF Line
  <1> USE DEF secure
  <1>4. sc' = sc => SendInv'
    BY <1>1, <1>3 DEF SendInv
  <1>5. CASE SocketEvent
    <2>1. PICK e \in Arrivals : ev' = [ev EXCEPT !["net"] = e]
      BY <1>5 DEF SocketEvent
    <2>2. pc'["net"] = "handle" /\ ev'["net"] = e /\ UNCHANGED << tcp, sc, sccb >>
      BY <1>2, <1>5, <2>1, ThreadNames DEF SocketEvent, Control, ThreadInv, EventType
    <2>3. /\ e \in {"acknowledge", "nack"} => tcp = "Connecting"
          /\ e \in {"opened", "rejected"} => tcp # "Connecting"
      BY <2>1 DEF Arrivals
    <2>4. NetInv'
      BY <1>1, <1>3, <2>2, <2>3 DEF NetInv, Early
    <2> QED
      BY <1>4, <2>2, <2>4 DEF Line
  <1>6. CASE Handle
    <2>1. pc["net"] = "handle" /\ UNCHANGED << sc, sccb >> /\ tcp' # "Connecting"
      BY <1>3, <1>6 DEF Handle, NetInv
    <2>2. \/ pc'["net"] = "idle"
          \/ pc'["net"] = "notify" /\ (ev'["net"] \in {"connect", "refused"} => Early)
      BY <1>2, <1>6, ThreadNames DEF Handle, Raise, Early, Control, ThreadInv, EventType
    <2>3. NetInv'
      BY <1>1, <1>3, <2>1, <2>2 DEF NetInv, Early
    <2> QED
      BY <1>4, <2>1, <2>3 DEF Line
  <1>7. CASE Opening
    <2>1. pc["net"] = "opening" /\ pc'["net"] \in {"openSend", "openFailed"} /\ UNCHANGED << tcp, sccb >>
          /\ (sc' = sc \/ sc = "ConnectingTransport")
      BY <1>2, <1>7 DEF Opening
    <2>2. NetInv'
      BY <1>1, <1>3, <2>1 DEF NetInv, Early
    <2>3. SendInv'
      BY <1>1, <1>3, <1>4, <2>1 DEF SendInv
    <2> QED
      BY <2>2, <2>3 DEF Line
  <1>8. CASE OpenSend \/ OpenBroken \/ OpenFailed
    <2>1. /\ pc["net"] \in {"openSend", "openBroken", "openFailed"}
          /\ pc'["net"] \in {"openWrite", "openFailed", "idle", "tell"} /\ UNCHANGED << tcp, sc, sccb >>
      BY <1>2, <1>8 DEF OpenSend, OpenBroken, OpenFailed
    <2>2. NetInv'
      BY <1>1, <1>3, <2>1 DEF NetInv, Early
    <2> QED
      BY <1>4, <2>1, <2>2 DEF Line
  <1>9. CASE OpenWrite
    <2>1. pc["net"] = "openWrite" /\ UNCHANGED << sc, sccb >> /\ tcp' # "Connecting"
      BY <1>3, <1>9 DEF OpenWrite, NetInv
    <2>2. \/ pc'["net"] \in {"idle", "openBroken"}
          \/ pc'["net"] = "notify" /\ ev'["net"] = "disconnect"
      BY <1>2, <1>9, ThreadNames DEF OpenWrite, Raise, Control, ThreadInv, EventType
    <2>3. NetInv'
      BY <1>1, <1>3, <2>1, <2>2 DEF NetInv, Early
    <2> QED
      BY <1>4, <2>1, <2>3 DEF Line
  <1> QED
    BY <1>5, <1>6, <1>7, <1>8, <1>9 DEF NetStep, OpenStep

\* An event is handled for a connection that was started.
LEMMA NotifyWorks ==
    ASSUME Control, Line, NEW t \in Threads, NotifyStep(t)
    PROVE  /\ pc[t] \in EventLabels /\ pc["user"] # "start" /\ pc'["user"] # "start"
           /\ \A u \in Threads \ {t} : pc'[u] = pc[u] /\ tell'[u] = tell[u]
           /\ UNCHANGED << after, ev, call, conn, tcp, sccb, chan >>
           /\ t \in Senders => pc'[t] \in {"tell", "sendDone"} /\ sc \notin {"ConnectingTransport", "ConnectingSecure"}
           /\ t = "user" => pc'[t] \in {"tell", "closed", "return"}
           /\ t = "net" => pc'[t] \in {"tell", "opening", "idle", "openBroken"}
           /\ t # "net" => ~NotifyConnect(t)
  <1>1. pc[t] \in EventLabels
    BY DEF NotifyStep, NotifyConnect, Notify, NotifyTell, EventLabels
  <1>2. pc["user"] # "start"
    BY <1>1, ThreadNames DEF Line, NetInv, SendInv, EventLabels
  <1>3. Only(t) /\ UNCHANGED << after, ev >>
    BY OneThread DEF Control
  <1>4. \A u \in Threads \ {t} : pc'[u] = pc[u] /\ tell'[u] = tell[u]
    BY <1>3 DEF Only
  <1>5. t # "net" => ~NotifyConnect(t)
    BY ThreadNames DEF NotifyConnect, Control, ThreadInv, EventType
  <1>6. \A to : Goto(t, to) => pc'[t] = to
    BY GotoIs DEF Control, ThreadInv
  <1>7. NotifyConnect(t) => pc'[t] \in {"opening", after[t]}
    BY <1>6 DEF NotifyConnect
  <1>8. Notify(t) => pc'[t] = "tell"
    BY <1>6 DEF Notify
  <1>9. NotifyTell(t) => pc'[t] = after[t]
    BY <1>6 DEF NotifyTell
  <1>10. /\ t = "user" => after[t] \in {"closed", "return"}
         /\ t = "net" => after[t] \in {"idle", "openBroken"}
         /\ t \in Senders => after[t] = "sendDone"
    BY <1>1, ThreadNames DEF Control, ThreadInv, EventType, EventLabels
  <1>11. UNCHANGED << call, conn, tcp, sccb, chan >>
    BY DEF NotifyStep, NotifyConnect, Notify, NotifyTell, secure, locks
  <1>12. t \in Senders => sc \notin {"ConnectingTransport", "ConnectingSecure"}
    BY <1>1 DEF Line, SendInv, EventLabels
  <1>13. pc'["user"] # "start"
    BY <1>2, <1>4, <1>5, <1>7, <1>8, <1>9, <1>10, ThreadNames DEF NotifyStep
  <1> QED
    BY <1>1, <1>2, <1>3, <1>4, <1>5, <1>7, <1>8, <1>9, <1>10, <1>11, <1>12, <1>13, ThreadNames
       DEF NotifyStep

\* How an event changes the state of the connection.
LEMMA NotifyIs ==
    ASSUME Control, Line, NEW t \in Threads, Notify(t)
    PROVE  /\ ev[t] \in Events \ {"connect"} /\ (t # "net" => ev[t] = "disconnect")
           /\ sc' = Outcome(ev[t]).sc /\ opn' = Outcome(ev[t]).opn /\ pc[t] = "notify"
           /\ tell'[t] = Outcome(ev[t]).tell /\ pc'[t] = "tell" /\ req = Free
           /\ sc \in ScStates /\ opn \in BOOLEAN /\ UNCHANGED << cb, status, owed >>
  <1>1. pc[t] = "notify"
    BY DEF Notify
  <1>2. ev[t] \in Events \ {"connect"} /\ (t # "net" => ev[t] = "disconnect")
    BY <1>1 DEF Notify, Control, ThreadInv, EventType, Events
  <1>3. tell'[t] = Outcome(ev[t]).tell
    BY DEF Notify, Control, ThreadInv, EventType
  <1>4. pc'[t] = "tell"
    BY GotoIs DEF Notify, Control, ThreadInv
  <1> QED
    BY <1>1, <1>2, <1>3, <1>4 DEF Notify, async, Control, DataType

\* ... of a thread that handles an event ...
LEMMA NotifyLine ==
    ASSUME Control, Line, NEW t \in Threads, NotifyStep(t)
    PROVE  Line'
  <1>1. CASE sc' = sc
    <2>1. SendInv'
      BY <1>1, NotifyWorks, ThreadNames DEF Line, SendInv, EventLabels
    <2>2. Early' => Early
      BY NotifyWorks, ThreadNames DEF Early, EventLabels
    <2>3. NetInv'
      BY <1>1, <2>2, NotifyWorks, ThreadNames DEF Line, NetInv, EventLabels
    <2> QED
      BY <2>1, <2>3 DEF Line
  <1>2. CASE sc' # sc
    <2>1. Notify(t)
      BY <1>2 DEF NotifyStep, NotifyConnect, NotifyTell, secure
    <2>2. /\ ev[t] \in Events \ {"connect"} /\ (t # "net" => ev[t] = "disconnect")
          /\ sc' = Outcome(ev[t]).sc /\ pc[t] = "notify" /\ pc'[t] = "tell"
          /\ sc \in ScStates /\ opn \in BOOLEAN
      BY <2>1, NotifyIs
    <2>3. /\ sc' \in {"Unknown", "Disconnected", "Connected"}
          /\ sc' = "Connected" => t = "net" /\ sc = "ConnectingSecure"
      BY <1>2, <2>2, OutcomeIs
    <2>4. SendInv'
      BY <2>3, NotifyWorks, ThreadNames DEF Line, SendInv, EventLabels
    <2>5. NetInv'
      <3>1. CASE t = "net"
        BY <2>2, <2>3, <3>1, NotifyWorks, ThreadNames DEF Line, NetInv, Early, EventLabels, Down
      <3>2. CASE t # "net"
        BY <2>2, <2>3, <3>2, NotifyWorks, ThreadNames DEF Line, NetInv, Early, EventLabels, Down
      <3> QED
        BY <3>1, <3>2
    <2> QED
      BY <2>4, <2>5 DEF Line
  <1> QED
    BY <1>1, <1>2

\* What a sender does to the connection.
LEMMA SendIs ==
    ASSUME Control, Line, NEW s \in Senders, Send(s) \/ SendStep(s)
    PROVE  /\ \A u \in Threads \ {s} : pc'[u] = pc[u] /\ ev'[u] = ev[u]
           /\ pc'["user"] = pc["user"] /\ pc'["net"] = pc["net"] /\ ev'["net"] = ev["net"]
           /\ UNCHANGED << sc, sccb, opn, conn, cb, status, owed, call, tell >>
           /\ \/ tcp' = tcp
              \/ tcp' = "Disconnected" /\ pc'[s] = "notify" /\ ev'[s] = "disconnect"
           /\ \/ pc'[s] \in {"idle", "sendBegin"}
              \/ pc[s] \notin {"idle", "sendBegin"}
              \/ sc = "Connected" /\ req = Free
           /\ pc[s] \notin EventLabels
  <1>1. Only(s) /\ UNCHANGED tell
    BY OneThread DEF Control
  <1>2. UNCHANGED << sc, sccb, opn, conn, cb, status, owed, call >>
    BY DEF Send, SendStep, SendBegin, SendEnd, SendWrite, SendDone, secure, async
  <1>3. \A to : Goto(s, to) => pc'[s] = to
    BY GotoIs, ThreadNames DEF Control, ThreadInv
  <1>4. \/ tcp' = tcp
        \/ tcp' = "Disconnected" /\ pc'[s] = "notify" /\ ev'[s] = "disconnect"
    BY <1>3, ThreadNames DEF Send, SendStep, SendBegin, SendEnd, SendWrite, SendDone, Raise,
       Control, ThreadInv, EventType
  <1>5. \/ pc'[s] \in {"idle", "sendBegin"}
        \/ pc[s] \notin {"idle", "sendBegin"}
        \/ sc = "Connected" /\ req = Free
    BY <1>3 DEF Send, SendStep, SendBegin, SendEnd, SendWrite, SendDone
  <1>6. pc[s] \notin EventLabels
    BY DEF Send, SendStep, SendBegin, SendEnd, SendWrite, SendDone, EventLabels
  <1> QED
    BY <1>1, <1>2, <1>4, <1>5, <1>6, ThreadNames DEF Only

\* ... and of a sender.
LEMMA SenderLine ==
    ASSUME Control, Line, NEW s \in Senders, Send(s) \/ SendStep(s)
    PROVE  Line'
  <1>1. NetInv'
    BY SendIs DEF Line, NetInv, Early
  <1>2. SendInv'
    BY SendIs, ThreadNames DEF Line, SendInv, NetInv
  <1> QED
    BY <1>1, <1>2 DEF Line

-----------------------------------------------------------------------------
(* Who is told, and whether there is somebody left to tell.                 *)

\* What the channel makes of a report.
LEMMA ReportIs ==
    ASSUME DataType, CallType, NEW report, ChannelNotify(report)
    PROVE  /\ cb' = IF report = "lost" THEN Null ELSE cb
           /\ cb.to = "connect" =>
                status' = [status EXCEPT ![cb.state] = IF report = "connected" THEN "good" ELSE "bad"]
           /\ cb.to = "disconnect" /\ report = "lost" => status' = [status EXCEPT ![cb.state] = "good"]
           /\ cb.to \in {"null", "app"} => status' = status
           /\ cb.to = "disconnect" /\ report # "lost" => status' = status
           /\ owed' = (owed /\ ~(cb.to = "app" /\ report = "lost"))
           /\ cb.to \in {"null", "connect", "disconnect", "app"}
           /\ UNCHANGED life
  BY DEF ChannelNotify, Signal, DataType

\* What telling the channel changes, and that one thread does it at a time.
LEMMA TellIs ==
    ASSUME Control, NEW t \in Threads, NotifyTell(t)
    PROVE  /\ pc[t] = "tell" /\ req = t /\ tell'[t] = "none"
           /\ UNCHANGED << tcp, sc, sccb, opn, ev, call, conn >>
           /\ \/ tell[t] # "none" /\ sccb /\ ChannelNotify(tell[t])
              \/ (tell[t] = "none" \/ ~sccb) /\ UNCHANGED << cb, status, owed, life >>
           /\ \A u \in Threads \ {t} : pc[u] # "tell" /\ tell[u] = "none"
  <1>1. pc[t] = "tell" /\ req = t
    BY DEF NotifyTell
  <1>2. \A u \in Threads \ {t} : pc[u] # "tell" /\ tell[u] = "none"
    BY <1>1 DEF Control, ThreadInv, LockType, EventType
  <1>3. tell'[t] = "none"
    BY DEF NotifyTell, Control, ThreadInv, EventType
  <1> QED
    BY <1>1, <1>2, <1>3 DEF NotifyTell, CallBack, secure, async

\* No AsyncCallState is NoState.
LEMMA NoStateIsNone == NoState \notin States
  BY ChannelAssumption DEF NoState, States

\* Nothing is being told while the mutex of the secure connection is free.
LEMMA FreeTells ==
    ASSUME Control, req = Free
    PROVE  \A t \in Threads : pc[t] # "tell" /\ tell[t] = "none"
  BY ThreadNames DEF Control, ThreadInv, LockType, EventType

\* The steps of the other threads leave the state of the calls alone, apart from a signal.
LEMMA OtherCallInv ==
    ASSUME Control, Line, CallInv, OtherStep
    PROVE  CallInv'
  <1>1. ASSUME cb' \in {cb, Null}, UNCHANGED << call, life >>,
               \A s \in States : status'[s] = status[s]
                  \/ (cb.to \in {"connect", "disconnect"} /\ s = cb.state /\ pc["user"] # "start"),
               \/ pc'["user"] = pc["user"] /\ (pc["user"] # "start" \/ UNCHANGED << cb, opn >>)
               \/ pc'["user"] \in Disconnecting /\ pc["user"] \in Disconnecting
        PROVE  CallInv'
    <2>1. \A s \in States : life[s] = "unused" => status'[s] = "waiting"
      BY <1>1 DEF CallInv
    <2>2. pc["user"] \in {"begin", "join", "start"} => status'[call.connect] = "waiting"
      BY <1>1 DEF CallInv, Control, CallType, Connecting
    <2>3. pc["user"] \in Disconnecting => pc["user"] \notin Connecting \cup {"out"}
      BY DEF Connecting, Disconnecting, Closing
    <2>4. CASE pc'["user"] = pc["user"]
      <3>1. /\ cb'.to \in {"connect", "disconnect"} => cb' = cb
            /\ pc["user"] = "start" => cb' = cb /\ (opn' <=> opn)
        BY <1>1, <2>4, <2>3 DEF Null, Connecting
      <3> QED
        BY <1>1, <2>1, <2>2, <2>4, <3>1 DEF CallInv
    <2>5. CASE pc'["user"] \in Disconnecting /\ pc["user"] \in Disconnecting
      <3>1. pc'["user"] \notin Connecting \cup {"out"} /\ pc'["user"] \notin {"begin", "join", "start"}
        BY <2>5 DEF Connecting, Disconnecting, Closing
      <3> QED
        BY <1>1, <2>1, <2>5, <3>1 DEF CallInv, Null
    <2> QED
      BY <1>1, <2>4, <2>5
  <1>2. CASE NetStep
    <2>1. UNCHANGED << cb, call, life, status >>
      BY <1>2, OtherData DEF NetStep, OpenStep, SocketEvent, Handle, Opening, OpenSend, OpenWrite,
         OpenBroken, OpenFailed, async
    <2> QED
      BY <1>1, <1>2, <2>1, NetWorks
  <1>3. ASSUME NEW t \in Threads, NotifyStep(t) PROVE CallInv'
    <2>1. cb' \in {cb, Null} /\ UNCHANGED << call, life >>
      BY <1>3, TellData, NotifyWorks DEF NotifyStep, NotifyConnect, Notify, async, Control, NotifyTell
    <2>2. \A s \in States : status'[s] = status[s] \/ (cb.to \in {"connect", "disconnect"} /\ s = cb.state)
      <3>1. CASE NotifyTell(t)
        BY <3>1, TellIs, ReportIs DEF Control, DataType
      <3>2. CASE NotifyConnect(t) \/ Notify(t)
        BY <3>2 DEF NotifyConnect, Notify, async
      <3> QED
        BY <1>3, <3>1, <3>2 DEF NotifyStep
    <2>3. pc["user"] # "start"
      BY <1>3, NotifyWorks
    <2>4. CASE t = "user"
      <3>1. pc["user"] \in Disconnecting /\ pc'["user"] \in Disconnecting
        BY <1>3, <2>4, NotifyWorks DEF EventLabels, Disconnecting, Closing
      <3> QED
        BY <1>1, <2>1, <2>2, <2>3, <3>1
    <2>5. CASE t # "user"
      <3>1. pc'["user"] = pc["user"]
        BY <1>3, <2>5, NotifyWorks, ThreadNames
      <3> QED
        BY <1>1, <2>1, <2>2, <2>3, <3>1
    <2> QED
      BY <2>4, <2>5
  <1>4. ASSUME NEW s \in Senders, Send(s) \/ SendStep(s) PROVE CallInv'
    <2>1. UNCHANGED life
      BY <1>4 DEF Send, SendStep, SendBegin, SendEnd, SendWrite, SendDone, async
    <2> QED
      BY <1>1, <1>4, <2>1, SendIs
  <1> QED
    BY <1>2, <1>3, <1>4 DEF OtherStep

\* The user's thread makes a call state, waits on it and deletes it.
LEMMA UserCallInv == Control /\ Line /\ CallInv /\ UserStep => CallInv'
  <1> SUFFICES ASSUME Control, Line, CallInv, UserStep PROVE CallInv'
    OBVIOUS
  <1>1. \A to : Goto("user", to) => pc'["user"] = to
    BY GotoIs, ThreadNames DEF Control, ThreadInv
  <1> USE DEF Connecting, Disconnecting, Closing, async
  <1>2. CASE Connect
    <2>1. PICK s \in States : life[s] = "unused" /\ life' = [life EXCEPT ![s] = "live"]
                              /\ call' = [call EXCEPT !.connect = s]
      BY <1>2 DEF Connect, NewState
    <2>2. pc'["user"] = "begin" /\ call'.connect = s /\ UNCHANGED << cb, status >>
      BY <1>1, <1>2, <2>1 DEF Connect, Control, CallType
    <2>3. life' \in [States -> {"unused", "live", "deleted"}] /\ life'[s] = "live"
          /\ \A r \in States : r # s => life'[r] = life[r]
      BY <2>1 DEF Control, DataType
    <2>4. cb.to \in {"connect", "disconnect"} => cb.state # s /\ life'[cb.state] # "unused"
      BY <2>1, <2>3 DEF CallInv, Control, CallType
    <2>5. \A r \in States : life'[r] = "unused" => status[r] = "waiting"
      BY <2>3 DEF CallInv
    <2>6. status[s] = "waiting"
      BY <2>1 DEF CallInv
    <2> QED
      BY <2>2, <2>3, <2>4, <2>5, <2>6 DEF CallInv
  <1>3. CASE Disconnect
    <2>1. PICK s \in States : life[s] = "unused" /\ life' = [life EXCEPT ![s] = "live"]
                              /\ call' = [call EXCEPT !.disconnect = s]
      BY <1>3 DEF Disconnect, NewState
    <2>2. pc'["user"] = "replace" /\ call'.disconnect = s /\ UNCHANGED << cb, status >>
          /\ call'.connect = call.connect /\ call'.good = call.good /\ pc["user"] \in {"out", "reset"}
          /\ call.connect \in States \cup {NoState}
      BY <1>1, <1>3, <2>1 DEF Disconnect, Control, CallType
    <2>3. life' \in [States -> {"unused", "live", "deleted"}] /\ life'[s] = "live"
          /\ \A r \in States : r # s => life'[r] = life[r]
      BY <2>1 DEF Control, DataType
    <2>4. cb.to \in {"connect", "disconnect"} => life'[cb.state] # "unused"
      BY <2>1, <2>3 DEF CallInv, Control, CallType
    <2>5. \A r \in States : life'[r] = "unused" => status[r] = "waiting"
      BY <2>3 DEF CallInv
    <2> QED
      BY <2>2, <2>3, <2>4, <2>5 DEF CallInv
  <1>4. CASE BeginConnect \/ BeginConnectJoined
    <2>1. CASE FreshConnection /\ UNCHANGED << life, status, call >> /\ pc["user"] \in {"begin", "join"}
      <3>1. pc'["user"] = "start" /\ cb' = [to |-> "connect", state |-> call.connect] /\ ~opn'
        BY <1>1, <2>1 DEF FreshConnection
      <3>2. call.connect # NoState
        BY <2>1, NoStateIsNone DEF Control, CallType
      <3> QED
        BY <2>1, <3>1, <3>2 DEF CallInv
    <2>2. CASE Goto("user", "join") /\ UNCHANGED << cb, life, status, call >> /\ pc["user"] = "begin"
      <3>1. pc'["user"] = "join"
        BY <1>1, <2>2
      <3> QED
        BY <2>2, <3>1 DEF CallInv
    <2> QED
      BY <1>4, <2>1, <2>2 DEF BeginConnect, BeginConnectJoined
  <1>5. ASSUME NEW s \in States, Delete(s)
        PROVE  \A r \in States : life'[r] = "unused" <=> life[r] = "unused" /\ r # s
    BY <1>5 DEF Delete, Control, DataType
  <1>6. CASE Start
    <2>1. CASE Goto("user", "await") /\ UNCHANGED << call, life, cb, status >>
      <3>1. pc'["user"] = "await" /\ pc["user"] = "start"
        BY <1>1, <1>6, <2>1 DEF Start
      <3> QED
        BY <2>1, <3>1 DEF CallInv
    <2>2. CASE Delete(call.connect) /\ call' = [call EXCEPT !.connect = NoState] /\ Goto("user", "out")
               /\ UNCHANGED << cb, status >>
      <3>1. pc'["user"] = "out" /\ call'.connect = NoState /\ call.connect \in States
        BY <1>1, <1>6, <2>2 DEF Start, Control, CallType
      <3>2. \A r \in States : life'[r] = "unused" <=> life[r] = "unused" /\ r # call.connect
        BY <1>5, <2>2, <3>1
      <3> QED
        BY <2>2, <3>1, <3>2 DEF CallInv, Control, CallType
    <2> QED
      BY <1>6, <2>1, <2>2 DEF Start
  <1>7. CASE ConnectCompleted \/ ConnectExpired
    <2>1. UNCHANGED << life, status, cb >> /\ call'.connect = call.connect /\ pc["user"] = "await"
      BY <1>7 DEF ConnectCompleted, ConnectExpired, Completed, Expired, Control, CallType
    <2>2. pc'["user"] \in {"settle", "expired"}
      BY <1>1, <1>7 DEF ConnectCompleted, ConnectExpired, Completed, Expired
    <2> QED
      BY <2>1, <2>2 DEF CallInv
  <1>8. CASE ConnectAbandoned
    <2>1. pc'["user"] = "reset" /\ pc["user"] = "expired" /\ UNCHANGED << life, cb >>
          /\ call'.connect = call.connect /\ ~call'.good /\ call.connect \in States
      BY <1>1, <1>8 DEF ConnectAbandoned, Control, CallType
    <2>2. \A r \in States : r # call.connect => status'[r] = status[r]
      BY <1>8 DEF ConnectAbandoned, Abandoned, Control, DataType
    <2>3. \A r \in States : life[r] = "unused" => status'[r] = "waiting"
      BY <2>1, <2>2, NoStateIsNone DEF CallInv
    <2> QED
      BY <2>1, <2>3 DEF CallInv
  <1>9. CASE Settle
    <2>1. pc'["user"] = "out" /\ call'.connect = NoState /\ call.connect \in States
          /\ Delete(call.connect) /\ UNCHANGED status
      BY <1>1, <1>9 DEF Settle, Control, CallType
    <2>2. \A r \in States : life'[r] = "unused" <=> life[r] = "unused" /\ r # call.connect
      BY <1>5, <2>1
    <2>3. cb' \in {cb, [to |-> "app", state |-> NoState]}
      BY <1>9 DEF Settle
    <2> QED
      BY <2>1, <2>2, <2>3 DEF CallInv, Control, CallType
  <1>10. CASE ReplaceCallback \/ Close \/ CloseSend \/ CloseWrite \/ Closed \/ Drop
              \/ DisconnectCompleted \/ DisconnectExpired
    <2>1. cb' \in {cb, [to |-> "disconnect", state |-> call.disconnect]} /\ UNCHANGED << life, status >>
      BY <1>10 DEF ReplaceCallback, Close, CloseSend, CloseWrite, Closed, Drop, DisconnectCompleted,
         DisconnectExpired
    <2>2. call'.connect = call.connect /\ call'.good = call.good /\ call'.disconnect = call.disconnect
      <3>1. call' = call \/ \E b : call' = [call EXCEPT !.sent = b]
        BY <1>10 DEF ReplaceCallback, Close, CloseSend, CloseWrite, Closed, Drop, DisconnectCompleted,
           DisconnectExpired
      <3> QED
        BY <3>1 DEF Control, CallType
    <2>3. pc["user"] \in Disconnecting
      BY <1>10 DEF ReplaceCallback, Close, CloseSend, CloseWrite, Closed, Drop, DisconnectCompleted,
         DisconnectExpired, Completed, Expired
    <2>4. \E to \in Disconnecting : Goto("user", to)
      BY <1>10 DEF ReplaceCallback, Close, CloseSend, CloseWrite, Closed, Drop, DisconnectCompleted,
         DisconnectExpired, Completed, Expired, Raise
    <2> QED
      BY <1>1, <2>1, <2>2, <2>3, <2>4 DEF CallInv
  <1>11. CASE Report
    <2>1. cb' \in {cb, Null} /\ UNCHANGED << life, call >>
      BY <1>11, TellData, ThreadNames DEF Report, Control
    <2>2. \A s \in States : status'[s] = status[s] \/ (cb.to \in {"connect", "disconnect"} /\ s = cb.state)
      BY <1>11, ReportIs DEF Report, CallBack, Control, DataType
    <2>3. pc["user"] = "report" /\ pc'["user"] \in {"dAwait", "return"}
      BY <1>1, <1>11 DEF Report
    <2>4. \A s \in States : life[s] = "unused" => status'[s] = "waiting"
      BY <2>2 DEF CallInv
    <2> QED
      BY <2>1, <2>3, <2>4 DEF CallInv, Null
  <1>12. CASE DisconnectAbandoned
    <2>1. UNCHANGED << life, cb, call >> /\ pc["user"] = "dExpired" /\ pc'["user"] \in {"notify", "return"}
      BY <1>1, <1>12 DEF DisconnectAbandoned, Raise
    <2>2. \A r \in States : r # call.disconnect => status'[r] = status[r]
      BY <1>12 DEF DisconnectAbandoned, Abandoned, Control, DataType
    <2>3. \A r \in States : life[r] = "unused" => status'[r] = "waiting"
      BY <2>1, <2>2 DEF CallInv
    <2> QED
      BY <2>1, <2>3 DEF CallInv
  <1>13. CASE DisconnectReturns
    <2>1. call.disconnect \in States /\ Delete(call.disconnect) /\ UNCHANGED << cb, status >>
      BY <1>13 DEF DisconnectReturns, Control, CallType
    <2>2. \A r \in States : life'[r] = "unused" <=> life[r] = "unused" /\ r # call.disconnect
      BY <1>5, <2>1
    <2>3. call'.connect = call.connect
      BY <1>13 DEF DisconnectReturns, Control, CallType
    <2>4. pc'["user"] = IF call.connect # NoState THEN "settle" ELSE "out"
      BY <1>1, <1>13 DEF DisconnectReturns, Caller
    <2>5. call.connect \in States \cup {NoState}
      BY DEF Control, CallType
    <2> QED
      BY <2>1, <2>2, <2>3, <2>4, <2>5 DEF CallInv, Control, CallType
  <1>14. CASE Clear \/ ClearTransport \/ Cleared
    <2>1. UNCHANGED << life, status, call >> /\ cb' \in {cb, Null}
      BY <1>14 DEF Clear, ClearTransport, Cleared
    <2>2. pc'["user"] \in {"clear", "clearing", "gone"}
      BY <1>1, <1>14 DEF Clear, ClearTransport, Cleared
    <2> QED
      BY <2>1, <2>2 DEF CallInv, Null
  <1> QED
    BY <1>2, <1>3, <1>4, <1>6, <1>7, <1>8, <1>9, <1>10, <1>11, <1>12, <1>13, <1>14
       DEF UserStep, ConnectStep, DisconnectStep

\* The transport thread reports what it does to a connection that is up.
LEMMA UpNet == Control /\ Line /\ NetStep /\ Up => Up'
  <1> SUFFICES ASSUME Control, Line, NetStep, Up PROVE Up'
    OBVIOUS
  <1>1. \A u \in Threads \ {"net"} : pc'[u] = pc[u] /\ ev'[u] = ev[u]
    BY OneThread DEF Control, Only
  <1>2. pc'["net"] = "notify" /\ ev'["net"] \in {"disconnect", "error"} => Up'
    BY ThreadNames DEF Up, Failing
  <1>3. pc["net"] # "notify"
    BY DEF NetStep, OpenStep, SocketEvent, Handle, Opening, OpenSend, OpenWrite, OpenBroken, OpenFailed
  <1>4. tcp' = tcp => Up'
    BY <1>1, <1>3, ThreadNames DEF Up, Failing
  <1>5. tcp' = "Connected" => Up'
    BY DEF Up
  <1>6. \A e, label : Raise("net", e, label) => pc'["net"] = "notify" /\ ev'["net"] = e
    BY GotoIs, ThreadNames DEF Raise, Control, ThreadInv, EventType
  <1>7. CASE Handle
    <2>1. \/ tcp' \in {"Connected", tcp}
          \/ \E e \in {"error", "disconnect"} : Raise("net", e, "idle")
      BY <1>7 DEF Handle
    <2> QED
      BY <1>2, <1>4, <1>5, <1>6, <2>1
  <1>8. CASE OpenWrite
    BY <1>2, <1>4, <1>6, <1>8 DEF OpenWrite
  <1>9. CASE SocketEvent \/ Opening \/ OpenSend \/ OpenBroken \/ OpenFailed
    BY <1>4, <1>9 DEF SocketEvent, Opening, OpenSend, OpenBroken, OpenFailed
  <1> QED
    BY <1>7, <1>8, <1>9 DEF NetStep, OpenStep

\* The transport thread reports what it breaks.
LEMMA LinkNet ==
    ASSUME Control, Line, NetStep, NEW state \in {"Connected", "DisconnectingSecure"}, Link(state)
    PROVE  Link(state)'
  <1>1. CASE Told
    <2>1. PICK t \in Threads : tell[t] = "lost"
      BY <1>1 DEF Told
    <2>2. t # "net"
      BY <2>1 DEF NetStep, OpenStep, SocketEvent, Handle, Opening, OpenSend, OpenWrite, OpenBroken,
         OpenFailed, Control, ThreadInv, EventType
    <2>3. tell'[t] = "lost"
      BY <2>1, <2>2, OneThread DEF Control, Only
    <2> QED
      BY <2>3 DEF Link, Told
  <1>2. CASE sc = state /\ Up
    <2>1. sc' = sc
      BY <1>2 DEF NetStep, OpenStep, SocketEvent, Handle, Opening, OpenSend, OpenWrite, OpenBroken,
         OpenFailed, secure
    <2> QED
      BY <1>2, <2>1, UpNet DEF Link
  <1> QED
    BY <1>1, <1>2 DEF Link

\* A sender that breaks the connection reports it.
LEMMA UpSender ==
    ASSUME Control, Line, NEW s \in Senders, Send(s) \/ SendStep(s), Up
    PROVE  Up'
  <1>1. /\ \A u \in Threads \ {s} : pc'[u] = pc[u] /\ ev'[u] = ev[u]
        /\ \/ tcp' = tcp
           \/ tcp' = "Disconnected" /\ pc'[s] = "notify" /\ ev'[s] = "disconnect"
        /\ pc[s] \notin EventLabels /\ s \in Threads
    BY SendIs, ThreadNames
  <1> QED
    BY <1>1 DEF Up, Failing, EventLabels

\* So does a sender.
LEMMA LinkSender ==
    ASSUME Control, Line, NEW s \in Senders, Send(s) \/ SendStep(s), NEW state, Link(state)
    PROVE  Link(state)'
  <1>1. sc' = sc /\ tell' = tell
    BY SendIs
  <1>2. Up => Up'
    BY UpSender
  <1> QED
    BY <1>1, <1>2 DEF Link, Told

\* The event that says that the connection is lost is passed on.
LEMMA LinkNotify ==
    ASSUME Control, Line, NEW t \in Threads, Notify(t),
           NEW state \in {"Connected", "DisconnectingSecure"}, Link(state)
    PROVE  Link(state)'
  <1>1. /\ ev[t] \in Events \ {"connect"}
        /\ sc' = Outcome(ev[t]).sc /\ pc[t] = "notify" /\ tell'[t] = Outcome(ev[t]).tell
        /\ sc \in ScStates /\ opn \in BOOLEAN
        /\ tcp' = tcp /\ ev' = ev /\ \A u \in Threads \ {t} : pc'[u] = pc[u]
        /\ t # "net" => ev[t] = "disconnect"
    <2>1. NotifyStep(t)
      BY DEF NotifyStep
    <2> QED
      BY <2>1, NotifyIs, NotifyWorks
  <1>2. ~Told
    BY NotifyIs, FreeTells DEF Told
  <1>3. sc = state /\ Up
    BY <1>2 DEF Link
  <1>4. CASE ev[t] \in {"disconnect", "error"}
    <2>1. tell'[t] = "lost"
      BY <1>1, <1>3, <1>4, OutcomeIs
    <2> QED
      BY <2>1 DEF Link, Told
  <1>5. CASE ev[t] \in {"opened", "rejected"}
    <2>1. sc' = sc
      BY <1>1, <1>3, <1>5, OutcomeIs
    <2>2. Up'
      BY <1>1, <1>3, <1>5 DEF Up, Failing
    <2> QED
      BY <1>3, <2>1, <2>2 DEF Link
  <1>6. CASE ev[t] = "refused"
    <2>1. t = "net" /\ Early
      BY <1>1, <1>6 DEF Early
    <2> QED
      BY <1>3, <2>1 DEF Line, NetInv, Down
  <1> QED
    BY <1>1, <1>4, <1>5, <1>6 DEF Events

\* A thread that tells anything else leaves the connection as it is.
LEMMA LinkTell ==
    ASSUME Control, Line, NEW t \in Threads, NotifyTell(t), tell[t] # "lost", NEW state, Link(state)
    PROVE  Link(state)' /\ (Up => Up')
  <1>1. NotifyStep(t)
    BY DEF NotifyStep
  <1>2. /\ pc[t] = "tell" /\ UNCHANGED << tcp, sc, ev >>
        /\ \A u \in Threads \ {t} : pc[u] # "tell" /\ tell[u] = "none" /\ pc'[u] = pc[u]
    BY <1>1, TellIs, NotifyWorks
  <1>3. ~Told
    BY <1>2 DEF Told
  <1>4. Up => Up'
    BY <1>2 DEF Up, Failing
  <1> QED
    BY <1>2, <1>3, <1>4 DEF Link

\* An event that the transport is up ends nothing.
LEMMA LinkConnect ==
    ASSUME Control, Line, NotifyConnect("net")
    PROVE  /\ Up => Up'
           /\ \A state : Link(state) => Link(state)'
  <1>1. NotifyStep("net")
    BY DEF NotifyStep
  <1>2. ev["net"] = "connect" /\ UNCHANGED << tcp, sc, ev, tell >>
        /\ \A u \in Threads \ {"net"} : pc'[u] = pc[u]
    BY <1>1, NotifyWorks, ThreadNames DEF NotifyConnect, secure
  <1>3. Up => Up'
    BY <1>2 DEF Up, Failing
  <1> QED
    BY <1>2, <1>3 DEF Link, Told

\* A step of the user's thread that leaves the connection alone.
LEMMA LinkUser ==
    ASSUME Control, UserStep, UNCHANGED << tcp, sc >>, pc["user"] # "notify"
    PROVE  /\ Up => Up'
           /\ \A state : Link(state) => Link(state)'
  <1>1. Only("user") /\ UNCHANGED tell
    BY OneThread DEF Control
  <1>2. Up => Up'
    BY <1>1 DEF Up, Failing, Only
  <1> QED
    BY <1>1, <1>2 DEF Link, Told

-----------------------------------------------------------------------------
(* A Connect that is waited for, and the connection it made.                *)

\* The steps of the user's thread in a call of Connect.
LEMMA UserDial == Control /\ Line /\ CallInv /\ DialInv /\ UserStep => DialInv'
  <1> SUFFICES ASSUME Control, Line, CallInv, DialInv, UserStep, Dialing' PROVE DialInv'
    BY DEF DialInv
  <1>1. \A to : Goto("user", to) => pc'["user"] = to
    BY GotoIs, ThreadNames DEF Control, ThreadInv
  <1>2. Start \/ ConnectCompleted \/ DisconnectReturns
    <2>1. pc'["user"] \in {"await", "settle"}
      BY DEF Dialing
    <2>2. CASE Connect \/ ConnectExpired \/ ConnectAbandoned \/ Settle \/ Disconnect \/ Clear
               \/ ClearTransport \/ Cleared \/ BeginConnect \/ BeginConnectJoined
      BY <1>1, <2>1, <2>2 DEF Connect, ConnectExpired, Expired, ConnectAbandoned, Settle, Disconnect,
         Clear, ClearTransport, Cleared, BeginConnect, BeginConnectJoined, FreshConnection
    <2>3. CASE ReplaceCallback \/ Close \/ CloseSend \/ CloseWrite \/ Closed \/ Drop \/ Report
               \/ DisconnectCompleted \/ DisconnectExpired \/ DisconnectAbandoned
      BY <1>1, <2>1, <2>3 DEF ReplaceCallback, Close, CloseSend, CloseWrite, Closed, Drop, Report,
         DisconnectCompleted, DisconnectExpired, Completed, Expired, DisconnectAbandoned, Raise
    <2> QED
      BY <2>2, <2>3 DEF UserStep, ConnectStep, DisconnectStep
  <1>3. CASE Start
    <2>1. sccb' /\ sc' = "ConnectingTransport" /\ UNCHANGED << opn, cb, status, call >> /\ pc["user"] = "start"
      BY <1>1, <1>3 DEF Start, Dialing
    <2>2. /\ cb = [to |-> "connect", state |-> call.connect] /\ ~opn
          /\ status[call.connect] = "waiting" /\ pc["net"] = "idle"
      BY <2>1 DEF CallInv, Line, NetInv
    <2>3. pc'["net"] = "idle" /\ UNCHANGED tell
      BY <2>2, OneThread, ThreadNames DEF Control, Only
    <2>4. \A t \in Threads : tell[t] = "none"
      BY <2>1, <2>2, ThreadNames DEF Line, SendInv, Control, ThreadInv, EventType
    <2> QED
      BY <2>1, <2>2, <2>3, <2>4 DEF DialInv
  <1>4. CASE ConnectCompleted
    <2>1. /\ UNCHANGED << tcp, sc, sccb, opn, cb, status, tell >> /\ pc["user"] = "await"
          /\ call'.connect = call.connect
      BY <1>4, OneThread DEF ConnectCompleted, Completed, secure, async, Control, CallType
    <2>2. pc'["net"] = pc["net"]
      BY OneThread, ThreadNames DEF Control, Only
    <2>3. (Up => Up') /\ (Link("Connected") => Link("Connected")')
      BY <2>1, LinkUser
    <2>4. Dialing
      BY <2>1 DEF Dialing
    <2> QED
      BY <2>1, <2>2, <2>3, <2>4 DEF DialInv
  <1>5. CASE DisconnectReturns
    <2>1. pc'["user"] = "settle" /\ pc["user"] = "return" /\ call.connect # NoState /\ call'.good = call.good
      BY <1>1, <1>5 DEF DisconnectReturns, Caller, Dialing, Control, CallType
    <2>2. ~call.good
      BY <2>1 DEF CallInv, Disconnecting
    <2> QED
      BY <2>1, <2>2 DEF Dialing
  <1> QED
    BY <1>2, <1>3, <1>4, <1>5

\* The transport thread opens the channel and hears that it is lost.
LEMMA NetDial == Control /\ Line /\ DialInv /\ NetStep => DialInv'
  <1> SUFFICES ASSUME Control, Line, DialInv, NetStep, Dialing' PROVE DialInv'
    BY DEF DialInv
  <1>1. pc'["user"] = pc["user"] /\ UNCHANGED call
    BY NetWorks, OtherData
  <1>2. Dialing
    BY <1>1 DEF Dialing
  <1>3. \A to : Goto("net", to) => pc'["net"] = to
    BY GotoIs, ThreadNames DEF Control, ThreadInv
  <1>4. UNCHANGED << sccb, cb, status >>
    BY DEF NetStep, OpenStep, SocketEvent, Handle, Opening, OpenSend, OpenWrite, OpenBroken,
         OpenFailed, secure, async
  <1>5. (Up => Up') /\ (Link("Connected") => Link("Connected")')
    BY UpNet, LinkNet
  <1>6. sc' = sc \/ Opening
    BY DEF NetStep, OpenStep, SocketEvent, Handle, Opening, OpenSend, OpenWrite, OpenBroken,
         OpenFailed, secure
  <1>7. \A t \in Threads : tell'[t] = "connected" => tell[t] = "connected"
    BY OneThread DEF NetStep, OpenStep, SocketEvent, Handle, Opening, OpenSend, OpenWrite, OpenBroken,
         OpenFailed, Control, ThreadInv, EventType
  <1>8. \A t \in Threads : tell'[t] = "connected" => sc' = "Connected" /\ Up'
    BY <1>2, <1>5, <1>6, <1>7 DEF DialInv, Opening
  <1>9. /\ sc' = "ConnectingTransport" => ~opn' /\ pc'["net"] # "openSend"
        /\ sc' = "ConnectingSecure" /\ opn' => Up'
        /\ sc' = "ConnectingSecure" /\ pc'["net"] \in {"openSend", "openWrite"} => tcp' = "Connected"
    <2>1. CASE Opening
      <3>1. opn' = opn /\ tcp' = tcp /\ pc["net"] = "opening"
            /\ \/ sc = "ConnectingTransport" /\ sc' = "ConnectingSecure"
                  /\ (pc'["net"] = "openFailed" \/ tcp = "Connected")
               \/ sc # "ConnectingTransport" /\ sc' = sc /\ pc'["net"] = "openFailed"
        BY <1>3, <2>1 DEF Opening
      <3> QED
        BY <1>2, <1>5, <3>1 DEF DialInv
    <2>2. CASE OpenSend
      <3>1. pc["net"] = "openSend" /\ pc'["net"] = "openWrite" /\ UNCHANGED << tcp, sc >>
        BY <1>3, <2>2 DEF OpenSend
      <3> QED
        BY <1>2, <1>5, <3>1 DEF DialInv, Up
    <2>3. CASE SocketEvent \/ Handle
      <3>1. UNCHANGED << sc, opn >> /\ pc'["net"] \in {"handle", "notify", "idle"}
        BY <1>3, <2>3 DEF SocketEvent, Handle, Raise, secure
      <3> QED
        BY <1>2, <1>5, <3>1 DEF DialInv
    <2>4. CASE OpenWrite
      <3>1. UNCHANGED << sc, opn >> /\ pc'["net"] \in {"idle", "openBroken", "notify"}
        BY <1>3, <2>4 DEF OpenWrite, Raise, secure
      <3> QED
        BY <1>2, <1>5, <3>1 DEF DialInv
    <2>5. CASE OpenBroken \/ OpenFailed
      <3>1. sc' = sc /\ (opn' => opn) /\ pc'["net"] \in {"openFailed", "idle", "tell"}
        BY <1>3, <2>5 DEF OpenBroken, OpenFailed, secure
      <3> QED
        BY <1>2, <1>5, <3>1 DEF DialInv
    <2> QED
      BY <2>1, <2>2, <2>3, <2>4, <2>5 DEF NetStep, OpenStep
  <1> QED
    BY <1>1, <1>2, <1>4, <1>5, <1>8, <1>9 DEF DialInv

\* An event changes the state and tells the call, in one region.
LEMMA NotifyDial ==
    ASSUME Control, Line, DialInv, NEW t \in Threads, NotifyStep(t)
    PROVE  DialInv'
  <1> SUFFICES ASSUME Dialing' PROVE DialInv'
    BY DEF DialInv
  <1>1. t # "user" /\ pc'["user"] = pc["user"] /\ UNCHANGED << call, tcp, sccb, ev >>
        /\ \A u \in Threads \ {t} : pc'[u] = pc[u] /\ tell'[u] = tell[u]
    BY NotifyWorks, ThreadNames DEF Dialing, EventLabels
  <1>2. Dialing
    BY <1>1 DEF Dialing
  <1>3. CASE NotifyConnect(t)
    <2>1. t = "net" /\ UNCHANGED << sc, opn, cb, status, tell >> /\ pc'["net"] \in {"opening", "idle", "openBroken"}
      <3>1. t = "net"
        BY <1>3, NotifyWorks
      <3>2. pc'["net"] \in {"opening", after["net"]}
        BY <1>3, <3>1, GotoIs DEF NotifyConnect, Control, ThreadInv
      <3> QED
        BY <1>3, <3>1, <3>2 DEF NotifyConnect, secure, async, Control, ThreadInv, EventType
    <2>2. (Up => Up') /\ (Link("Connected") => Link("Connected")')
      BY <1>3, <2>1, LinkConnect
    <2> QED
      BY <1>1, <1>2, <2>1, <2>2 DEF DialInv
  <1>4. CASE Notify(t)
    <2>1. /\ ev[t] \in Events \ {"connect"} /\ (t # "net" => ev[t] = "disconnect")
          /\ sc' = Outcome(ev[t]).sc /\ opn' = Outcome(ev[t]).opn /\ pc[t] = "notify"
          /\ tell'[t] = Outcome(ev[t]).tell /\ pc'[t] = "tell" /\ req = Free
          /\ sc \in ScStates /\ opn \in BOOLEAN /\ UNCHANGED << cb, status, owed >>
      BY <1>4, NotifyIs
    <2>2. \A u \in Threads \ {t} : tell'[u] = "none"
      BY <1>1, <2>1, FreeTells
    <2>3. tell'[t] = "connected" => sc' = "Connected" /\ Up'
      <3> SUFFICES ASSUME tell'[t] = "connected" PROVE sc' = "Connected" /\ Up'
        OBVIOUS
      <3>1. ev[t] = "opened" /\ sc = "ConnectingSecure" /\ opn /\ sc' = "Connected"
        BY <2>1, OutcomeIs
      <3>2. Up
        BY <1>2, <3>1 DEF DialInv
      <3>3. tcp = "Connected"
        BY <1>2, <2>1, <3>1, <3>2, ThreadNames DEF Up, Failing, Line, SendInv, Dialing
      <3> QED
        BY <1>1, <3>1, <3>3 DEF Up
    <2>4. /\ sc' = "ConnectingTransport" => sc = "ConnectingTransport"
          /\ sc' = "ConnectingSecure" => sc = "ConnectingSecure"
          /\ opn' => opn /\ sc' # "ConnectingSecure"
      BY <2>1, OutcomeIs
    <2>5. pc'["net"] \in {"openSend", "openWrite"} => pc["net"] = pc'["net"]
      BY <1>1, <2>1, ThreadNames
    <2>6. Link("Connected") => Link("Connected")'
      BY <1>4, LinkNotify
    <2> QED
      BY <1>1, <1>2, <2>1, <2>2, <2>3, <2>4, <2>5, <2>6 DEF DialInv
  <1>5. CASE NotifyTell(t)
    <2>1. /\ pc[t] = "tell" /\ tell'[t] = "none" /\ UNCHANGED << sc, opn >>
          /\ \A u \in Threads \ {t} : pc[u] # "tell" /\ tell[u] = "none"
      BY <1>5, TellIs
    <2>2. \A u \in Threads : tell'[u] = "none"
      BY <1>1, <2>1
    <2>3. pc'["net"] \in {"openSend", "openWrite"} => pc["net"] = pc'["net"]
      BY <1>1, NotifyWorks, ThreadNames
    <2>4. Up => Up'
      BY <1>1, <2>1 DEF Up, Failing
    <2>5. /\ cb' = [to |-> "connect", state |-> call.connect] \/ cb' = Null
          /\ status'[call.connect] = "good" =>
               cb' = [to |-> "connect", state |-> call.connect] /\ Link("Connected")'
      <3>1. cb = [to |-> "connect", state |-> call.connect] \/ cb = Null
        BY <1>2 DEF DialInv
      <3>2. CASE UNCHANGED << cb, status >> /\ tell[t] = "none"
        BY <1>2, <1>5, <3>2, LinkTell DEF DialInv
      <3>3. CASE ChannelNotify(tell[t])
        <4>1. cb' \in {cb, Null}
          BY <3>3, ReportIs DEF Control
        <4>2. CASE cb = Null
          <5>1. status' = status /\ cb' = Null
            BY <3>3, <4>1, <4>2, ReportIs DEF Control, Null
          <5>2. status[call.connect] # "good"
            BY <1>2, <4>2 DEF DialInv, Null
          <5> QED
            BY <5>1, <5>2
        <4>3. CASE cb = [to |-> "connect", state |-> call.connect]
          <5>1. call.connect \in States
            BY <4>3 DEF Control, CallType
          <5>2. status'[call.connect] = IF tell[t] = "connected" THEN "good" ELSE "bad"
            BY <3>3, <4>3, <5>1, ReportIs DEF Control, DataType
          <5>3. CASE tell[t] = "connected"
            <6>1. sc = "Connected" /\ Up
              BY <1>2, <5>3 DEF DialInv
            <6>2. cb' = cb
              BY <3>3, <5>3, ReportIs DEF Control
            <6> QED
              BY <2>1, <2>4, <4>3, <6>1, <6>2 DEF Link
          <5>4. CASE tell[t] # "connected"
            BY <3>1, <4>1, <5>2, <5>4
          <5> QED
            BY <5>3, <5>4
        <4> QED
          BY <3>1, <4>2, <4>3
      <3>4. sccb
        BY <1>2 DEF DialInv
      <3> QED
        BY <1>5, <3>2, <3>3, <3>4, TellIs
    <2> QED
      BY <1>1, <1>2, <2>1, <2>2, <2>3, <2>4, <2>5 DEF DialInv
  <1> QED
    BY <1>3, <1>4, <1>5 DEF NotifyStep

\* A sender breaks no connection that is being opened.
LEMMA SenderDial ==
    ASSUME Control, Line, DialInv, NEW s \in Senders, Send(s) \/ SendStep(s)
    PROVE  DialInv'
  <1> SUFFICES ASSUME Dialing' PROVE DialInv'
    BY DEF DialInv
  <1>1. /\ pc'["user"] = pc["user"] /\ pc'["net"] = pc["net"]
        /\ UNCHANGED << sc, sccb, opn, cb, status, call, tell >>
    BY SendIs
  <1>2. Dialing
    BY <1>1 DEF Dialing
  <1>3. (Up => Up') /\ (Link("Connected") => Link("Connected")')
    BY UpSender, LinkSender
  <1>4. tcp' = tcp \/ sc # "ConnectingSecure"
    <2>1. tcp' = tcp \/ pc[s] = "sendWrite"
      BY DEF Send, SendStep, SendBegin, SendEnd, SendWrite, SendDone
    <2> QED
      BY <2>1 DEF Line, SendInv
  <1> QED
    BY <1>1, <1>2, <1>3, <1>4 DEF DialInv

-----------------------------------------------------------------------------
(* A connection whose loss the application counts on hearing of.            *)

\* Connect leaves the callback of the application with a connection that is up.
LEMMA UserOwed == Control /\ Line /\ CallInv /\ DialInv /\ OwedInv /\ UserStep => OwedInv'
  <1> SUFFICES ASSUME Control, Line, CallInv, DialInv, OwedInv, UserStep, owed' PROVE OwedInv'
    BY DEF OwedInv
  <1>1. \A to : Goto("user", to) => pc'["user"] = to
    BY GotoIs, ThreadNames DEF Control, ThreadInv
  <1>2. Settle
    <2>1. CASE Connect \/ Disconnect \/ Clear
      BY <2>1 DEF Connect, Disconnect, Clear
    <2>2. CASE ClearTransport \/ Cleared \/ BeginConnect \/ BeginConnectJoined \/ Start
               \/ ConnectCompleted \/ ConnectExpired \/ ConnectAbandoned
      <3>1. owed' = owed /\ pc["user"] # "out"
        BY <2>2 DEF ClearTransport, Cleared, BeginConnect, BeginConnectJoined, Start, async,
           ConnectCompleted, ConnectExpired, Completed, Expired, ConnectAbandoned
      <3> QED
        BY <3>1 DEF OwedInv
    <2>3. CASE ReplaceCallback \/ Close \/ CloseSend \/ CloseWrite \/ Closed \/ Drop
               \/ DisconnectCompleted \/ DisconnectExpired \/ DisconnectAbandoned \/ DisconnectReturns
      <3>1. owed' = owed /\ pc["user"] # "out"
        BY <2>3 DEF ReplaceCallback, Close, CloseSend, CloseWrite, Closed, Drop, async,
           DisconnectCompleted, DisconnectExpired, Completed, Expired, DisconnectAbandoned,
           DisconnectReturns
      <3> QED
        BY <3>1 DEF OwedInv
    <2>4. CASE Report
      <3>1. pc["user"] = "report" /\ CallBack("user", "lost")
        BY <2>4 DEF Report
      <3>2. owed' => owed
        BY <3>1, ReportIs DEF CallBack, async, Control
      <3> QED
        BY <3>1, <3>2 DEF OwedInv
    <2> QED
      BY <2>1, <2>2, <2>3, <2>4 DEF UserStep, ConnectStep, DisconnectStep
  <1>3. pc["user"] = "settle" /\ pc'["user"] = "out" /\ UNCHANGED << tcp, sc, sccb >>
    BY <1>1, <1>2 DEF Settle, secure
  <1>4. call.good /\ status[call.connect] = "good" /\ cb' = [to |-> "app", state |-> NoState]
    BY <1>2, <1>3 DEF Settle, OwedInv
  <1>5. sccb /\ Link("Connected")
    BY <1>3, <1>4 DEF DialInv, Dialing
  <1>6. Link("Connected")'
    BY <1>3, <1>5, LinkUser
  <1> QED
    BY <1>3, <1>4, <1>5, <1>6 DEF OwedInv

\* Until it is told, the connection is up or some thread has its end to report.
LEMMA OtherOwed ==
    ASSUME Control, Line, OwedInv, OtherStep
    PROVE  OwedInv'
  <1> SUFFICES ASSUME owed' PROVE OwedInv'
    BY DEF OwedInv
  <1>1. CASE NetStep
    <2>1. pc'["user"] = pc["user"] /\ UNCHANGED << cb, sccb, owed >>
      BY <1>1, NetWorks DEF NetStep, OpenStep, SocketEvent, Handle, Opening, OpenSend, OpenWrite,
         OpenBroken, OpenFailed, secure, async
    <2> QED
      BY <1>1, <2>1, LinkNet DEF OwedInv
  <1>2. ASSUME NEW s \in Senders, Send(s) \/ SendStep(s) PROVE OwedInv'
    <2>1. pc'["user"] = pc["user"] /\ UNCHANGED << cb, sccb, owed >>
      BY <1>2, SendIs
    <2> QED
      BY <1>2, <2>1, LinkSender DEF OwedInv
  <1>3. ASSUME NEW t \in Threads, NotifyStep(t) PROVE OwedInv'
    <2>1. UNCHANGED sccb /\ pc[t] \in EventLabels /\ \A u \in Threads \ {t} : pc'[u] = pc[u]
      BY <1>3, NotifyWorks
    <2>2. CASE NotifyConnect(t)
      <3>1. t = "net" /\ UNCHANGED << cb, owed >>
        BY <1>3, <2>2, NotifyWorks DEF NotifyConnect, async
      <3> QED
        BY <2>1, <2>2, <3>1, LinkConnect, ThreadNames DEF OwedInv
    <2>3. CASE Notify(t)
      <3>1. UNCHANGED << cb, owed >>
        BY <2>3 DEF Notify, async
      <3>2. pc'["user"] = "out"
        BY <2>1, <3>1, ThreadNames DEF OwedInv, EventLabels
      <3> QED
        BY <2>1, <2>3, <3>1, <3>2, LinkNotify DEF OwedInv
    <2>4. CASE NotifyTell(t)
      <3>1. \/ tell[t] # "none" /\ sccb /\ ChannelNotify(tell[t])
            \/ (tell[t] = "none" \/ ~sccb) /\ UNCHANGED << cb, status, owed, life >>
        BY <2>4, TellIs
      <3>2. owed /\ sccb
        BY <3>1, ReportIs DEF Control, OwedInv
      <3>3. pc'["user"] = "out" /\ cb.to = "app"
        BY <2>1, <3>2, ThreadNames DEF OwedInv, EventLabels
      <3>4. tell[t] # "lost" /\ cb' = cb
        BY <3>1, <3>2, <3>3, ReportIs DEF Control
      <3> QED
        BY <2>1, <2>4, <3>2, <3>3, <3>4, LinkTell DEF OwedInv
    <2> QED
      BY <1>3, <2>2, <2>3, <2>4 DEF NotifyStep
  <1> QED
    BY <1>1, <1>2, <1>3 DEF OtherStep

-----------------------------------------------------------------------------
(* A Connect that has not been told how it went.                            *)

\* Only the start of a Connect makes it wait, on a fresh connection.
LEMMA UserWait == Control /\ Line /\ CallInv /\ UserStep => WaitInv'
  <1> SUFFICES ASSUME Control, Line, CallInv, UserStep, Waiting' PROVE WaitInv'
    BY DEF WaitInv
  <1>1. \A to : Goto("user", to) => pc'["user"] = to
    BY GotoIs, ThreadNames DEF Control, ThreadInv
  <1>2. Start
    <2>1. pc'["user"] = "await"
      BY DEF Waiting
    <2>2. CASE Connect \/ ConnectCompleted \/ ConnectExpired \/ ConnectAbandoned \/ Settle \/ Disconnect
               \/ Clear \/ ClearTransport \/ Cleared \/ BeginConnect \/ BeginConnectJoined
      BY <1>1, <2>1, <2>2 DEF Connect, ConnectCompleted, ConnectExpired, Completed, Expired,
         ConnectAbandoned, Settle, Disconnect, Clear, ClearTransport, Cleared, BeginConnect,
         BeginConnectJoined, FreshConnection
    <2>3. CASE ReplaceCallback \/ Close \/ CloseSend \/ CloseWrite \/ Closed \/ Drop \/ Report
               \/ DisconnectCompleted \/ DisconnectExpired \/ DisconnectAbandoned
      BY <1>1, <2>1, <2>3 DEF ReplaceCallback, Close, CloseSend, CloseWrite, Closed, Drop, Report,
         DisconnectCompleted, DisconnectExpired, Completed, Expired, DisconnectAbandoned, Raise
    <2>4. CASE DisconnectReturns
      BY <1>1, <2>1, <2>4 DEF DisconnectReturns, Caller
    <2> QED
      BY <2>2, <2>3, <2>4 DEF UserStep, ConnectStep, DisconnectStep
  <1>3. pc["user"] = "start" /\ pc'["user"] = "await" /\ UNCHANGED << cb, call >>
        /\ sc' = "ConnectingTransport" /\ tcp' = "Connecting"
    BY <1>1, <1>2 DEF Start, Waiting
  <1>4. /\ cb = [to |-> "connect", state |-> call.connect] /\ pc["net"] = "idle"
        /\ \A s \in Senders : pc[s] \in {"idle", "sendBegin"}
    BY <1>3 DEF CallInv, Line, NetInv, SendInv
  <1>5. pc'["net"] = "idle" /\ \A s \in Senders : pc'[s] = pc[s]
    BY <1>4, OneThread, ThreadNames DEF Control, Only
  <1> QED
    BY <1>3, <1>4, <1>5 DEF WaitInv, Early

\* The transport thread connects and opens the channel, or has a failure to report.
LEMMA NetWait == Control /\ Line /\ WaitInv /\ NetStep => WaitInv'
  <1> SUFFICES ASSUME Control, Line, WaitInv, NetStep, Waiting' PROVE WaitInv'
    BY DEF WaitInv
  <1>1. pc'["user"] = pc["user"] /\ (\A s \in Senders : pc'[s] = pc[s]) /\ UNCHANGED << call, cb, status >>
    BY NetWorks, OtherData DEF NetStep, OpenStep, SocketEvent, Handle, Opening, OpenSend, OpenWrite,
       OpenBroken, OpenFailed, async
  <1>2. Waiting
    BY <1>1 DEF Waiting
  <1>3. /\ cb' = [to |-> "connect", state |-> call'.connect]
        /\ \A s \in Senders : pc'[s] \in {"idle", "sendBegin"}
    BY <1>1, <1>2 DEF WaitInv
  <1>4. \A to : Goto("net", to) => pc'["net"] = to
    BY GotoIs, ThreadNames DEF Control, ThreadInv
  <1>5. /\ \A e : ev' = [ev EXCEPT !["net"] = e] => ev'["net"] = e
        /\ \A what : tell' = [tell EXCEPT !["net"] = what] => tell'["net"] = what
    BY ThreadNames DEF Control, ThreadInv, EventType
  <1>6. CASE SocketEvent
    <2>1. pc["net"] = "idle" /\ tcp # "Disconnected" /\ pc'["net"] = "handle" /\ UNCHANGED << tcp, sc >>
          /\ ev'["net"] \in Arrivals
      BY <1>4, <1>5, <1>6 DEF SocketEvent, secure
    <2>2. ev'["net"] \in {"acknowledge", "nack"} => tcp = "Connecting"
      BY <2>1 DEF Arrivals
    <2> QED
      BY <1>2, <1>3, <2>1, <2>2 DEF WaitInv, Early
  <1>7. CASE Handle
    <2>1. /\ pc["net"] = "handle" /\ sc' = sc
          /\ \/ pc'["net"] = "notify" /\ (ev'["net"] \in {"connect", "refused"} => ev["net"] \in {"acknowledge", "nack"})
             \/ tcp = "Disconnected"
      BY <1>4, <1>5, <1>7 DEF Handle, Raise, secure
    <2> QED
      BY <1>2, <1>3, <2>1 DEF WaitInv, Early
  <1>8. CASE Opening
    <2>1. pc["net"] = "opening" /\ pc'["net"] \in {"openSend", "openFailed"}
          /\ (sc = "ConnectingTransport" => sc' = "ConnectingSecure")
      BY <1>4, <1>8 DEF Opening
    <2> QED
      BY <1>2, <1>3, <2>1 DEF WaitInv, Early
  <1>9. CASE OpenSend
    <2>1. pc["net"] = "openSend" /\ pc'["net"] = "openWrite" /\ sc' = sc /\ opn'
      BY <1>4, <1>9 DEF OpenSend
    <2> QED
      BY <1>2, <1>3, <2>1 DEF WaitInv, Early
  <1>10. CASE OpenWrite
    <2>1. /\ pc["net"] = "openWrite" /\ UNCHANGED << sc, opn >>
          /\ \/ pc'["net"] = "idle" /\ tcp = "Connected" /\ tcp' = tcp
             \/ pc'["net"] = "notify" /\ ev'["net"] = "disconnect"
             \/ pc'["net"] = "openBroken"
      BY <1>4, <1>5, <1>10 DEF OpenWrite, Raise, secure
    <2> QED
      BY <1>2, <1>3, <2>1 DEF WaitInv, Early
  <1>11. CASE OpenBroken
    <2>1. pc["net"] = "openBroken" /\ (opn => pc'["net"] = "openFailed") /\ sc' = sc
      BY <1>4, <1>11 DEF OpenBroken
    <2> QED
      BY <1>2, <1>3, <2>1 DEF WaitInv, Early
  <1>12. CASE OpenFailed
    <2>1. pc'["net"] = "tell" /\ tell'["net"] = "failed"
      BY <1>4, <1>5, <1>12 DEF OpenFailed
    <2> QED
      BY <1>2, <1>3, <2>1 DEF WaitInv, Early
  <1> QED
    BY <1>6, <1>7, <1>8, <1>9, <1>10, <1>11, <1>12 DEF NetStep, OpenStep

\* Telling the channel completes the call.
LEMMA NotifyWait ==
    ASSUME Control, Line, DialInv, WaitInv, NEW t \in Threads, NotifyStep(t)
    PROVE  WaitInv'
  <1> SUFFICES ASSUME Waiting' PROVE WaitInv'
    BY DEF WaitInv
  <1>1. pc[t] \in EventLabels /\ UNCHANGED << call, ev, sccb >> /\ \A u \in Threads \ {t} : pc'[u] = pc[u]
    BY NotifyWorks
  <1>2. t # "user" /\ pc["user"] = "await"
    BY <1>1, NotifyWorks, ThreadNames DEF Waiting
  <1>3. \/ UNCHANGED << cb, status >> /\ ~NotifyTell(t)
        \/ NotifyTell(t)
    BY DEF NotifyStep, NotifyConnect, Notify, async
  <1>4. Waiting
    <2>1. CASE UNCHANGED status
      BY <1>1, <1>2, <2>1 DEF Waiting
    <2>2. CASE ChannelNotify(tell[t])
      <3>1. \A s \in States : status'[s] = "waiting" => status[s] = "waiting"
        BY <2>2, ReportIs DEF Control, DataType, CallType
      <3>2. call.connect \in States
        BY <1>2 DEF Control, CallType, Connecting
      <3> QED
        BY <1>1, <1>2, <3>1, <3>2 DEF Waiting
    <2> QED
      BY <1>3, <2>1, <2>2, TellIs
  <1>5. t = "net"
    BY <1>1, <1>2, <1>4, ThreadNames DEF WaitInv, EventLabels
  <1>6. \A s \in Senders : pc'[s] \in {"idle", "sendBegin"}
    BY <1>1, <1>4, <1>5, ThreadNames DEF WaitInv
  <1>7. CASE NotifyConnect(t)
    <2>1. pc["net"] = "notify" /\ ev["net"] = "connect" /\ UNCHANGED << cb, sc >>
      BY <1>5, <1>7 DEF NotifyConnect, async, secure
    <2>2. sc = "ConnectingTransport"
      BY <1>4, <2>1 DEF WaitInv, Early
    <2>3. pc'["net"] = "opening"
      BY <1>5, <1>7, <2>2, GotoIs, ThreadNames DEF NotifyConnect, Control, ThreadInv
    <2> QED
      BY <1>1, <1>4, <1>6, <2>1, <2>2, <2>3 DEF WaitInv, Early
  <1>8. CASE Notify(t)
    <2>1. /\ ev[t] \in Events \ {"connect"} /\ pc[t] = "notify" /\ pc'[t] = "tell"
          /\ tell'[t] = Outcome(ev[t]).tell /\ sc \in ScStates /\ opn \in BOOLEAN /\ UNCHANGED cb
      BY <1>8, NotifyIs
    <2>2. sc \in {"ConnectingTransport", "ConnectingSecure"}
      BY <1>4, <1>5, <2>1 DEF WaitInv
    <2>3. tell'["net"] # "none"
      BY <1>5, <2>1, <2>2, OutcomeIs
    <2> QED
      BY <1>1, <1>4, <1>5, <1>6, <2>1, <2>3 DEF WaitInv, Early
  <1>9. CASE NotifyTell(t)
    <2>1. pc["net"] = "tell"
      BY <1>5, <1>9, TellIs
    <2>2. tell["net"] # "none" /\ cb = [to |-> "connect", state |-> call.connect]
      BY <1>4, <2>1 DEF WaitInv
    <2>3. sccb
      BY <1>2 DEF DialInv, Dialing
    <2>4. ChannelNotify(tell["net"])
      BY <1>5, <1>9, <2>2, <2>3, TellIs
    <2>5. call.connect \in States
      BY <1>2 DEF Control, CallType, Connecting
    <2>6. status'[call.connect] # "waiting"
      BY <2>2, <2>4, <2>5, ReportIs DEF Control, DataType
    <2> QED
      BY <1>1, <2>6 DEF Waiting
  <1> QED
    BY <1>7, <1>8, <1>9 DEF NotifyStep

\* No request is sent before the channel is open.
LEMMA SenderWait ==
    ASSUME Control, Line, WaitInv, NEW s \in Senders, Send(s) \/ SendStep(s)
    PROVE  WaitInv'
  <1> SUFFICES ASSUME Waiting' PROVE WaitInv'
    BY DEF WaitInv
  <1>1. /\ \A u \in Threads \ {s} : pc'[u] = pc[u]
        /\ pc'["user"] = pc["user"] /\ pc'["net"] = pc["net"] /\ ev'["net"] = ev["net"]
        /\ UNCHANGED << sc, opn, cb, status, call, tell >>
    BY SendIs
  <1>2. Waiting
    BY <1>1 DEF Waiting
  <1>3. sc = "Connected" => req # Free
    <2>1. sc = "Connected" => pc["net"] = "tell"
      BY <1>2, ThreadNames DEF WaitInv, Control, ThreadInv, PcType, NetLabels
    <2>2. pc["net"] = "tell" => req = "net"
      BY ThreadNames DEF Control, ThreadInv, LockType
    <2> QED
      BY <2>1, <2>2, ThreadNames
  <1>4. pc[s] \in {"idle", "sendBegin"}
    BY <1>2 DEF WaitInv
  <1>5. pc'[s] \in {"idle", "sendBegin"} /\ tcp' = tcp
    BY <1>3, <1>4, SendIs
  <1>6. \A r \in Senders : pc'[r] \in {"idle", "sendBegin"}
    BY <1>1, <1>2, <1>5, ThreadNames DEF WaitInv
  <1> QED
    BY <1>1, <1>2, <1>5, <1>6 DEF WaitInv, Early

-----------------------------------------------------------------------------
(* A Disconnect that has not been told that the connection is gone.         *)

\* Disconnect takes the callback over, asks the server to close, and tells itself.
LEMMA UserHangUp == Control /\ Line /\ HangUpInv /\ UserStep => HangUpInv'
  <1> SUFFICES ASSUME Control, Line, HangUpInv, UserStep PROVE HangUpInv'
    OBVIOUS
  <1>1. \A to : Goto("user", to) => pc'["user"] = to
    BY GotoIs, ThreadNames DEF Control, ThreadInv
  <1>2. pc["user"] \in Disconnecting => call.disconnect \in States
    BY DEF Control, CallType
  <1>3. CASE Connect \/ ConnectStep \/ Disconnect \/ Clear \/ ClearTransport \/ Cleared
    <2>1. pc'["user"] \notin Closing \cup {"dExpired"}
      BY <1>1, <1>3 DEF Connect, ConnectStep, BeginConnect, BeginConnectJoined, FreshConnection, Start,
         ConnectCompleted, ConnectExpired, Completed, Expired, ConnectAbandoned, Settle, Disconnect,
         Clear, ClearTransport, Cleared, Closing
    <2> QED
      BY <2>1 DEF HangUpInv, Closing
  <1>4. CASE ReplaceCallback
    <2>1. /\ pc'["user"] \in {"close", "return"}
          /\ pc'["user"] = "close" => call' = call
          /\ cb' = [to |-> "disconnect", state |-> call.disconnect]
      BY <1>1, <1>4 DEF ReplaceCallback
    <2> QED
      BY <2>1 DEF HangUpInv, Closing
  <1>5. CASE Close
    <2>1. /\ pc["user"] = "close" /\ UNCHANGED << tcp, sccb, cb, status >> /\ call'.disconnect = call.disconnect
          /\ \/ pc'["user"] = "closeSend" /\ sc = "Connected" /\ tcp = "Connected"
                /\ sc' = "DisconnectingSecure"
             \/ pc'["user"] \in {"drop", "report"} /\ call'.sent = FALSE
             \/ pc'["user"] = "drop" /\ sc \in {"ConnectingTransport", "ConnectingSecure"}
      BY <1>1, <1>5 DEF Close, async, Control, CallType
    <2>2. sc \in {"Connected", "ConnectingTransport", "ConnectingSecure"} => sccb
      BY DEF Line, NetInv
    <2>3. pc'["user"] = "closeSend" => Link("DisconnectingSecure")'
      BY <2>1 DEF Link, Up
    <2> QED
      BY <2>1, <2>2, <2>3 DEF HangUpInv, Closing
  <1>6. CASE CloseSend
    <2>1. /\ pc["user"] = "closeSend" /\ UNCHANGED << tcp, sc, sccb, cb, status >>
          /\ call'.disconnect = call.disconnect
          /\ \/ pc'["user"] = "closeWrite"
             \/ pc'["user"] = "closed" /\ call'.sent = FALSE
      BY <1>1, <1>6 DEF CloseSend, async, secure, Control, CallType
    <2>2. Link("DisconnectingSecure") => Link("DisconnectingSecure")'
      BY <2>1, LinkUser
    <2> QED
      BY <2>1, <2>2 DEF HangUpInv, Closing
  <1>7. CASE CloseWrite
    <2>1. /\ pc["user"] = "closeWrite" /\ UNCHANGED << sc, sccb, cb, status >>
          /\ call'.disconnect = call.disconnect
          /\ \/ pc'["user"] \in {"closed", "dAwait"} /\ tcp' = tcp
             \/ pc'["user"] \in {"closed", "notify"} /\ call'.sent = FALSE
      BY <1>1, <1>7 DEF CloseWrite, Raise, async, secure, Control, CallType
    <2>2. tcp' = tcp /\ Link("DisconnectingSecure") => Link("DisconnectingSecure")'
      BY <2>1, LinkUser
    <2> QED
      BY <2>1, <2>2 DEF HangUpInv, Closing
  <1>8. CASE Closed \/ Drop
    <2>1. pc["user"] \in {"closed", "drop"} /\ pc'["user"] \in {"drop", "report"}
          /\ UNCHANGED << sccb, cb, status, call >>
      BY <1>1, <1>8 DEF Closed, Drop, async, secure
    <2> QED
      BY <2>1 DEF HangUpInv, Closing
  <1>9. CASE Report
    <2>1. /\ pc["user"] = "report" /\ CallBack("user", "lost") /\ UNCHANGED << sccb, call >>
          /\ pc'["user"] = IF call.sent THEN "dAwait" ELSE "return"
      BY <1>1, <1>9 DEF Report, secure
    <2>2. CASE call.sent
      <3>1. sccb
        BY <2>1, <2>2 DEF HangUpInv, Closing
      <3>2. ChannelNotify("lost")
        BY <2>1, <3>1 DEF CallBack
      <3>3. call.disconnect \in States
        BY <1>2, <2>1 DEF Disconnecting, Closing
      <3>4. \A s \in States : status'[s] = "waiting" => status[s] = "waiting"
        BY <3>2, ReportIs DEF Control, DataType, CallType
      <3>5. status'[call.disconnect] # "waiting"
        <4>1. CASE status[call.disconnect] = "waiting"
          <5>1. cb = [to |-> "disconnect", state |-> call.disconnect]
            BY <2>1, <4>1 DEF HangUpInv, Closing
          <5> QED
            BY <3>2, <3>3, <5>1, ReportIs DEF Control, DataType
        <4> QED
          BY <3>3, <3>4, <4>1
      <3> QED
        BY <2>1, <2>2, <3>1, <3>5 DEF HangUpInv, Closing
    <2>3. CASE ~call.sent
      BY <2>1, <2>3 DEF HangUpInv, Closing
    <2> QED
      BY <2>2, <2>3
  <1>10. CASE DisconnectCompleted \/ DisconnectReturns
    <2>1. pc'["user"] \in {"return", "out", "settle"}
      BY <1>1, <1>10 DEF DisconnectCompleted, Completed, DisconnectReturns, Caller
    <2> QED
      BY <2>1 DEF HangUpInv, Closing
  <1>11. CASE DisconnectExpired
    <2>1. pc["user"] = "dAwait" /\ pc'["user"] = "dExpired" /\ UNCHANGED << sccb, call >>
      BY <1>1, <1>11 DEF DisconnectExpired, Expired, secure
    <2> QED
      BY <2>1 DEF HangUpInv, Closing
  <1>12. CASE DisconnectAbandoned
    <2>1. /\ pc["user"] = "dExpired" /\ pc'["user"] \in {"notify", "return"} /\ UNCHANGED << sccb, call >>
          /\ status' = [status EXCEPT ![call.disconnect] = "abandoned"]
      BY <1>1, <1>12 DEF DisconnectAbandoned, Abandoned, Raise, secure
    <2>2. status'[call.disconnect] = "abandoned"
      BY <1>2, <2>1 DEF Disconnecting, Control, DataType
    <2> QED
      BY <2>1, <2>2 DEF HangUpInv, Closing
  <1> QED
    BY <1>3, <1>4, <1>5, <1>6, <1>7, <1>8, <1>9, <1>10, <1>11, <1>12 DEF UserStep, DisconnectStep

\* An event that ends the connection completes the Disconnect.
LEMMA NotifyHangUp ==
    ASSUME Control, Line, HangUpInv, NEW t \in Threads, NotifyStep(t)
    PROVE  HangUpInv'
  <1>1. /\ UNCHANGED << call, sccb, ev, after >> /\ pc[t] \in EventLabels
        /\ \A u \in Threads \ {t} : pc'[u] = pc[u]
    BY NotifyWorks
  <1>2. \/ t = "user" /\ pc["user"] \in EventLabels /\ pc'["user"] \in {"tell", "closed", "return"}
        \/ t # "user" /\ pc'["user"] = pc["user"]
    BY <1>1, NotifyWorks, ThreadNames
  <1>3. CASE NotifyConnect(t)
    <2>1. t = "net" /\ UNCHANGED << cb, status >>
      BY <1>3, NotifyWorks DEF NotifyConnect, async
    <2>2. Link("DisconnectingSecure") => Link("DisconnectingSecure")'
      BY <1>3, <2>1, LinkConnect
    <2> QED
      BY <1>1, <1>2, <2>1, <2>2, ThreadNames DEF HangUpInv
  <1>4. CASE Notify(t)
    <2>1. UNCHANGED << cb, status >>
      BY <1>4 DEF Notify, async
    <2>2. Link("DisconnectingSecure") => Link("DisconnectingSecure")'
      BY <1>4, LinkNotify
    <2> QED
      BY <1>1, <1>2, <2>1, <2>2 DEF HangUpInv, EventLabels, Closing
  <1>5. CASE NotifyTell(t)
    <2>1. pc'["user"] \in Closing => pc["user"] \in Closing
      BY <1>2 DEF EventLabels, Closing
    <2>2. CASE pc'["user"] \in Closing /\ status'[call.disconnect] = "waiting"
      <3>1. call.disconnect \in States
        BY <2>1, <2>2 DEF Control, CallType, Disconnecting
      <3>2. \/ tell[t] # "none" /\ sccb /\ ChannelNotify(tell[t])
            \/ (tell[t] = "none" \/ ~sccb) /\ UNCHANGED << cb, status >>
        BY <1>5, TellIs
      <3>3. status[call.disconnect] = "waiting"
        <4>1. CASE ChannelNotify(tell[t])
          BY <2>2, <3>1, <4>1, ReportIs DEF Control, DataType, CallType
        <4> QED
          BY <2>2, <3>2, <4>1
      <3>4. cb = [to |-> "disconnect", state |-> call.disconnect]
        BY <2>1, <2>2, <3>3 DEF HangUpInv
      <3>5. (sccb => tell[t] # "lost") /\ cb' = cb
        <4>1. CASE ChannelNotify(tell[t])
          BY <2>2, <3>1, <3>4, <4>1, ReportIs DEF Control, DataType
        <4> QED
          BY <3>2, <4>1
      <3>6. sccb /\ Link("DisconnectingSecure") => Link("DisconnectingSecure")'
        BY <1>5, <3>5, LinkTell
      <3> QED
        BY <1>1, <1>2, <3>3, <3>4, <3>5, <3>6 DEF HangUpInv, EventLabels, Closing
    <2>3. CASE ~(pc'["user"] \in Closing /\ status'[call.disconnect] = "waiting")
      BY <1>1, <1>2, <2>3 DEF HangUpInv, EventLabels, Closing
    <2> QED
      BY <2>2, <2>3
  <1> QED
    BY <1>3, <1>4, <1>5 DEF NotifyStep

\* Other threads leave a Disconnect alone until it is told.
LEMMA OtherHangUp ==
    ASSUME Control, Line, HangUpInv, OtherStep
    PROVE  HangUpInv'
  <1>1. CASE NetStep
    <2>1. pc'["user"] = pc["user"] /\ UNCHANGED << cb, sccb, status, call >>
      BY <1>1, NetWorks, OtherData DEF NetStep, OpenStep, SocketEvent, Handle, Opening, OpenSend,
         OpenWrite, OpenBroken, OpenFailed, secure, async
    <2>2. Link("DisconnectingSecure") => Link("DisconnectingSecure")'
      BY <1>1, LinkNet
    <2> QED
      BY <2>1, <2>2 DEF HangUpInv
  <1>2. ASSUME NEW s \in Senders, Send(s) \/ SendStep(s) PROVE HangUpInv'
    <2>1. pc'["user"] = pc["user"] /\ UNCHANGED << cb, sccb, status, call >>
      BY <1>2, SendIs
    <2>2. Link("DisconnectingSecure") => Link("DisconnectingSecure")'
      BY <1>2, LinkSender
    <2> QED
      BY <2>1, <2>2 DEF HangUpInv
  <1> QED
    BY <1>1, <1>2, NotifyHangUp DEF OtherStep

-----------------------------------------------------------------------------
(* The inductive invariant.                                                 *)

IInv == Control /\ Line /\ CallInv /\ DialInv /\ OwedInv /\ WaitInv /\ HangUpInv

\* The channel has been created and never connected.
LEMMA InitInvariant == Init => IInv
  <1> SUFFICES ASSUME Init PROVE IInv
    OBVIOUS
  <1>1. /\ pc = [t \in Threads |-> IF t = "user" THEN "out" ELSE "idle"]
        /\ pc["user"] = "out" /\ pc["net"] = "idle" /\ \A s \in Senders : pc[s] = "idle"
    BY ThreadNames DEF Init
  <1>2. ThreadInv
    <2>1. PcType
      BY <1>1, ThreadNames DEF PcType, UserLabels, NetLabels, SenderLabels
    <2>2. EventType
      BY <1>1, ThreadNames DEF Init, EventType
    <2>3. LockType
      BY <1>1, ThreadNames DEF Init, LockType, Free
    <2> QED
      BY <2>1, <2>2, <2>3 DEF ThreadInv
  <1>3. DataType
    BY NullType DEF Init, DataType, TcpStates, ScStates, Null
  <1>4. CallType
    BY <1>1 DEF Init, CallType, Null, Connecting, Disconnecting, Closing
  <1>5. Line
    BY <1>1 DEF Init, Line, NetInv, SendInv, Early
  <1>6. CallInv
    BY <1>1 DEF Init, CallInv, Null, Disconnecting, Closing
  <1>7. DialInv /\ OwedInv /\ WaitInv /\ HangUpInv
    BY <1>1 DEF Init, DialInv, Dialing, OwedInv, WaitInv, Waiting, HangUpInv, Closing
  <1> QED
    BY <1>2, <1>3, <1>4, <1>5, <1>6, <1>7 DEF IInv, Control

\* The parts of the invariant keep each other.
LEMMA StepInvariant == IInv /\ [Next]_vars => IInv'
  <1> SUFFICES ASSUME IInv, [Next]_vars PROVE IInv'
    OBVIOUS
  <1> USE DEF IInv
  <1>1. Control'
    BY ControlStep
  <1>2. CASE UserStep
    BY <1>1, <1>2, UserLine, UserCallInv, UserDial, UserOwed, UserWait, UserHangUp
  <1>3. CASE OtherStep
    <2>1. CallInv' /\ OwedInv' /\ HangUpInv'
      BY <1>3, OtherCallInv, OtherOwed, OtherHangUp
    <2>2. CASE NetStep
      BY <1>1, <2>1, <2>2, NetLine, NetDial, NetWait
    <2>3. CASE \E t \in Threads : NotifyStep(t)
      BY <1>1, <2>1, <2>3, NotifyLine, NotifyDial, NotifyWait
    <2>4. CASE \E s \in Senders : Send(s) \/ SendStep(s)
      BY <1>1, <2>1, <2>4, SenderLine, SenderDial, SenderWait
    <2> QED
      BY <1>3, <2>2, <2>3, <2>4 DEF OtherStep
  <1>4. CASE UNCHANGED vars
    <2>1. UNCHANGED << req, tcp, sc, sccb, opn, conn, cb, life, status, owed, pc, ev, tell, call >>
      BY <1>4 DEF vars, locks, secure, async, thread
    <2>2. Line' /\ CallInv'
      BY <2>1 DEF Line, NetInv, SendInv, Early, CallInv
    <2>3. DialInv' /\ OwedInv'
      BY <2>1 DEF DialInv, OwedInv, Dialing, Link, Told, Up, Failing
    <2>4. WaitInv'
      BY <2>1 DEF WaitInv, Waiting, Early
    <2>5. HangUpInv'
      BY <2>1 DEF HangUpInv, Link, Told, Up, Failing
    <2> QED
      BY <1>1, <2>2, <2>3, <2>4, <2>5
  <1>5. Next => UserStep \/ OtherStep
    BY DEF Next, UserStep, NetStep, OtherStep
  <1> QED
    BY <1>2, <1>3, <1>4, <1>5

\* The channel, its connection and the calls that wait are always in step with each
\* other: what every thread has reached says which mutexes it holds, which callback is
\* installed, and whether the end of the connection is still to be reported.
THEOREM ChannelInvariant == Spec => []IInv
  BY InitInvariant, StepInvariant, PTL DEF Spec

\* TypeOK: the variables have their types, and each mutex is held by a thread that is
\* in the region it guards (opcua_channel.c, opcua_secureconnection.c).
THEOREM TypeCorrect == Spec => []TypeOK
  <1>1. IInv => TypeOK
    BY DEF IInv, Control, ThreadInv, EventType, LockType, DataType, TypeOK
  <1> QED
    BY <1>1, ChannelInvariant, PTL

\* LossIsTold: a connection that is lost after Connect returned with Good, or while it
\* was about to, is never lost on the application.  Settle reads the status again with
\* the channel's Mutex taken, and DialInv says that a good status still stands for a
\* connection that is up or whose end a thread has to report.
THEOREM LossIsToldHolds == Spec => []LossIsTold
  <1>1. IInv => LossIsTold
    BY DEF IInv, OwedInv, Link, Told, Up, Failing, LossIsTold
  <1> QED
    BY <1>1, ChannelInvariant, PTL

\* WaitsForSomeone: whoever waits for a Connect or a Disconnect to be completed can
\* still be told: the callback is installed, and the connection is up, or a thread is
\* on its way with its end.
THEOREM WaitsForSomeoneHolds == Spec => []WaitsForSomeone
  <1>1. ASSUME IInv, Waiting
        PROVE  /\ cb = [to |-> "connect", state |-> call.connect] /\ sccb
               /\ \/ sc = "ConnectingTransport" /\ tcp = "Connecting"
                  \/ sc = "ConnectingSecure" /\ tcp = "Connected" /\ opn
                  \/ pc["net"] # "idle"
    BY <1>1 DEF IInv, WaitInv, DialInv, Dialing, Waiting
  <1>2. ASSUME IInv, pc["user"] = "dAwait", status[call.disconnect] = "waiting"
        PROVE  /\ cb = [to |-> "disconnect", state |-> call.disconnect] /\ sccb
               /\ \/ sc = "DisconnectingSecure" /\ tcp = "Connected"
                  \/ \E t \in Threads : pc[t] \in {"notify", "tell"}
    <2>1. cb = [to |-> "disconnect", state |-> call.disconnect] /\ sccb /\ Link("DisconnectingSecure")
      BY <1>2 DEF IInv, HangUpInv, Closing
    <2>2. Told => \E t \in Threads : pc[t] = "tell"
      BY <1>2 DEF IInv, Told, Control, ThreadInv, EventType
    <2> QED
      BY <2>1, <2>2 DEF Link, Up, Failing
  <1>3. IInv => WaitsForSomeone
    BY <1>1, <1>2 DEF WaitsForSomeone, Waiting
  <1> QED
    BY <1>3, ChannelInvariant, PTL

=============================================================================
