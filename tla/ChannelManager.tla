--------------------------- MODULE ChannelManager ---------------------------
(***************************************************************************)
(* The secure channels of a server: who owns them, who uses them and when  *)
(* they go.  securechannel/opcua_securelistener_channelmanager.c with the  *)
(* paths of opcua_securelistener.c that take and give back a channel.      *)
(*                                                                         *)
(* Three kinds of threads meet here.  The transport thread runs OnNotify;  *)
(* `handler' is the event it is in.  The timer thread runs TimerCallback,  *)
(* which holds the lock of the list for a whole pass but each channel's    *)
(* own lock for one channel only.  Application threads hold a channel      *)
(* through a response stream, or while they look something up by its id.   *)
(* An action is one region under the list lock or under a channel lock.    *)
(*                                                                         *)
(* A channel is a piece of memory and a connection a pointer: both come    *)
(* back after they were freed.  Tokens, messages and the send queue are    *)
(* left out, so a connection is gone as soon as CloseConnection returns.   *)
(***************************************************************************)
EXTENDS Integers, FiniteSets

CONSTANTS
    Channels,       \* the memory of secure channel objects
    Connections,    \* the transport connection handles
    Users,          \* response streams and look-ups of the application
    None,           \* OpcUa_Null
    HelloTicks,     \* OPCUA_SECURELISTENER_CHANNELTIMEOUT in watchdog intervals
    LifeTicks,      \* the revised lifetime in watchdog intervals
    OverlapTicks,   \* a quarter of it
    IdModulus,      \* 2^w of the channel ids
    MaxUses         \* bound: requests and look-ups that name a channel id

ASSUME ManagerAssumption ==
    /\ IsFiniteSet(Channels) /\ IsFiniteSet(Users)
    /\ None \notin Channels \union Connections \union Users
    /\ HelloTicks \in Nat /\ LifeTicks \in Nat /\ OverlapTicks \in Nat
    /\ IdModulus \in Nat /\ IdModulus > Cardinality(Channels) + 1
    /\ MaxUses \in Nat

VARIABLES
    place,          \* place[c]: where the memory of c is
    chan,           \* chan[c]: the fields of channel c
    conns,          \* the connections of the transport listener
    handler,        \* the event the transport thread is in
    uNextSecureChannelId,
    timer, toCheck, \* progress of TimerCallback
    user,           \* user[u]: what u holds a channel for, and which
    told,           \* told[c]: how often the application was told c is closed
    timedOut,       \* the channels whose lifetime the watchdog saw expired
    uses            \* requests and look-ups so far, at most MaxUses

objects == <<place, chan>>
events  == <<told, timedOut>>
watch   == <<timer, toCheck>>
vars    == <<objects, conns, handler, uNextSecureChannelId, watch, user, events, uses>>

Ids == 1 .. IdModulus - 1           \* 0 is OPCUA_SECURECHANNEL_ID_INVALID

Places == {"free", "listed", "removed"}
Stages == {"idle", "issue", "identified", "renew", "call", "begun", "close", "release",
           "releaseBad", "bad", "failing", "unlink", "lost", "abort", "expire", "done"}

Idle  == [stage |-> "idle", conn |-> None, ch |-> None, isClose |-> FALSE]
Blank == [state |-> "Unknown", id |-> 0, conn |-> None, exp |-> 0, ov |-> 0, ref |-> 0]

\* OpcUa_SecureListener_Create and OpcUa_SecureListener_ChannelManager_Initialize.
Init ==
    /\ place = [c \in Channels |-> "free"]
    /\ chan = [c \in Channels |-> Blank]
    /\ conns = {} /\ handler = Idle
    /\ uNextSecureChannelId = 1
    /\ timer = "idle" /\ toCheck = {}
    /\ user = [u \in Users |-> [op |-> "idle", ch |-> None]]
    /\ told = [c \in Channels |-> 0] /\ timedOut = {}
    /\ uses = 0

Listed  == {c \in Channels : place[c] = "listed"}
ById(i) == {c \in Listed : chan[c].id = i}
ByConnection(k) == {c \in Listed : chan[c].conn = k}

\* The lock of the list is held for a whole pass of the timer.
ListFree == timer # "checking"

Acquire(c) == chan' = [chan EXCEPT ![c].ref = @ + 1]

\* ReleaseChannel refuses a count of zero.
Release(c) == chan' = [chan EXCEPT ![c].ref = IF @ = 0 THEN 0 ELSE @ - 1]

Goto(stage) == handler' = [handler EXCEPT !.stage = stage]

NextUse == uses < MaxUses /\ uses' = uses + 1

-----------------------------------------------------------------------------
(* The transport thread: OnNotify of the secure listener.                  *)

\* OpenChannel: the new channel waits HelloTicks for its first request.  A
\* failure frees it again and closes the connection: nothing is left of both.
ChannelOpened(k, c) ==
    /\ handler = Idle /\ ListFree
    /\ k \notin conns /\ place[c] = "free"
    /\ conns' = conns \union {k}
    /\ place' = [place EXCEPT ![c] = "listed"]
    /\ chan' = [chan EXCEPT ![c] = [Blank EXCEPT !.conn = k, !.ov = HelloTicks]]
    /\ told' = [told EXCEPT ![c] = 0] /\ timedOut' = timedOut \ {c}
    /\ UNCHANGED <<handler, uNextSecureChannelId, watch, user, uses>>

\* GetChannelByTransportConnection for an event on k that goes on as `stage'.
EventOn(k, stage) ==
    /\ handler = Idle /\ ListFree /\ k \in conns
    /\ \E c \in ByConnection(k) :
          /\ Acquire(c)
          /\ handler' = [stage |-> stage, conn |-> k, ch |-> c, isClose |-> FALSE]
    /\ UNCHANGED <<place, conns, uNextSecureChannelId, watch, user, events, uses>>

\* An OPN request without a channel id.
IssueRequest(k) ==
    \/ EventOn(k, IF \E c \in ByConnection(k) : chan[c].id # 0 THEN "releaseBad" ELSE "issue")
    \/ /\ handler = Idle /\ ListFree /\ k \in conns
       /\ ByConnection(k) = {}
       /\ handler' = [Idle EXCEPT !.stage = "bad", !.conn = k]
       /\ UNCHANGED <<objects, conns, uNextSecureChannelId, watch, user, events, uses>>

\* GetChannelBySecureChannelID for a request on k that names channel id i, and
\* the comparison of the channel's connection with k.
RequestFor(k, i, stage) ==
    /\ handler = Idle /\ ListFree /\ k \in conns /\ NextUse
    /\ \/ \E c \in ById(i) :
             /\ Acquire(c)
             /\ handler' = [stage |-> IF chan[c].conn = k THEN stage ELSE "releaseBad",
                            conn |-> k, ch |-> c, isClose |-> stage = "close"]
       \/ /\ ById(i) = {}
          /\ handler' = [stage |-> "bad", conn |-> k, ch |-> None, isClose |-> stage = "close"]
          /\ UNCHANGED chan
    /\ UNCHANGED <<place, conns, uNextSecureChannelId, watch, user, events>>

\* A message of a type nobody knows.  The error path treats it like a CLO.
UnknownRequest(k) ==
    /\ handler = Idle /\ ListFree /\ k \in conns
    /\ handler' = [Idle EXCEPT !.stage = "bad", !.conn = k, !.isClose = TRUE]
    /\ UNCHANGED <<objects, conns, uNextSecureChannelId, watch, user, events, uses>>

\* More chunks of the request are to come.  Of a CLO the result is a bad status
\* all the same, which is RequestFails.
RequestPartial ==
    /\ handler.stage \in {"issue", "renew", "call"}
    /\ Goto("release")
    /\ UNCHANGED <<objects, conns, uNextSecureChannelId, watch, user, events, uses>>

\* A policy, a certificate, a token, a decoder or an allocation says no.
RequestFails ==
    /\ handler.stage \in {"issue", "identified", "renew", "call", "close"}
    /\ Goto("releaseBad")
    /\ UNCHANGED <<objects, conns, uNextSecureChannelId, watch, user, events, uses>>

\* Mutated form of NextValidId: only the invalid id is skipped.
NextNonZeroId(i, listed) == IF (i + 1) % IdModulus = 0 THEN 1 ELSE (i + 1) % IdModulus

\* The loop around IsValidChannelID: from i + 1 on, modulo 2^w, the first id
\* that is neither 0 nor in use.
NextValidId(i, listed) ==
    LET after(d) == (i + d) % IdModulus
        valid(d) == after(d) # 0 /\ after(d) \notin {chan[c].id : c \in listed}
        first(d) == valid(d) /\ \A e \in 1 .. d - 1 : ~valid(e)
    IN  after(CHOOSE d \in 1 .. IdModulus - 1 : first(d))

SetSecureChannelID ==
    /\ handler.stage = "issue" /\ ListFree
    /\ chan' = [chan EXCEPT ![handler.ch].id = uNextSecureChannelId]
    /\ uNextSecureChannelId' = NextValidId(uNextSecureChannelId, Listed)
    /\ Goto("identified")
    /\ UNCHANGED <<place, conns, watch, user, events, uses>>

\* OpcUa_TcpSecureChannel_Open and _Renew, under the lock of the channel, and
\* the response, which may fail to be sent.
OpenOrRenew ==
    /\ handler.stage \in {"identified", "renew"}
    /\ chan' = [chan EXCEPT ![handler.ch].state = "Opened",
                            ![handler.ch].exp = LifeTicks, ![handler.ch].ov = OverlapTicks]
    /\ timedOut' = timedOut \ {handler.ch}
    /\ \E stage \in {"release", "releaseBad"} : Goto(stage)
    /\ UNCHANGED <<place, conns, uNextSecureChannelId, watch, user, told, uses>>

\* The endpoint's BeginSendResponse looks the channel up once more.
BeginSendResponse(u) ==
    /\ handler.stage = "call" /\ ListFree /\ user[u].op = "idle"
    /\ \E c \in ById(chan[handler.ch].id) :
          /\ Acquire(c)
          /\ user' = [user EXCEPT ![u] = [op |-> "begun", ch |-> c]]
    /\ Goto("begun")
    /\ UNCHANGED <<place, conns, uNextSecureChannelId, watch, events, uses>>

\* Mutated form of BeginSendRefused: the error path forgets the reference.
RefusedKeepsReference(u) ==
    /\ handler.stage = "begun" /\ ListFree
    /\ user[u].op = "begun" /\ chan[user[u].ch].state # "Opened"
    /\ user' = [user EXCEPT ![u] = [op |-> "idle", ch |-> None]]
    /\ Goto("releaseBad")
    /\ UNCHANGED <<objects, conns, uNextSecureChannelId, watch, events, uses>>

\* A channel that is not open gets no response stream.
BeginSendRefused(u) ==
    /\ handler.stage = "begun" /\ ListFree
    /\ user[u].op = "begun" /\ chan[user[u].ch].state # "Opened"
    /\ Release(user[u].ch)
    /\ user' = [user EXCEPT ![u] = [op |-> "idle", ch |-> None]]
    /\ Goto("releaseBad")
    /\ UNCHANGED <<place, conns, uNextSecureChannelId, watch, events, uses>>

\* The stream owns the reference now; the service handler's status decides
\* whether the request counts as processed.
BeginInvoke(u) ==
    /\ handler.stage = "begun"
    /\ user[u].op = "begun" /\ chan[user[u].ch].state = "Opened"
    /\ user' = [user EXCEPT ![u].op = "response"]
    /\ \E stage \in {"release", "releaseBad"} : Goto(stage)
    /\ UNCHANGED <<objects, conns, uNextSecureChannelId, watch, events, uses>>

\* A CLO request: the application is told, then the channel is closed.  The
\* status it ends with, OpcUa_BadDisconnect, also closes the connection.
CloseRequest ==
    /\ handler.stage = "close"
    /\ told' = [told EXCEPT ![handler.ch] = @ + 1]
    /\ chan' = [chan EXCEPT ![handler.ch].state = "Closed"]
    /\ Goto("releaseBad")
    /\ UNCHANGED <<place, conns, uNextSecureChannelId, watch, user, timedOut, uses>>

\* ReleaseChannel at the end of a handler.
HandlerRelease ==
    /\ handler.stage \in {"release", "releaseBad", "done"} /\ ListFree
    /\ Release(handler.ch)
    /\ handler' = IF handler.stage = "releaseBad"
                  THEN [handler EXCEPT !.stage = "bad", !.ch = None] ELSE Idle
    /\ conns' = IF handler.stage = "done" THEN conns \ {handler.conn} ELSE conns
    /\ UNCHANGED <<place, uNextSecureChannelId, watch, user, events, uses>>

\* The error path of ProcessRequest.  A connection whose channel is not in the
\* list any more stays open.
BadRequest ==
    /\ handler.stage = "bad" /\ ListFree
    /\ \/ \E c \in ByConnection(handler.conn) :
             /\ Acquire(c)
             /\ handler' = [handler EXCEPT !.ch = c,
                                           !.stage = IF handler.isClose THEN "unlink" ELSE "failing"]
       \/ /\ ByConnection(handler.conn) = {}
          /\ handler' = Idle
          /\ UNCHANGED chan
    /\ UNCHANGED <<place, conns, uNextSecureChannelId, watch, user, events, uses>>

BadRequestCloses ==
    /\ handler.stage = "failing"
    /\ chan' = [chan EXCEPT ![handler.ch].state = "Closed"]
    /\ Goto("unlink")
    /\ UNCHANGED <<place, conns, uNextSecureChannelId, watch, user, events, uses>>

\* Mutated form of Unlink: the connection is closed, the channel keeps its handle.
CloseWithoutUnlink ==
    /\ handler.stage \in {"unlink", "abort", "lost"} /\ ListFree
    /\ conns' = IF handler.stage = "lost" THEN conns ELSE conns \ {handler.conn}
    /\ Goto(IF handler.stage = "unlink" THEN "release" ELSE "expire")
    /\ UNCHANGED <<objects, uNextSecureChannelId, watch, user, events, uses>>

\* SetTransportConnection to OpcUa_Null and CloseConnection, under the write
\* mutex of the channel: in the error path, in AbortRequestAndClose, and, with
\* the connection freed by its listener after the event, for a lost connection.
Unlink ==
    /\ handler.stage \in {"unlink", "abort", "lost"} /\ ListFree
    /\ chan' = [chan EXCEPT ![handler.ch].conn = None]
    /\ conns' = IF handler.stage = "lost" THEN conns ELSE conns \ {handler.conn}
    /\ Goto(IF handler.stage = "unlink" THEN "release" ELSE "expire")
    /\ UNCHANGED <<place, uNextSecureChannelId, watch, user, events, uses>>

\* The watchdog counters of a channel without connection are set to zero.
ExpireNow ==
    /\ handler.stage = "expire"
    /\ chan' = [chan EXCEPT ![handler.ch].exp = 0, ![handler.ch].ov = 0]
    /\ Goto("done")
    /\ UNCHANGED <<place, conns, uNextSecureChannelId, watch, user, events, uses>>

\* The connection is lost and has no channel any more.
LostWithoutChannel(k) ==
    /\ handler = Idle /\ ListFree /\ k \in conns
    /\ ByConnection(k) = {}
    /\ conns' = conns \ {k}
    /\ UNCHANGED <<objects, handler, uNextSecureChannelId, watch, user, events, uses>>

-----------------------------------------------------------------------------
(* The timer thread: TimerCallback.                                        *)

TimerStart ==
    /\ timer = "idle"
    /\ timer' = "checking" /\ toCheck' = Listed
    /\ UNCHANGED <<objects, conns, handler, uNextSecureChannelId, user, events, uses>>

\* Mutated form of CheckClosed: the reference count is not looked at.
ClosedGoesAtOnce(c) ==
    /\ chan[c].state = "Closed"
    /\ place' = [place EXCEPT ![c] = "free"]
    /\ chan' = [chan EXCEPT ![c] = Blank]
    /\ timedOut' = timedOut

\* Mutated form of CheckClosed: a closed channel is announced like an expired one.
ClosedIsAnnounced(c) ==
    /\ chan[c].state = "Closed" /\ chan[c].ref = 0
    /\ place' = [place EXCEPT ![c] = "removed"]
    /\ UNCHANGED <<chan, timedOut>>

\* Mutated form of CheckClosed: a closed channel has to wait for its overlap.
ClosedIsKept(c) ==
    /\ chan[c].state = "Closed" /\ chan[c].ref = 0
    /\ UNCHANGED <<place, chan, timedOut>>

\* A closed channel nobody uses is deleted on the spot.
CheckClosed(c) ==
    /\ chan[c].state = "Closed" /\ chan[c].ref = 0
    /\ place' = [place EXCEPT ![c] = "free"]
    /\ chan' = [chan EXCEPT ![c] = Blank]
    /\ timedOut' = timedOut

Used(c)    == chan[c].ref # 0
Opened(c)  == chan[c].state = "Opened"
Expired(c) == (Opened(c) => chan[c].exp = 0) /\ chan[c].ov = 0

\* An open channel counts down its lifetime, then its overlap; any other one
\* its overlap only.
CountDown(c) ==
    /\ ~Expired(c)
    /\ chan' = IF Opened(c) /\ chan[c].exp # 0 THEN [chan EXCEPT ![c].exp = @ - 1]
                                              ELSE [chan EXCEPT ![c].ov = @ - 1]
    /\ UNCHANGED <<place, timedOut>>

\* Expired and not used: into the temporary list.
CheckExpired(c) ==
    /\ Expired(c) /\ ~Used(c)
    /\ place' = [place EXCEPT ![c] = "removed"]
    /\ timedOut' = timedOut \union {c}
    /\ UNCHANGED chan

\* Expired while somebody uses it: an open channel is closed, to be deleted later.
CheckExpiredInUse(c) ==
    /\ Expired(c) /\ Used(c)
    /\ IF Opened(c) THEN /\ chan' = [chan EXCEPT ![c].state = "Closed"]
                         /\ timedOut' = timedOut \union {c}
                    ELSE UNCHANGED <<chan, timedOut>>
    /\ UNCHANGED place

\* One channel of the pass, under its lock.
Check(c) ==
    /\ timer = "checking" /\ c \in toCheck
    /\ toCheck' = toCheck \ {c}
    /\ \/ CheckClosed(c)
       \/ /\ chan[c].state # "Closed" \/ Used(c)
          /\ CountDown(c) \/ CheckExpired(c) \/ CheckExpiredInUse(c)
    /\ UNCHANGED <<conns, handler, uNextSecureChannelId, timer, user, told, uses>>

TimerLeave ==
    /\ timer = "checking" /\ toCheck = {}
    /\ timer' = "notify"
    /\ UNCHANGED <<objects, conns, handler, uNextSecureChannelId, toCheck, user, events, uses>>

\* ChannelRemovedCallback for a channel of the temporary list, then its deletion.
Notify(c) ==
    /\ timer = "notify" /\ place[c] = "removed"
    /\ told' = [told EXCEPT ![c] = @ + 1]
    /\ place' = [place EXCEPT ![c] = "free"]
    /\ chan' = [chan EXCEPT ![c] = Blank]
    /\ UNCHANGED <<conns, handler, uNextSecureChannelId, watch, user, timedOut, uses>>

TimerEnd ==
    /\ timer = "notify" /\ \A c \in Channels : place[c] # "removed"
    /\ timer' = "idle"
    /\ UNCHANGED <<objects, conns, handler, uNextSecureChannelId, toCheck, user, events, uses>>

-----------------------------------------------------------------------------
(* Application threads.                                                    *)

\* GetPeerInfo and GetSecureChannelSecurityPolicyConfiguration find a channel
\* by its id; an unknown id changes nothing.
LookUp(u, i) ==
    /\ user[u].op = "idle" /\ ListFree /\ NextUse
    /\ \E c \in ById(i) :
          /\ Acquire(c)
          /\ user' = [user EXCEPT ![u] = [op |-> "lookup", ch |-> c]]
    /\ UNCHANGED <<place, conns, handler, uNextSecureChannelId, watch, events>>

\* The look-up ends, or the response stream is deleted: sent, not sendable,
\* cancelled or aborted.
Finish(u) ==
    /\ user[u].op \in {"lookup", "response"} /\ ListFree
    /\ Release(user[u].ch)
    /\ user' = [user EXCEPT ![u] = [op |-> "idle", ch |-> None]]
    /\ UNCHANGED <<place, conns, handler, uNextSecureChannelId, watch, events, uses>>

-----------------------------------------------------------------------------
Event(k) ==
    \/ \E c \in Channels : ChannelOpened(k, c)
    \/ IssueRequest(k) \/ UnknownRequest(k)
    \/ \E i \in Ids, stage \in {"renew", "call", "close"} : RequestFor(k, i, stage)
    \/ EventOn(k, "abort")         \* Request with a bad status
    \/ EventOn(k, "lost")          \* ChannelClosed
    \/ EventOn(k, "release")       \* RefillSendQueue, RequestAbort
    \/ LostWithoutChannel(k)

Handle ==
    \/ RequestPartial \/ RequestFails \/ SetSecureChannelID \/ OpenOrRenew
    \/ \E u \in Users : BeginSendResponse(u) \/ BeginSendRefused(u) \/ BeginInvoke(u)
    \/ CloseRequest \/ HandlerRelease \/ BadRequest \/ BadRequestCloses
    \/ Unlink \/ ExpireNow

Watchdog ==
    \/ TimerStart \/ TimerLeave \/ TimerEnd
    \/ \E c \in Channels : Check(c) \/ Notify(c)

Next ==
    \/ \E k \in Connections : Event(k)
    \/ Handle
    \/ Watchdog
    \/ \E u \in Users : Finish(u) \/ \E i \in Ids : LookUp(u, i)

Spec == Init /\ [][Next]_vars

(***************************************************************************)
(* The timer thread runs, and a pass ends long before the next interval    *)
(* does: whoever waits for the lock of the list again and again gets it.   *)
(* A handler runs to its end, and the application sends or cancels every   *)
(* response it began.                                                      *)
(***************************************************************************)
FairSpec == Spec /\ WF_vars(Watchdog) /\ SF_vars(Handle)
                 /\ \A u \in Users : SF_vars(Finish(u))

-----------------------------------------------------------------------------
(* The channels as those who use them see them.                            *)

Removed == {c \in Channels : place[c] = "removed"}

\* The id and the connection of each channel in the list.
Name == [c \in Channels |-> IF place[c] = "listed" THEN chan[c].id ELSE 0]
Link == [c \in Channels |-> IF place[c] = "listed" THEN chan[c].conn ELSE None]

\* The channel that the transport thread, here None, or a user holds.
Hold == [h \in Users \union {None} |-> IF h = None THEN handler.ch ELSE user[h].ch]

Registry == INSTANCE ChannelRegistry WITH
    Holders <- Users \union {None},
    registered <- Listed, leaving <- Removed, name <- Name, link <- Link, hold <- Hold

-----------------------------------------------------------------------------
TypeOK ==
    /\ place \in [Channels -> Places]
    /\ chan \in [Channels -> [state : {"Unknown", "Opened", "Closed"},
                             id : 0 .. IdModulus - 1,
                             conn : Connections \union {None},
                             exp : 0 .. LifeTicks,
                             ov : Nat,
                             ref : Nat]]
    /\ conns \subseteq Connections
    /\ handler \in [stage : Stages, conn : Connections \union {None},
                    ch : Channels \union {None}, isClose : BOOLEAN]
    /\ uNextSecureChannelId \in Ids
    /\ timer \in {"idle", "checking", "notify"} /\ toCheck \subseteq Channels
    /\ user \in [Users -> [op : {"idle", "begun", "response", "lookup"},
                           ch : Channels \union {None}]]
    /\ told \in [Channels -> Nat] /\ timedOut \subseteq Channels
    /\ uses \in 0 .. MaxUses

Holders(c) == {u \in Users : user[u].ch = c}
               \union (IF handler.ch = c THEN {None} ELSE {})

\* uRefCount is the number of handlers, streams and look-ups that hold the
\* channel: every path of every one of them gives back what it took, once.
RefCountExact == \A c \in Listed : chan[c].ref = Cardinality(Holders(c))

\* Nobody holds a channel that was taken out of the list or deleted: the
\* watchdog leaves a channel alone that it finds in use, whatever its state.
HeldIsListed == \A c \in Channels : Holders(c) # {} => place[c] = "listed"

\* A channel in the list belongs to a connection that exists or to none, and
\* no two channels to the same one: a connection handle that comes back is not
\* mistaken for the one that was freed.
LinkSound ==
    \A c \in Listed :
        chan[c].conn # None =>
            /\ chan[c].conn \in conns
            /\ \A d \in Listed : chan[d].conn = chan[c].conn => d = c

\* Channel ids in use are distinct although the counter they come from wraps
\* around; GetChannelBySecureChannelID takes the first that fits.
IdUnique == \A c, d \in Listed : chan[c].id # 0 /\ chan[c].id = chan[d].id => c = d

\* The application hears of the end of a channel once at most, whether the
\* client closed it, the watchdog found it expired, or both at a time.
ToldOnce == \A c \in Channels : told[c] <= 1

\* For those who use channels the list, its counts and its watchdog are a registry
\* that never takes away a channel somebody holds, never gives out a name or a
\* connection twice, and announces an end once at most.
ImplementsRegistry == Registry!Spec

\* A channel that lost its connection leaves the list in the end, for all that
\* still use it.
LostChannelRemoved ==
    \A c \in Channels :
        (place[c] = "listed" /\ chan[c].conn = None) ~> place[c] # "listed"

\* "Called if a channel gets removed due timeout": says the comment on
\* pfCallback.  A channel that expired while it was used is deleted without.
TimeoutAnnounced == \A c \in timedOut : place[c] = "free" => told[c] > 0

=============================================================================
