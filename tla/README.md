# Verification of the OPC UA ANSI C stack

TLA+ modules that model the stack under `src/Stack` from the socket to the
service call, the TLC configurations that check them on small instances, and
TLAPS proofs about them for every value of their constants.  All paths below are
relative to `src/Stack` unless they say otherwise.

| module | models | checked by | proved |
|---|---|---|---|
| `ThreadPool` | `core/opcua_threadpool.c` | `MCThreadPool` | `ThreadPool_proofs` |
| `TcpSecureChannel` | the tokens of `securechannel/opcua_tcpsecurechannel.c`, as operators on a record | through `SecureConversation` | |
| `SecureConversation` | one client's `opcua_secureconnection.c` against `opcua_securelistener.c` | its own configurations | `SecureConversation_proofs` |
| `ChannelManager` | `opcua_securelistener_channelmanager.c` and the paths of `opcua_securelistener.c` and `opcua_endpoint.c` that take and give back channels | `MCChannelManager` | `ChannelManager_proofs` |
| `SendQueue` | the send path of one server connection: `opcua_securestream.c` (flush), `opcua_tcplistener.c`, `opcua_securelistener.c` (refill, overflow, abort), the socket | `MCSendQueue` | `SendQueue_proofs` |
| `JobService`, `RemoteCalls`, `ChannelRegistry`, `ResponseStream` | no code: the abstract specifications that `ThreadPool`, `SecureConversation`, `ChannelManager` and `SendQueue` implement | through these | with these |
| `ClientChannel` | `proxystub/clientproxy/opcua_channel.c` and `opcua_asynccallstate.c` over `opcua_secureconnection.c` and `opcua_tcpconnection.c` | its own configurations | `ClientChannel_proofs` |
| `Timers` | `platforms/linux/opcua_p_timer.c` and its users | `MCTimers` | `Timers_proofs` |
| `NodeIds` | strings, NodeIds and ExpandedNodeIds of `stackcore/opcua_binaryencoder.c` and `opcua_binarydecoder.c` | through `BinaryEncoding` | `NodeIds_proofs` |
| `BinaryEncoding` | the rest of the two, and messages that travel | `MCBinaryEncoding` | |
| `UaTypes`, `UaMessages` | the 212 structures and 14 enumerations of `stackcore/opcua_types.c`, as data | through `BinaryEncoding` and `ServiceCalls` | |
| `ServiceCalls` | a service call: `opcua_clientapi.c`, the calls of `opcua_channel.c`, `opcua_serverapi.c`, `opcua_endpoint.c`, and the sample server | `MCServiceCalls` | `ServiceCalls_proofs` |
| `ClientServices`, `ServerServices` | what the 37 generated functions of either side move, as data | through `ServiceCalls` | |

To repeat a run: `tlc -config ThreadPool.cfg MCThreadPool.tla`; to check the
proofs: `tlapm ThreadPool_proofs.tla`, and so on for the modules with proofs.

## 1. The system

A stack of layers, each a callback interface to the one above it:

    application                      application
    clientproxy/opcua_channel.c      serverstub/opcua_endpoint.c
    opcua_secureconnection.c         opcua_securelistener.c + channel manager
            opcua_securestream.c, opcua_tcpsecurechannel.c (both sides)
    opcua_tcpconnection.c            opcua_tcplistener.c + connection manager
                     opcua_tcpstream.c, sockets

As it is built (`core/opcua_config.h`): multi-threaded, no dynamic expansion of
the thread pool, the secure listener without a thread pool of its own.  Three
kinds of threads meet in every layer: the **transport thread**, which serves the
sockets and calls the event handlers (`OnNotify`) upwards; the **timer thread**,
one per process (`platforms/linux/opcua_p_timer.c`, `Timer_Thread`), which runs
all timer callbacks one after the other; and **application threads**.

### Inventory

**Thread pool** (`core/opcua_threadpool.c`).  State: the counter `uNoOfJobs`
under `hMutex`, the list `JobList` under its own lock, the semaphores `hJobAdded`
and `hQueueOpenSemaphore`, `uFreeThreads`, `bStop`.  Operations: `AddJob`, which
blocks, fails or times out when the pool is full; `ThreadMain`; `Clear`.  Hard:
the count, the list and the posts are three things under three locks.  Correct
when the pool is never overfull, the count is exact, a job runs once, no worker
and no caller misses its wake-up, `Clear` ends.

**Secure channel object** (`opcua_tcpsecurechannel.c`).  State: `State`, current
and previous token, `bCurrentTokenActive`, the key sets, sequence numbers, the
write mutex, the queue of pending buffers, lifetime and overlap counters, the
reference count.  Correct when the keys of every message under way are at hand.

**Secure connection** (`opcua_secureconnection.c`).  State: `State`,
`bRenewActive`, the list of pending requests with its own lock, two timers.
Operations: `Connect`, `BeginSendRequest`/`EndSendRequest`, `Disconnect`,
`OnNotify`, the renew timer, the request watchdog.  Hard: the sender, a
response, the watchdog, a lost connection and `Disconnect` compete to report the
outcome of a request; renewals overlap with traffic and with timeouts.  Correct
when every caller hears of the outcome once and tokens stay in step.

**Secure listener and channel manager** (`opcua_securelistener.c`,
`..._channelmanager.c`).  State: the list of channels under a lock, per channel
its lock, its reference count, its connection handle and the counters of the
lifetime watchdog; the next channel id.  Hard: the watchdog removes channels that
handlers and streams find by connection or id at the same time; every error path
has to give back its reference; handles and ids are reused.

**Endpoint** (`opcua_endpoint.c`): begins, ends and cancels a response; holds a
channel through the response stream, perhaps long after the request.

**Secure stream** (`opcua_securestream.c`): cuts a message into chunks, secures
and writes them under the write mutex, queues them while a write is in progress.
Hard: two threads may write to one socket, past a queue that moves from the
channel to the connection.  Correct when the peer sees whole messages in order,
whoever writes them, and nothing waits without somebody on the way to it.

**TCP transport** (`transport/tcp`): connection handshake, connection manager,
send queue.  State: `pSendQueue` and the flags `bNoRcvUntilDone`,
`bRcvDataPending`, `bCloseWhenDone` of a connection.  Correct when a suspended
read is made up for and a connection closes only when its queue is empty.

**Client proxy** (`opcua_channel.c`, `opcua_asynccallstate.c`).  State: the
connection objects and the callback of a channel under its mutex, one call state
for each call that waits.  Operations: `Connect`, `Disconnect`, `Clear`,
`BeginSendEncodedRequest`, `OnNotify`.  Hard: a report may come before, after and
instead of a timeout; two mutexes are taken downwards by the application and
upwards by the transport thread.  Correct when every call returns, no loss goes
unreported and nothing that was freed is told.

**Timers** (`opcua_p_timer.c`).  State: a table of slots under one mutex, a
thread that runs callbacks with the mutex held.  Hard: handles are slots and are
reused, callbacks take the locks of those who create and delete timers, the tick
count wraps.  Correct when a handle names its owner's timer or none, no callback
outlives its owner, and no timer is late.

**Encoders and types** (`opcua_binaryencoder.c`, `opcua_binarydecoder.c`,
`opcua_types.c`).  Sequential, with one piece of memory, the size that an
ExtensionObject keeps of its body.  Hard: two programs of two files have to agree
on every field, limit and optional part, and a third may pass on what it does not
know.  Correct when a reader has what was meant or refuses it for a stated limit.

**Generated services** (`opcua_clientapi.c`, `opcua_serverapi.c`): 37 functions
on each side which copy parameters to and from messages, and a table.  Correct
when a value arrives at the parameter it was given for.

**Endpoint and sample server**: the endpoint's mutex is held across the call of a
service; a service may answer later, from a timer.  Hard: closing and deleting
the endpoint against requests and late answers.

**Everything else** (HTTPS transport, containers, sockets of other ports,
cryptography, policies, the runtime) is listed with the reason it is not modelled
in `PROJECT.json`, "components".

The hazards that follow from this are listed line by line in `PROJECT.json`,
"hazards", each with the properties that watch it or the reason none does.

## 2. The modules

### ThreadPool

One action is one region under `hMutex`, one region under the lock of `JobList`,
or one semaphore operation; nothing else is atomic.  `call[j]` is where the
thread that calls `AddJob` for job `j` is, `pc[w]` where a worker is in
`ThreadMain`, `hand[w]` its local `pThreadPoolJob`.

| code | actions |
|---|---|
| `AddJob` to its first unlock / the wait / its loop | `AddJobEnter` / `AddJobWake`, `AddJobTimeout` / `AddJobRetest` |
| the list, the post | `AddJobEnqueue`, `AddJobPost` |
| `ThreadMain`, in the order of the loop | `WorkerStart`, `WorkerIdle` or `WorkerResume`, `WorkerWake` or `WorkerReloop`, `WorkerFetch`, `WorkerRun` or `WorkerSkip`, `WorkerFinish`, `WorkerRefetch`, `WorkerExit` |
| `Clear` | `ClearStop`, `ClearDelete` |

Both allocations of `AddJob` may fail (`AllocMayFail`): the error path leaves the
count incremented, as the code does.  `uFreeThreads` wraps at `Modulus`, which
stands for 2^32.  The semaphores have no maximum, as on Linux.  `Clear` is called
when no `AddJob` is in progress; nothing in the pool could survive the opposite.

`JobService` is what the pool promises: a job is refused or accepted, and the
answer says which; the accepted ones wait in line, are taken in the order in which
they came, no more than there are slots and threads, and each is executed once
unless the service is closed before its turn.  A job is accepted when it enters
`JobList`, long before its call posts the semaphore; `Progress` reads how far it is
off `call`, `ran`, the list and the hands of the workers, `Stage` the service off
`clear`.  The counter, the two semaphores and the free threads disappear from it.

### TcpSecureChannel and SecureConversation

`TcpSecureChannel` has an operator for each function on a channel record:
`Open`, `Renew`, `Close`, `GetSecuritySet`, `GetCurrentSecuritySet` (`SendToken`).
A key set is named by the token it is derived for.

`SecureConversation` has both ends of one connection and the wire between them.
A renewal goes `RenewTimer` → `BeginOpenSecureChannel` → `RegisterOpen` →
`SendOpen` → `OnRequest` (server: `Renew`) → `SendOpenResponse` → `OnResponse`
(client: `Renew`).  A session call goes `BeginSendRequest` → `EndSendRequest`
(pending) → `SecureRequest` (the token is chosen, the write mutex taken) →
`WriteRequest` → `OnRequest` → `SecureResponse` → `WriteResponse` → `OnResponse`.
`cWrite` and `sWrite` hold the message between the choice of its token and the
write.  Around this run `WatchdogTimer` and `WatchdogTimerOpen` (requests time
out at any time), `Disconnect` in its six steps, the server's lifetime watchdog
(`ChannelTimeout`), errors that close the connection (`CloseOnError`), a network
that breaks (`LinkBreaks`) and loses what is on the wire, and both ends noticing
it (`OnDisconnect`, `OnChannelClosed`).  The TCP connection is a FIFO in each
direction; its definitions are marked external.

The timer thread and the transport thread run one thing at a time:
`TimerThreadFree`, `TransportThreadFree`.

`RemoteCalls` is the same seen by those who call services: `Begin`, `Wait`,
`Return`, `Refuse` and `TimeOut` of a call, `Execute`, `Reply` and `Deliver` of its
request, `Lose`, and `End` and `Cancel` of the connection.  It has no tokens and no
renewals, no order on the wire and no write mutex.  The mapping (`Calls`) takes the
session calls out of the two directions (`Ids`), how far a call is from `req`
(`Progress`), and the end of the connection from its state, once it was asked for
(`Ended`).
`SecureRequest`, `SecureResponse` and everything about tokens and renewals are
stutters.

### ChannelManager

Channels are memory: an element of `Channels` is free, listed, or in the
temporary list of the watchdog, and comes back after it is freed.  Connections
are handles that come back too.  `handler` is the event the transport thread is
in, with the channel it holds; `user[u]` is a response stream or a look-up of the
application.  The watchdog takes the list lock for a whole pass (`ListFree` is
false) and each channel's lock for one channel; every access to the list by
others waits for that, what they do with a channel they already hold does not.

| code | actions |
|---|---|
| `OpenChannel`, `ProcessRequest` by message type | `ChannelOpened`; `IssueRequest`, `RequestFor`, `UnknownRequest` |
| `ProcessOpenSecureChannelRequest` | `SetSecureChannelID`, `OpenOrRenew`, `RequestFails`, `RequestPartial` |
| session call, endpoint | `BeginSendResponse`, `BeginSendRefused`, `BeginInvoke`, `Finish` |
| CLO, error path of `ProcessRequest` | `CloseRequest`, `BadRequest`, `BadRequestCloses`, `Unlink` |
| `AbortRequestAndClose`, `ChannelClosed` | `EventOn(k, "abort")`, `EventOn(k, "lost")`, `Unlink`, `ExpireNow`, `LostWithoutChannel` |
| `TimerCallback` | `TimerStart`, `Check`, `TimerLeave`, `Notify`, `TimerEnd` |

`ChannelRegistry` is what the manager promises: a registry that knows who holds a
channel (`Find`, `Release`), takes away none that is held (`Remove`), gives each a
name no other has (`Identify`) and a connection no other has (`Open`, `Unlink`,
`Lose`), and announces the end of a channel once at most (`Announce`, `Leave`).  In
the mapping a holder is a user or the transport thread (`Hold`), and a channel that is
not in the list has no name and no link.  Reference counts, states, the counters of
the watchdog and the counter of the ids are how the code does it.

### SendQueue and ResponseStream

A chunk is `ChunkSize` units; the socket takes as many of them as it has room
for.  What it refuses waits in `pending` (`pPendingSendBuffers` of the channel),
then in `sendQ` (`pSendQueue` of the connection), until `wire` has it.  `mutex`
is the response whose stream holds the write mutex, `tt` what the transport
thread does with this connection, one step for each region under the mutex and
for each write.

| code | actions |
|---|---|
| `OpcUa_SecureStream_Flush` | `FlushQueued` (an asynchronous write is in progress), `FlushDirect`, `FlushFails` |
| `EndSendResponse` with a bad status, `AbortSendResponse` before the first chunk | `ResponseFails` |
| `OpcUa_P_SocketService_Write`, the select of the serve loop | `SocketWrite`, `WriteEvent` |
| `OpcUa_TcpListener_ReadEventHandler` and the callback | `ReadSuspended`, `ReadRequest`, `ReadBadRequest`, `ReadUnlinked`, `ReadFails`, `AfterCallback`, `Overflow` |
| `OpcUa_TcpListener_WriteEventHandler`, `RefillSendQueue` | `WriteQueue`, `WriteFails`, `QueueEmpty`, `Refill`, `ReadMissed` |
| the end of `ProcessRequest`, `CloseConnection`, `ProcessDisconnect` | `CloseConnection`, `Disconnect` |

Why a flush is one action: the thread that flushes holds the write mutex, and
what it does to the connection, `SocketWrite`, could only meet the transport
thread in `WriteQueue`, which does not take the mutex.  `OneWriter` says that it
never does: without an asynchronous write the queue is empty and the write event
is off.  The one overlap that remains, a transport thread that starts its write
handler between the partial write and the setting of `bAsyncWriteInProgress`,
finds its queue empty and waits for the mutex in `Refill`; the order of the
two is then the order of the mutex.

`ResponseStream` is what the peer may rely on: one stream, to which `Send` adds
the next chunk of one message, `Abandon` gives a message up, which stays without
its end and is followed by the next one, `Close` adds at most an ERR message and `Cut` loses an end.  The mapping takes the stream to be what
the socket took and what waits, in the order in which it will be sent
(`Promised`), `Abandoned` the responses that failed after their first chunk, and
`Phase` what may still be added.  So the two queues, the flags
and the second writer all disappear from it.

### ClientChannel

`chan` and `req` are the two mutexes that are held while something else is
awaited, `tcp` and `sc` the states of the two connections, `cb` the callback and
callback data of the channel, `life[s]` and `status[s]` an AsyncCallState.  An
action is a region that takes no further lock, so what a thread has read before
it waits for a mutex may be old when it gets it.  Threads are the application's
("user"), the transport thread ("net") and senders.

| code | actions |
|---|---|
| `OpcUa_Channel_Connect`, `BeginConnect` | `Connect`, `BeginConnect`, `BeginConnectJoined`, `Start`, `ConnectCompleted`, `ConnectExpired`, `ConnectAbandoned`, `Settle` |
| `OpcUa_Channel_Disconnect`, `OpcUa_SecureConnection_Disconnect` | `Disconnect`, `ReplaceCallback`, `Close`, `CloseSend`, `CloseWrite`, `Closed`, `Drop`, `Report`, `DisconnectCompleted`, `DisconnectExpired`, `DisconnectAbandoned`, `DisconnectReturns` |
| `OpcUa_Channel_Clear` | `Clear`, `ClearTransport`, `Cleared` |
| `OpcUa_SecureConnection_OnNotify`, `OpcUa_Channel_OnNotify` | `NotifyConnect`, `Notify`, `NotifyTell` with `Outcome` and `ChannelNotify` |
| `BeginOpenSecureChannel` and the write of its request | `Opening`, `OpenSend`, `OpenWrite`, `OpenBroken`, `OpenFailed` |
| socket events of `opcua_tcpconnection.c` | `SocketEvent`, `Handle` |
| `BeginSendEncodedRequest` | `Send`, `SendBegin`, `SendEnd`, `SendWrite`, `SendDone` |

Renewals, answers to session calls and the watchdogs are in `SecureConversation`.

### Timers

`slot` is the table, `th` the thread with its place in `ProcessTimers`, `now` the
tick count, which wraps.  The mutex of the table is held from `Begin` to
`EndPass` (`TableFree`).  A client is an object with a lock and a handle, like a
secure connection; a one-shot is an object whose callback deletes its timer.

| code | actions |
|---|---|
| `OpcUa_P_Timer_ProcessTimers` | `Begin`, `SkipSlot`, `NotDue`, `Fire`, `Fired`, `EndPass` |
| the callbacks | `Enter` and `Leave` (`RenewTimerCallback`), `OneShot` |
| `OpcUa_P_Timer_Thread`, the semaphore | `Wake` |
| `OpcUa_P_Timer_Create` and its callers | `Open`, `Create`, `CreateOneShot` |
| `OpcUa_P_Timer_Delete` and its callers | `Close`, `DeleteOpen`, `Delete` (bUsed is read without the mutex), `Kill` |
| `OpcUa_SecureConnection_Delete` | `Replace`; of a connection that nobody closed `DeleteOpen` (`:2573`) before it |
| `OpcUa_P_Timer_CleanupTimers` | `Stop`, `Cleanup` |

Time passes by `Tick`: the thread sleeps its time, or is busy for at most
`MaxBusy` ticks between two sleeps.

### NodeIds, BinaryEncoding, UaTypes and UaMessages

A message is a sequence of cells, a primitive value with the bytes it takes, so
that a reader who takes a field in another width than the writer is `OutOfStep`.
`NodeIds` has the forms whose choice depends on the value; it has no recursion and
is proved.  `BinaryEncoding` has strings, arrays, Variants, DataValues,
DiagnosticInfos, ExtensionObjects and structures, as three recursive operators
for the three function families: `Write`, `GetSizes` (`GetSize`) and
`ReadValue`.  The width of every primitive is written down twice, as the writer's
(`Width`) and as the reader's (`Taken`), and so are the optional fields (`Written`,
`Expected`) and the limits: the arrays of structures and enumerations, whose length
only the reader tests, are `WrittenUnlimited`.  An array of a built-in type, alone
or in a Variant, must besides have room in memory: `OpcUa_Decode_ArrayType` takes no
more items than `MaxMessageLength/sizeof(type)` (`opcua_binarydecoder.c:138`), a
limit the writer does not test and that 0 does not switch off (`FitsInMemory`).
The sizes are those of a build, the constant `SizeOf`.

Around them four actions: an application writes its message (`Send`), changes it
and writes it again (`Change`), and another program reads it (`Receive`) and passes
it on (`PassOn`), with or without knowing every type.

In `UaTypes` and `UaMessages` a structure is its three numbers and the types of
its fields.  In the source it is five functions, `Initialize`, `Clear`, `GetSize`,
`Encode` and `Decode`, each of which lists the fields; the lists of the five were
compared for all 212 structures and agree in fields and order, so that one list
stands for all of them.

### ServiceCalls, ClientServices and ServerServices

The 37 functions of `opcua_clientapi.c` are one function and the 37 stubs of
`opcua_serverapi.c` one stub, but for the fields they move; this was established
by comparing each with the template after its names were replaced.  The fields
are the rows of `ClientServices` and `ServerServices`, written down separately
from either file; that a function which waits and its `Begin` twin fill the same
fields was compared too.  What the tables of the two files have to agree on is
`TablesAgree`, a statement about constants that TLC evaluates at the start of every
run.  A value is named by its position among the caller's parameters.  A call in
`Asynchronous` leaves a callback behind, which gets the answer as it came, a fault
or an unexpected type included; the others wait and sort it out (`Outcome`).  `handler[c]` is how far the server is with a request, `objects[c]`
what it has in hand for it, `lock` the endpoint's mutex, `server` the progress of
`UaTestServer_Serve`, `blocked` the flag that keeps it from closing.

| code | actions |
|---|---|
| `OpcUa_ClientApi_X`, `OpcUa_Channel_InvokeService` | `Invoke`, `Complete`, `Fail` |
| `OpcUa_ClientApi_BeginX`, `OpcUa_Channel_BeginInvokeService`, `ResponseAvailable` | `Begin`, `CallBack`, `Fail` |
| `OpcUa_Endpoint_OnNotify`, `BeginProcessRequest` | `Receive`, `Fetch` (only with a pool), `Reject`, `BeginProcessRequest`, `Return` |
| `OpcUa_Server_BeginX` | `BeginInvoke`, `Respond` |
| `UaTestServer_BeginTestStack` and its timer | `BeginTestStack`, `DoAsyncResponse`, `Compose`, `Send`, `Cancel`, `Leave` |
| `EndSendResponse`, `CancelSendResponse` | operators of the same names |
| `UaTestServer_Serve`, `Endpoint_Close`, `Endpoint_Delete` | `Stop`, `WaitShutdown`, `Close`, `Closed`, `Delete`, `Deleted` |

An object is created, used and deleted by name (`Change`); using or deleting one
that is not there makes it "misused" for ever.  `spoilt` records where the code
itself gives something up, so that a property can say "nothing is left behind
except here".

### How the modules go together

`SecureConversation` is the network of `ServiceCalls` and the secure connection
that `ClientChannel` leaves out; `SendQueue` is the wire of
`SecureConversation` seen from a server's connection; `ChannelManager` decides
which channel a connection has; `BinaryEncoding` is what a message is.
`ThreadPool` and `Timers` are the threads: a pool hands requests to the endpoint,
and the timer thread, one at a time, runs the watchdogs of `SecureConversation`
and `ChannelManager` and the late answers of `ServiceCalls`.  The modules are
composed by `INSTANCE` where they share state (`TcpSecureChannel`, the tables of
types and services, `ResponseStream`); for the rest each states what it assumes
of its neighbours as a nondeterministic environment, which may do more than they
do.

## 3. What the runs show

| run | bounds | result |
|---|---|---|
| `thread_pool` | 2 workers, 3 `AddJob` calls for 2 slots, timeouts, failing allocations, `Clear` | four invariants, `QueuedJobRuns`, `ClearTerminates` hold, and `JobService` is implemented |
| `thread_pool_blocked_caller` | 4 calls, infinite timeout | `BlockedCallerIsWoken` is violated |
| `conversation` | 2 session calls, the issue and 2 renewals | four invariants and `RequestAnswered` hold |
| `conversation_renew_flag` | no network failure needed | `RenewFlagMeansWaiting` is violated |
| `channel_manager` | 2 channel objects, a connection handle that comes back, 1 application thread, 3 ids, 2 requests by id | four invariants and `LostChannelRemoved` hold, and `ChannelRegistry` is implemented |
| `send_queue` | 3 responses of up to 2 chunks of 2 units, room for 2 units, receiving stops at the first that waits | `TypeOK`, three invariants, `Delivered` and `RequestsRead` hold, and `ResponseStream` is implemented |
| `send_queue_abandoned` | 2 responses of up to 3 chunks, room for 3 units | `EndedBeforeNext` is violated |
| `client_channel` | 1 sender beside the application and the transport thread, 3 call states | `LossIsTold`, `WaitsForSomeone`, `CallsReturn` hold |
| `client_channel_freed` | the same | `FreedStateUnused` is violated |
| `timers` | 2 slots for one client and two one-shots, 2 users, 6 ticks | three invariants, `CallsReturn`, `CleanupEnds` hold |
| `codec` | about 200 messages around the limits, 3 of every structure, each with and without AlwaysCheckLengths, written twice, passed on twice | `Delivered`, `InStep`, `SizeExact` hold |
| `service_calls` | each of the 37 services alone, waiting or with a callback; two calls that contend, one of each kind, one or both answered from a timer; with and without a pool | `Transparent`, `ObjectsSound`, `AnsweredOnce`, `CallsFinish` hold |

The invariants `TypeOK` of the modules whose run does not list it hold in
`ThreadPool_Types.cfg`, `SecureConversation_Types.cfg`,
`ChannelManager_TwoConnections.cfg` (which also checks the invariants with two
handles at once), `ClientChannel_Types.cfg`, `Timers_Types.cfg` and
`ServiceCalls_Types.cfg`.  That `RemoteCalls` is implemented is checked with
`SecureConversation_Calls.cfg`, apart from the run `conversation`, which takes long
enough.  `BinaryEncoding_Unlimited.cfg` is the run `codec` with `MaxArrayLength` 0,
so that memory is the only limit of an array.

Why these bounds.  The pool's properties need a worker and a rival, a full pool
and one caller more than it has slots; the proofs then remove the bound.  A token
is forgotten after two renewals, so two renewals beside traffic are the shortest
run in which a message could be too old, and a third request that overlaps them
exists when a request times out.  A channel that is freed and comes back beside
one that stays needs two objects; an ambiguous id needs the counter to wrap:
`IdModulus = 4` leaves three ids for two channels.  `MaxUses` and `MaxOpen` bound
how many requests a run makes, in the guards of the actions that make them.  The
counters of the watchdog have one tick for "time has passed", and none for the
overlap, which is a quarter of a lifetime rounded down
(`ChannelManager_TwoConnections.cfg` gives it one, and the proofs any number).  The send path
needs a chunk that can be torn (two units, of a socket that has room for as many
and is read one by one), a message that can be torn (two chunks), a response
flushed while another waits, and one more that is read while receiving is
suspended, which `MaxPending` 0 makes happen: three responses.  The proofs remove
these bounds for everything but `Delivered` and `RequestsRead`.

Of the client's channel, a connection that is opened, given up and opened again
needs three call states (a `Connect` that times out makes a second one for its
`Disconnect`).  Timers: two slots for three owners make the table full and a slot
come back under another owner; `Wrap = 6` lets the tick count wrap between any
two events, with intervals 2, 1 and 3 on both sides of `MaxWait`; `MaxBusy` 1
makes a timer late, and a timer be created between a pass and the sleep.  The
codec's limits (strings of 4, bodies of 200 bytes, arrays of 3, nesting of 4, memory
for 168 bytes) are small so that values on, below and above them are few.  With the
sizes of a 64-bit build, three DataValues fill the memory and of ExtensionObjects
two fit, so that an array of three is refused for its memory alone; with the
configuration the stack comes with, any array that is short enough has room, but
both limits may be configured.  Every structure is also
sent whole, and the seven whose full value nests deeper than the limit are the
ones refused.  Two hops are a program that passes on what it could not look into,
read by one that can.  A service needs no second call to show that its parameters
arrive; the mutex needs two, and a third would only wait in the same place.

Deadlock is checked for the channel manager, which is a server and always has a
next step.  Everywhere else a run may be over: the pool is deleted, the
conversation or the channel closed, the responses sent, the timers cleaned up,
the messages read, the server deleted.  Those runs switch the check off and say in
a property what must not be left behind (`ClearTerminates`, `NobodyStranded`,
`RequestAnswered`, `Delivered`, `RequestsRead`, `CallsReturn`, `CleanupEnds`,
`CallsFinish`).

### Where code and comments disagree

1. **A blocked caller is not woken** (`opcua_threadpool.c:188`).  A worker posts
   `hQueueOpenSemaphore` only if the pool is full when it finishes.  Two callers
   block, two jobs finish; the second finds the count below the maximum and posts
   nothing; one caller sleeps on beside a free slot.
2. **A renewal that times out is the last one** (`opcua_secureconnection.c:465`).
   The watchdog deletes the request but nobody resets `bRenewActive`, and the
   renew timer does nothing while it is set.  The obvious repair, to reset the
   flag on the timeout, breaks `TokensInStep`: the server may have renewed
   already, a second renewal takes it two tokens ahead, and what the client sends
   under its old token cannot be read.  (`TimeoutClearsFlag` is this repair; it
   is one of the mutants.)
3. **An abandoned response is not aborted** (`opcua_securelistener.c:1123`).  A
   response that fails after its first chunk, in the encoder or because it gets
   too long, is ended with a bad status, for which neither listener sends
   anything; the abort chunk of `AbortSendResponse` needs a bad status and a
   flushed stream together, which the endpoint never passes.  The connection goes
   on, and the next response follows the unfinished one.  A client of this stack
   appends it and fails on the request id (`opcua_securestream.c:1946`).
4. **A freed call state is signalled** (`opcua_channel.c:1143`).  `Connect`
   deletes its call state when it returns with an error, and leaves it in the
   channel as callback data.  The connection, still open under a channel that was
   refused, ends later and reports to it.

Four more, which configurations of their own show:

- **Some expired channels go unannounced** (`..._channelmanager.c:127`;
  `ChannelManager_TimeoutAnnounced.cfg`).  A channel that expires while it is used
  is closed and deleted on a later pass, on a branch without the callback.
- **Queued chunks are not counted** (`opcua_tcpstream.c:297`;
  `SendQueue_ChunkLimit.cfg`).  The limit the peer sets on the chunks of a message
  is checked where a chunk is written to the socket; a chunk that queues behind an
  asynchronous write never comes there.  A client of this stack fails such a
  response (`opcua_tcpconnection.c:510`).
- **A second `Connect` may wait for itself** (`opcua_channel.c:979`;
  `ClientChannel_ShutdownLetsEventsIn.cfg`).  It deletes the old connection, which
  joins the transport thread, with the channel's mutex held, and that thread may
  be waiting for the mutex to report.  `Clear` gives the mutex back "to allow
  events to check the channel state"; `BeginConnect` does not.  `CallsReturn`
  therefore excepts threads that wait for each other (`LockCycle`).
- **Two orders of shutdown** (`opcua_endpoint.c:250`;
  `ServiceCalls_DeleteReturns.cfg`, `ServiceCalls_LateAnswer.cfg`).
  `Endpoint_Delete` joins the workers of a listener with a pool while it holds the
  mutex they want, where `Endpoint_Close` gives it back; the configuration as
  built has no such pool.  And the sample server deletes its endpoint without
  waiting for its timers, so a late answer may be given to an endpoint that is
  gone; the run `service_calls` lets the endpoint be deleted only when no request
  is left (`Hasty = FALSE`).

And one condition of use: a message that was encoded once remembers the sizes of
its bodies, so an application that changes a body must encode with
AlwaysCheckLengths (`opcua_builtintypes.h:373`).  With `ReuseSized = TRUE` the
model drops this condition, and `SizeExact` fails.

## 4. Fairness

- `ThreadPool`: an `AddJob` call that was entered goes on, a worker is scheduled
  and its job returns, a `Clear` that has begun goes on.  All weak: each is one
  thread that is not blocked for ever by the others.  Nobody has to call `AddJob`
  or `Clear`.  That a blocked caller goes on is not claimed (finding 1).
- `SecureConversation`: threads inside a call go on and the timer thread runs its
  watchdog, weakly.  Nothing is assumed of the server or the network:
  `RequestAnswered` is what the watchdog is for.
- `ChannelManager`: the watchdog is weakly fair.  A handler and a user are
  strongly fair: they may wait for the list lock, which the watchdog takes again
  and again, but holds for a pass out of every ten seconds.  That the application
  ends every response it began is its duty.
- `SendQueue`: a thread that flushes goes on, and so does the transport thread
  when it has an event or is inside a handler; both weakly.  A peer that is there
  reads what it was sent.  That the application ends the response it began is
  again its duty.  `Delivered` and `RequestsRead` say nothing of a peer that went
  away, and nothing makes it go.
- `ClientChannel`: threads inside a call or an event go on, waits time out, and a
  thread that waits for a mutex gets it in the end although others take it in
  between, which is strong fairness.  Nothing is assumed of the peer, of the
  application's next call, or of what is sent.
- `Timers`: the thread runs and time passes, weakly; a user that waits for the
  table gets it although the thread takes it again on every pass, strongly.
- `ServiceCalls`: a thread that has a request goes on and timers fire, weakly, and
  so does a server that was told to stop.  Clients may never call or never take
  their answer.

## 5. What is proved

`ThreadPool_proofs` proves for any finite sets of workers and jobs, any `MaxJobs`,
both kinds of full pool, with or without timeouts and failing allocations:
`TypeOK`, `CapacityRespected`, `JobCountExact`, `OnePlace`, `RunsAtMostOnce` and
`NoJobStranded`, all from one inductive invariant (`PoolInvariant`) and
`PoolAssumption`.

The six are not inductive, and not even the type of `uNoOfJobs` is: the counter
is a natural number because it is exact, so that a worker that counts down finds
at least its own job in it.  The invariant `PoolInv` has these parts:

- `WeakType`: the types, with `uNoOfJobs` an integer;
- `ListInv`: a job in the list is there once, `AddJob` has put it there, it has not
  run and is in nobody's hand;
- `HandInv`: jobs in hands are distinct, were added, and have run exactly when
  their worker is running them; a worker has a job in its hand, or none, where its
  place in the loop says so;
- `RanInv`: no job has run twice, and none that did not enter the list has run;
- `ClearInv`: how `clear` and `bStop` go together, and that nobody is inside
  `AddJob` after `Clear` began;
- `CountInv`: `JobCountExact` and `CapacityRespected` with
  `0 <= uNoOfJobs <= MaxJobs`, which outlives the deletion of the list;
- `NoJobStranded`, which is inductive with the rest: whoever takes a post away
  is awake itself afterwards.

Cardinalities of the sets of counted, lost and held jobs are handled by lemmas on
adding and removing an element, cited where an action moves a job.  There is a
lemma for each action, and the invariant is put together in one step lemma.

From the same invariant follows that the pool implements `JobService`
(`ServiceImplemented`): each step maps to a step of the service or to a stutter
(`StepIsService`).  That a job is accepted only when there is a slot for it is
`CountInv`, since the list and the hands together are what the counter counts; that
no more are in process than there are threads is that hands are distinct; that a job
runs once, `RanInv`; and that every call has returned when the service begins to
close, `ClearInv`.

`SendQueue_proofs` proves, for any responses, chunk
size, number of chunks, room in the socket and limit of waiting responses, from
`SendQueueAssumption`: `TypeOK`, `NothingStuck`, `OneWriter`, `ReadNotForgotten`,
`CountExact`, that `SendQueue` implements `ResponseStream`, and
`PeerSeesWholeMessages`.  The inductive invariant `Inv` (`SendInvariant`) has the
parts

- `ProgressInv`, `MutexInv`: the write mutex is held by the one response that has
  begun and not ended; that no message gets more chunks than it may rests on this;
- `AsyncInv`: what waits, waits behind `bAsyncWriteInProgress`, from which
  `OneWriter` follows;
- `ConnInv`: a connection that was given up owes the channel nothing, and the
  transport thread is in a callback of the channel only while it is linked;
- `ArmedInv`: whatever waits, the transport thread is on its way to it or the
  write event is armed, from which `NothingStuck` follows;
- `ReceiveInv`: receiving is suspended only for a queue that is being sent.

`CountExact` needs one more fact of its own, that a chunk has one end and a queue
that is cut keeps the ends of its second part.  The refinement takes each action
to `Send`, `Abandon`, `Close`, `Cut` or a stutter; its arithmetic is that joining
is associative and that what the socket takes and what it refuses of a queue is
the queue (`WriteSplits`).  The same module proves of the abstract
specification alone that its stream is whole (`WholeMessagesHold`): to know that
the next chunk fits, the last unit is all one needs (`EndInv`).
`PeerSeesWholeMessages` is then this fact about `Promised`, of which `wire` is the
beginning.

`NodeIds_proofs` proves of the codec what does not need recursion, for any limits:
a NodeId or ExpandedNodeId whose strings are within the reader's limits, written
at any place of any message, is read from there as it was meant, and the reader
stands at the first cell after it (`NodeIdRoundTrip`, `ExpandedNodeIdRoundTrip`); one
with a string beyond a limit is refused as `BadEncodingLimitsExceeded`, so that the
limits alone decide (`NodeIdRefused`, `ExpandedNodeIdRefused`); and the size that the
encoder computes is the number of bytes it writes (`NodeIdSizeExact`,
`ExpandedNodeIdSizeExact`).  Counting bytes is a recursion; the theorems are therefore
about any function that gives a cell its width and a concatenation the sum of its
parts (`Counts`), of which there is one.
The argument goes by the encoding the writer chose (`EncodingByte`): in each of
them the fields that are narrowed are within the narrow range, which is the
condition under which it was chosen.

`Timers_proofs` proves `HandleSound`, `OwnerAlive` and `FiresInTime` for any number
of slots, objects and users and any intervals that `TimerAssumption` allows: with
the time the thread may be busy they fit into the tick count.  `IInv` says of the
table that a slot without an owner is unused (`SlotInv`) and that only an open
object has a handle (`OpenInv`); of a user that it holds the lock of the object it
creates a timer for, which is new, and that it took the handle it deletes from
one that is closed or being deleted (`UserInv`); of a one-shot object that it has one timer
(`OneShotInv`); of the pass that the slot whose callback runs has an owner of the
right kind (`ThreadInv`), which holds because `Kill` and `Create` wait for the
mutex.  Lateness needs `TimeInv`: a pass is not longer than the thread is busy
(`BusyInv`), the wait it has computed so far is short enough for the timers it has
seen, counted from its beginning (`PassedInv`, `CalledInv`), and so a thread that
nobody woke sleeps no longer than its timers allow (`SleepInv`) and a timer is late
by what the thread was busy before and after it slept (`LateInv`).  The arithmetic
modulo `Wrap` is in `Remainder`, `Difference`, `TickAdds` and `TimeToDue`.

`ChannelManager_proofs` proves `RefCountExact`, `HeldIsListed`, `LinkSound`,
`IdUnique` and `ToldOnce` for any number of channels, connections and users, from
`ManagerAssumption`: the sets are finite and there are more ids than channels.
`IInv` adds to the five and to `TypeOK` who holds what: the transport thread has a
channel except between requests and after it gave a bad request's channel back
(`HandlerInv`), a user has one while it works (`UserInv`), and what the watchdog has
still to check is in the list (`WatchInv`). `LinkSound` needs `ServingInv`: the
channel a request is served on belongs to the connection it came on, and a
connection that is being closed has no channel left. `ToldOnce` needs `ToldInv`: a
channel whose close by the client was announced is closed, the transport thread
takes its connection away before it does anything else with it, and the watchdog
deletes a closed channel without announcing it again. `IdUnique` needs `NextIdFree`,
that the id to be given out next is not in use. That there is such an id, and that
the search from the last one meets it before it comes round, follows from the
cardinality of the ids in use (`IdLeft`) and from the smallest step that leads to a
free one (`Smallest`, `NextValidIdIsValid`). A reference count is kept by a lemma
for each way the set of holders changes (`OneTakes`, `OneGives`, `NobodyMoves`).

`RegistryImplemented` says that all of this together is a `ChannelRegistry`.  `IInv` is
strong enough: whoever finds a channel finds one of the list and has none yet
(`HandlerInv`, `UserInv`); what the watchdog takes out is held by nobody, because it
looks at a count that is exact; `SetSecureChannelID` gives a name that is free
(`NextIdFree`); a connection is closed only when its channel was unlinked or with the
unlinking (`ServingInv`); and an end that is announced was not announced before
(`ToldInv`).  The steps that only count down, note a state or pass a lock are
stutters (`Unseen`).

`SecureConversation_proofs` proves `TypeOK`, `TokensKnown`, `TokensInStep`,
`AnsweredOnce` and `NobodyStranded` for any set of calls and any number of renewals,
from `ConversationAssumption`. The calls need little: a request that is not
registered was not answered (`AnswerInv`), and requests are pending only while the
connection is open or `Disconnect` is on its way to cancel them (`PendingInv`). The
tokens need `TokenInv`. A channel keeps the token before its current one, the server
is at the client's token or one ahead, and ahead it sends under the old one until it
hears the new (`ChannelInv`). The request for a token that is on its way, and the
answer to it, are the only ones of their kind and for the last exchange begun
(`RequestInv`, `ResponseInv`), since the client begins one only when the one before
is over (`OpeningInv`); an exchange that was lost leaves `bRenewActive` set, so none
follows it. Then every message that was written or is being written is under one of
the two tokens its receiver will have when it gets there, which is where the order
of the stream comes in: behind an OpenSecureChannel message it is under the token
current when that was sent (`ToServerInv`, `ToClientInv`). `WritingInv`, that a
client's thread that writes has its own message in hand, is an invariant by itself.

That the conversation implements `RemoteCalls` (`CallsImplemented`) needs where a
request is: on its way, with the server's application or on its way back, and
nowhere twice (`FlowInv`, which takes that a message is in a queue once, `Distinct`,
and that the response being written is of a request the application has); who has
heard of it: from its registration on a call is accounted for (`HeardInv`), from
which also follows the second half of `AnsweredOnce`, that a call which returned was
answered or is pending; and that `Disconnect` cancels what is pending on a connection
that it has ended (`EndInv`).  Every step is then one of the service, or a stutter
(`StepIsCalls`), and what ends the connection either leaves the pending requests to a
later `Cancel` or is it.

`ClientChannel_proofs` proves `LossIsTold`, `WaitsForSomeone` and `TypeOK` for any
number of sending threads and any `MaxCalls`, from `ChannelAssumption`: the senders
are a finite set without the names of the other threads.  The two say that somebody
will speak, of an application that was told its connection is up and of a thread
that waits; both can be broken by three threads that meet between a decision and
its report.  `IInv` therefore has

- `Control`: where each thread may be, which event it then has in hand, and that a
  mutex is held exactly in the region it guards;
- `Line`: the state of the secure connection follows that of the transport, and a
  thread that sends is past the opening of the channel;
- `CallInv`: a call state is new when it is first waited on, and is not signalled
  before the callback of the channel names it;
- `DialInv`, `OwedInv`: a `Connect` that was told of success, and later the
  application, has a connection that is up, or one whose end some thread has in
  hand, or is just reporting to them (`Link`);
- `WaitInv`: a `Connect` that was told nothing yet is the one the callback names,
  and the transport is still to report, or does so now;
- `HangUpInv`: the same of a `Disconnect`.

The steps are taken by thread, and the handling of an event (`Notify`, `NotifyTell`),
which any thread may do, once for all of them.  That `Connect` reads the outcome again in the region of the channel's
mutex in which it installs the application's callback (`Settle`) is what `LossIsTold`
stands on; with the outcome read before (`SettleAtOnce`) it fails.

`ServiceCalls_proofs` proves `AnsweredOnce`, `TypeOK` and `Transparent`, and
`ObjectsSound` if `Hasty` is FALSE, for any finite set of calls, of either kind, any
services in the endpoint's table, answered at once or later, with and without a pool,
from `ServiceAssumption`.  The invariant of the first is `AnswersInv`, that the stage
of a request says whether it was answered or given up.  `ObjectsSound` needs what the
server has in hand at each stage (`ObjectsInv`) and, since the same call leaves
objects behind when the endpoint is not open, why it is: a stub holds the mutex that
`Endpoint_Close` wants (`LockInv`), a timer that found the shutdown flag down was
counted before the server looked at the count (`ShutdownInv`), and an endpoint that is
not deleted in haste is deleted when no request is left (`EndInv`).  With
`Hasty = TRUE` the theorem is false, as `ServiceCalls_LateAnswer.cfg` shows.
`Transparent` needs `DataInv`: the server keeps the table entry of the request's own
service while it works on it (`FoundInv`), so what the function is given and what is
answered are the fields of that service (`GivenInv`, `SentInv`), and the caller takes
them apart in the order in which they were put together (`TakenFilled`), which works
because no field is named twice.  That, and that the two sides list the same fields,
is `TablesAgree`: a fact about 37 rows on either side that the proof uses and TLC
evaluates, since it is about constants and needs no induction.

Only model-checked: the liveness properties, which are out of the prover's reach, and
`Delivered`, `InStep` and `SizeExact` of `BinaryEncoding`, which are about recursive
operators over nested values.

## 6. What is left out

- **Allocation failures** outside the pool, the stubs and the opening of a
  channel; they lead to the error paths that `RequestFails`, `WriteRequestFails`
  and `OpenFailed` stand for, but an allocation that fails half-way through
  `Renew` (`opcua_tcpsecurechannel.c:569`) is not modelled.
- **Sequence numbers** (`opcua_tcpsecurechannel.c:361`); and in
  `SecureConversation` and `ChannelManager` **chunks and the send queue**: there a
  message is one chunk and a connection closes at once.  `Disconnect` may find an
  asynchronous write in progress (`WriteClose`), without the write itself.
- In `SendQueue`: the HTTPS transport; the handshake and the Acknowledge message,
  which is queued with receiving suspended (`opcua_tcplistener.c:925`); a channel
  that is linked to a second connection after it lost its first; timeouts of a
  socket; and the twin of the queue on the client's side, which does not suspend
  receiving.
- **Events with a bad status** to the client and `UnexpectedError`, and what a bad
  status does to the state of the listener (`opcua_securelistener.c:898`);
  policies, certificates and keys, which are one nondeterministic refusal.
- **Thread pool expansion**, compiled out by the configuration; `uFreeThreads`,
  which it would read, is modelled with its drift (`opcua_threadpool.c:232` resets
  the status that should keep a worker from counting itself free twice), but no
  property is about it.
- **`ChannelManager_Clear`** and the order of `Close` calls at shutdown.
- The loop over channel ids is one step; the transport thread is the only one
  that assigns ids.
- In `ClientChannel`: renewals and timers, and what `InvokeService` does with the
  answer (`ServiceCalls` has the outcome, not the decoding).
- In `Timers`: `OpcUa_SecureConnection_Delete` frees the secure channel
  (`opcua_secureconnection.c:2601`) before it deletes the timers; what a callback
  finds of the channel meanwhile is not modelled.
- In `BinaryEncoding`: allocating and freeing what is read, and adding types to the table of
  types; the text of a string, of which only length and identity are kept.
- In `ServiceCalls`: the secure channel, which is a network that may lose a call;
  the table of services is complete from the start.
- **Not modelled at all**: the HTTPS transport, a second transport with the same
  callbacks; the win32 port; sockets beyond what `SendQueue` needs; OpenSSL and
  PKI wrappers, which have no state; the policy manager, which is filled once;
  containers and runtime support, which are sequential and tested.

## 7. State and plan

Done: the thread pool, the secure conversation, the channel manager and the send
queue, each with an abstract specification it is proved to implement; the client's
channel; timers; the binary encoding and the types; service calls and the shutdown
of an endpoint.

Left, in this order:

1. Hello/Acknowledge and the list of connections of the TCP listener, composed
   with `ChannelManager` for "a closed connection's channel is found or gone"; the
   client's side of the send queue.
2. `ChannelManager_Clear` and the listener's own state.
3. The order of the pending list's lock and the application's callbacks
   (`opcua_secureconnection.c:470`): the one listed hazard no property watches.
4. The sequence number check at reduced width.
5. The round trip of arrays and structures as the loops of the encoder and decoder,
   which are state machines with an inductive invariant where recursive operators
   are out of the prover's reach.
