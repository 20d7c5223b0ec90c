---------------------------- MODULE ServiceCalls ----------------------------
(****************************************************************************)
(* Service calls from the client's function to the server's and back:       *)
(* proxystub/clientproxy/opcua_clientapi.c, proxystub/serverstub/           *)
(* opcua_serverapi.c, opcua_endpoint.c, opcua_servicetable.c.  The server   *)
(* is the sample server (test/simpleuatestserver/uatestserver.c) with some  *)
(* services answered by their stubs and some from a timer, as it does with  *)
(* UATESTSERVER_DORESPONSEASYNC.                                            *)
(*                                                                          *)
(* A value is named by its position among the caller's parameters.  Secure  *)
(* channel and transport are a network that may lose a call; what they do   *)
(* to a message is in SecureConversation, SendQueue and BinaryEncoding.     *)
(****************************************************************************)
EXTENDS Naturals, Sequences, FiniteSets

CONSTANTS Calls,        \* the calls, one of a service each
          Asynchronous, \* those of them whose caller does not wait for the answer
          NoCall,       \* the endpoint's mutex is free
          Offered,      \* the services the calls may be of, "none" for one not made
          Supported,    \* the services in the endpoint's table
          ServedLater,  \* those of them that are answered from a timer
          ThreadPools,  \* the builds: requests are processed by a pool of threads or not
          Hasty         \* the endpoint is deleted whoever still needs it, as the sample does

Client == INSTANCE ClientServices
Server == INSTANCE ServerServices
Ua     == INSTANCE UaMessages

Functions    == [s \in DOMAIN Client!Services |-> Client!Services[s]]
ServiceTypes == [s \in DOMAIN Server!SupportedServiceTypes |-> Server!SupportedServiceTypes[s]]
NumberOfFields == [m \in DOMAIN Ua!KnownMessages |-> Len(Ua!KnownMessages[m].fields)]

\* The fields name every field of the message, each of them once.
Names(fields, message) ==
  /\ fields \in Seq(STRING) /\ Len(fields) = NumberOfFields[message]
  /\ \A i, j \in DOMAIN fields : fields[i] = fields[j] => i = j

\* What the generated code of the two sides agrees on, for every service: a fact about the
\* tables above, which have no parameters.
ASSUME TablesAgree ==
  /\ \A s \in DOMAIN Functions :
       LET row == Functions[s] IN
       /\ Names(row.arguments, row.request) /\ Names(row.results, row.response)
       /\ row.response # "ServiceFault"
       /\ \A e \in DOMAIN ServiceTypes :
            ServiceTypes[e].request = row.request => ServiceTypes[e] = row
  /\ NumberOfFields["ServiceFault"] = 1

ASSUME ServiceAssumption ==
  /\ Asynchronous \subseteq Calls
  /\ Offered \subseteq [Calls -> DOMAIN Functions \cup {"none"}]
  /\ Supported \subseteq DOMAIN ServiceTypes
  /\ ServedLater \subseteq Supported
  /\ ThreadPools \subseteq BOOLEAN /\ Hasty \in BOOLEAN
  /\ IsFiniteSet(Calls) /\ NoCall \notin Calls /\ "Delete" \notin Calls

VARIABLES
  service,   \* the service each call is of
  pool,      \* the listener has a pool of threads
  caller,    \* where the caller of each call is
  request,   \* the requests, as sent
  outcome,   \* what each caller got: a status and a value for every result, or
             \* the answer that its callback was given
  handler,   \* how far the server has processed each request
  found,     \* the entry of the table of services its context keeps
  arguments, \* what the function that implements the service was given
  objects,   \* the server's objects for each request
  answers,   \* the responses that were sent for each request
  spoilt,    \* what the code gave up: the "answer", or "objects" it leaves behind
  lock,      \* who holds the endpoint's mutex
  server,    \* how far UaTestServer_Serve is
  blocked    \* UaTestServer_g_uiShutdownBlocked

callerVars == << service, pool, caller, request, outcome >>
serverVars == << handler, found, arguments, objects, answers, spoilt, lock >>
vars == << callerVars, serverVars, server, blocked >>

Objects == {"context", "stream", "request", "response", "fault", "endpoint"}
Unset   == 0          \* what Initialize leaves in a field and in a result
Header  == 100        \* the ResponseHeader of a fault, which is no caller's value

----------------------------------------------------------------------------
(* Messages.                                                                *)

Message(type, body) == [type |-> type, body |-> body]
NoMessage == Message("none", << >>)
Fault     == Message("ServiceFault", [ResponseHeader |-> Header])

\* What a call ends with: a status, the results, and the answer given to a callback.
Got(status, results, given) == [status |-> status, results |-> results, given |-> given]

\* Mutant: the last parameter is not copied.
FilledButLast(fields) ==
  [f \in {fields[k] : k \in 1 .. Len(fields) - 1} |-> CHOOSE k \in DOMAIN fields : fields[k] = f]

\* The values 1, 2, ... of the parameters, in the fields they are copied to.
Filled(fields) ==
  [f \in {fields[k] : k \in DOMAIN fields} |-> CHOOSE k \in DOMAIN fields : fields[k] = f]

\* What the parameters get from the fields of a message.
Taken(fields, body) ==
  [k \in DOMAIN fields |-> IF fields[k] \in DOMAIN body THEN body[fields[k]] ELSE Unset]

----------------------------------------------------------------------------
(* Objects: an object that is used or deleted when it is not there is       *)
(* misused from then on, and so is the endpoint when it is deleted.         *)

After(old, created, used, deleted) ==
  [o \in Objects |->
     IF o \in used \cup deleted /\ o \notin created /\ old[o] # "live" THEN "misused"
     ELSE IF o \in deleted THEN "freed"
     ELSE IF o \in created THEN "live" ELSE old[o]]

Working == {"waiting", "begun", "answering", "returning"}
AtWork == {c \in Calls : handler[c] \in Working}
Gone == IF server = "deleted" THEN {"endpoint"} ELSE {}
Open == server \in {"serving", "stopping", "stopped"}

Goes(c, to)  == handler' = [handler EXCEPT ![c] = to]
Spoils(c, what) == spoilt' = [spoilt EXCEPT ![c] = @ \cup what]
Change(c, created, used, deleted) ==
  objects' = [objects EXCEPT ![c] = After(@, created, used, deleted)]

----------------------------------------------------------------------------
Init ==
  /\ service   \in Offered
  /\ pool      \in ThreadPools
  /\ caller    = [c \in Calls |-> "idle"]
  /\ request   = [c \in Calls |-> NoMessage]
  /\ outcome   = [c \in Calls |-> Got("none", << >>, NoMessage)]
  /\ handler   = [c \in Calls |-> "none"]
  /\ found     = [c \in Calls |-> "none"]
  /\ arguments = [c \in Calls |-> << >>]
  /\ objects   = [c \in Calls |-> [o \in Objects |-> "none"]]
  /\ answers   = [c \in Calls |-> << >>]
  /\ spoilt    = [c \in Calls |-> {}]
  /\ lock      = NoCall
  /\ server    = "serving"
  /\ blocked   = 0

----------------------------------------------------------------------------
(* The client's functions.                                                  *)

\* The request of the service is filled and sent, for a caller that is then there.
Sends(c, there) ==
  /\ caller[c] = "idle" /\ service[c] # "none"
  /\ LET row == Functions[service[c]] IN
     request' = [request EXCEPT ![c] = Message(row.request, Filled(row.arguments))]
  /\ caller' = [caller EXCEPT ![c] = there]
  /\ UNCHANGED << service, pool, outcome, serverVars, server, blocked >>

\* OpcUa_ClientApi_X up to the wait in Channel_InvokeService, and OpcUa_ClientApi_BeginX,
\* which leaves a callback behind.
Invoke(c) == c \notin Asynchronous /\ Sends(c, "waiting")
Begin(c)  == c \in Asynchronous /\ Sends(c, "called")

\* A fault gives its header and is no error; every other answer must be the response.
Outcome(row, message) ==
  LET unset == [k \in DOMAIN row.results |-> Unset]
      Is(status, results) == Got(status, results, NoMessage) IN
  IF message.type = "ServiceFault"
  THEN Is("Good", [unset EXCEPT ![1] = message.body.ResponseHeader])
  ELSE IF message.type = row.response THEN Is("Good", Taken(row.results, message.body))
  ELSE Is("BadUnknownResponse", unset)

\* OpcUa_ClientApi_X after InvokeService returned with an answer.
Complete(c) ==
  /\ caller[c] = "waiting" /\ answers[c] # << >>
  /\ caller'  = [caller EXCEPT ![c] = "returned"]
  /\ outcome' = [outcome EXCEPT ![c] = Outcome(Functions[service[c]], Head(answers[c]))]
  /\ UNCHANGED << service, pool, request, serverVars, server, blocked >>

\* ResponseAvailable: the callback of the application gets the answer, of whatever type.
CallBack(c) ==
  /\ caller[c] = "called" /\ answers[c] # << >>
  /\ caller'  = [caller EXCEPT ![c] = "returned"]
  /\ outcome' = [outcome EXCEPT ![c] = Got("Good", << >>, Head(answers[c]))]
  /\ UNCHANGED << service, pool, request, serverVars, server, blocked >>

\* The call failed: not connected, out of time, or the connection was lost.
Fail(c) ==
  /\ caller[c] \in {"waiting", "called"}
  /\ caller'  = [caller EXCEPT ![c] = "returned"]
  /\ outcome' = [outcome EXCEPT ![c] = Got("Bad", << >>, NoMessage)]
  /\ UNCHANGED << service, pool, request, serverVars, server, blocked >>

CallerStep(c) == Invoke(c) \/ Begin(c) \/ Complete(c) \/ CallBack(c) \/ Fail(c)

----------------------------------------------------------------------------
(* The endpoint.                                                            *)

\* The transport thread has a request: it is for a worker of the pool, or processed here.
Receive(c) ==
  /\ caller[c] # "idle" /\ handler[c] = "none"
  /\ server \in {"serving", "stopping", "stopped", "closing"}
  /\ pool \/ AtWork = {}
  /\ Goes(c, IF pool THEN "queued" ELSE "waiting")
  /\ UNCHANGED << callerVars, found, arguments, objects, answers, spoilt, lock, server, blocked >>

\* A worker takes the job.  Workers of a pool that is being cleared take none.
Fetch(c) ==
  /\ handler[c] = "queued" /\ server \notin {"deleting", "deleted"}
  /\ Goes(c, "waiting")
  /\ UNCHANGED << callerVars, found, arguments, objects, answers, spoilt, lock, server, blocked >>

FindService(type) == {s \in Supported : ServiceTypes[s].request = type}

\* OnNotify, BeginProcessRequest: no answer is tried when the endpoint is not open, the
\* request cannot be read, no service takes it or there is no channel to answer on.
Reject(c) ==
  /\ handler[c] = "waiting" /\ lock = NoCall
  /\ \/ Change(c, {}, {}, {})                              \* not open, out of memory
     \/ Open /\ Change(c, {"context"}, {}, {"context"})    \* not decoded
     \/ Open /\ Change(c, {"context", "request"}, {}, {"context", "request"})
  /\ Goes(c, "done") /\ Spoils(c, {"answer"})
  /\ UNCHANGED << callerVars, found, arguments, answers, lock, server, blocked >>

\* OnNotify, BeginProcessRequest up to the call of the service's BeginInvoke.
BeginProcessRequest(c) ==
  /\ handler[c] = "waiting" /\ lock = NoCall /\ Open
  /\ \E s \in FindService(request[c].type) : found' = [found EXCEPT ![c] = s]
  /\ lock' = c
  /\ Change(c, {"context", "request", "stream"}, {}, {})
  /\ Goes(c, "begun")
  /\ UNCHANGED << callerVars, arguments, answers, spoilt, server, blocked >>

\* CancelSendResponse: stream and context are deleted and nothing is sent.
CancelSendResponse(c, others) ==
  /\ Change(c, {}, {"context"} \cup Gone, {"stream", "context"} \cup others)
  /\ Spoils(c, {"answer"})
  /\ UNCHANGED answers

\* EndSendResponse with a good status; its caller deletes the object afterwards.  An
\* endpoint that is not open keeps stream and context; what cannot be encoded or sent is
\* dropped with them.
EndSendResponse(c, message, object) ==
  IF Open
  THEN \/ /\ Change(c, {}, {"context", "stream", object}, {"context", "stream", object})
          /\ answers' = [answers EXCEPT ![c] = Append(@, message)]
          /\ UNCHANGED spoilt
       \/ CancelSendResponse(c, {object})
  ELSE /\ Change(c, {}, {"context"} \cup Gone, {object})
       /\ Spoils(c, {"answer"}) /\ UNCHANGED answers

----------------------------------------------------------------------------
(* The stub of a service, with the endpoint locked.                         *)

\* OpcUa_Server_BeginX up to the answer.  A function that fails is answered by a fault.
BeginInvoke(c) ==
  /\ handler[c] = "begun" /\ found[c] \notin ServedLater
  /\ \/ /\ CancelSendResponse(c, {})
        /\ Goes(c, "returning") /\ UNCHANGED arguments
     \/ /\ arguments' = [arguments EXCEPT ![c] =
             Taken(ServiceTypes[found[c]].arguments, request[c].body)]
        /\ \/ /\ Change(c, {"response"}, {"context", "request"}, {})
              /\ Goes(c, "answering") /\ UNCHANGED << answers, spoilt >>
           \/ /\ Change(c, {"fault"}, {"context", "request"}, {})
              /\ Goes(c, "answering") /\ UNCHANGED << answers, spoilt >>
           \/ /\ CancelSendResponse(c, {})                     \* no memory for the fault
              /\ Goes(c, "returning")
  /\ UNCHANGED << callerVars, found, lock, server, blocked >>

\* What is sent: the fault when there is one, which took the place of the response.
Result(c) == IF objects[c]["fault"] = "live" THEN "fault" ELSE "response"
Answer(c) ==
  LET row == ServiceTypes[found[c]] IN
  IF Result(c) = "fault" THEN Fault ELSE Message(row.response, Filled(row.results))

\* OpcUa_Server_BeginX from EndSendResponse to its end.
Respond(c) ==
  /\ handler[c] = "answering"
  /\ EndSendResponse(c, Answer(c), Result(c))
  /\ Goes(c, "returning")
  /\ UNCHANGED << callerVars, found, arguments, lock, server, blocked >>

\* The mutex stays locked.
ReturnLocked(c) ==
  /\ handler[c] = "returning"
  /\ Change(c, {}, {}, {"request"})
  /\ Goes(c, "done")
  /\ UNCHANGED << callerVars, found, arguments, answers, spoilt, lock, server, blocked >>

\* BeginProcessRequest after BeginInvoke: the request, which was not taken, is deleted.
Return(c) ==
  /\ handler[c] = "returning"
  /\ Change(c, {}, {}, {"request"})
  /\ lock' = NoCall
  /\ Goes(c, "done")
  /\ UNCHANGED << callerVars, found, arguments, answers, spoilt, server, blocked >>

----------------------------------------------------------------------------
(* A service that is answered later: UaTestServer_BeginTestStack and its    *)
(* timer.                                                                   *)

\* UaTestServer_SendFault up to EndSendResponse, when there is no response yet.
StartFault(c, fails, goesOn) ==
  \/ Change(c, {"fault"}, {"context", "request"}, {}) /\ Goes(c, goesOn)
     /\ UNCHANGED << answers, spoilt >>
  \/ CancelSendResponse(c, {}) /\ Goes(c, fails)               \* no memory for the fault
  \/ UNCHANGED << objects, answers >> /\ Goes(c, fails)        \* none for the response
     /\ Spoils(c, {"answer", "objects"})

\* The request is taken and the timer started, or the fault is sent at once.
BeginTestStack(c) ==
  /\ handler[c] = "begun" /\ found[c] \in ServedLater
  /\ \/ /\ arguments' = [arguments EXCEPT ![c] =
             Taken(ServiceTypes[found[c]].arguments, request[c].body)]
        /\ lock' = NoCall
        /\ \/ Goes(c, "later") /\ UNCHANGED spoilt
           \/ Goes(c, "done") /\ Spoils(c, {"answer", "objects"})  \* Timer_Create failed
        /\ UNCHANGED << objects, answers >>
     \/ /\ StartFault(c, "returning", "answering")
        /\ UNCHANGED << arguments, lock >>
  /\ UNCHANGED << callerVars, found, server, blocked >>

Stopping == server # "serving"

\* The timer fires, and does not tell that it is inside its callback.
DoAsyncResponseUnseen(c) ==
  /\ handler[c] = "later"
  /\ Goes(c, IF Stopping THEN "cancelling" ELSE "composing")
  /\ UNCHANGED << callerVars, found, arguments, objects, answers, spoilt, lock, server, blocked >>

\* The timer fires: UaTestServer_IsAndBlockShutdown.
DoAsyncResponse(c) ==
  /\ handler[c] = "later"
  /\ blocked' = blocked + 1
  /\ Goes(c, IF Stopping THEN "cancelling" ELSE "composing")
  /\ UNCHANGED << callerVars, found, arguments, objects, answers, spoilt, lock, server >>

Cancel(c) ==
  /\ handler[c] = "cancelling"
  /\ CancelSendResponse(c, {})
  /\ Goes(c, "leaving")
  /\ UNCHANGED << callerVars, found, arguments, lock, server, blocked >>

Compose(c) ==
  /\ handler[c] = "composing"
  /\ \/ /\ Change(c, {"response"}, {"context"}, {})
        /\ Goes(c, "sending") /\ UNCHANGED << answers, spoilt >>
     \/ StartFault(c, "leaving", "sending")
  /\ UNCHANGED << callerVars, found, arguments, lock, server, blocked >>

\* EndSendResponse takes no lock of the endpoint.
Send(c) ==
  /\ handler[c] = "sending"
  /\ EndSendResponse(c, Answer(c), Result(c))
  /\ Goes(c, "leaving")
  /\ UNCHANGED << callerVars, found, arguments, lock, server, blocked >>

\* The timer is not deleted, and fires again.
LeaveArmed(c) ==
  /\ handler[c] = "leaving"
  /\ blocked' = blocked - 1
  /\ Goes(c, "later")
  /\ UNCHANGED << callerVars, found, arguments, objects, answers, spoilt, lock, server >>

\* The timer is deleted, with it the request; UaTestServer_UnblockShutdown.
Leave(c) ==
  /\ handler[c] = "leaving"
  /\ Change(c, {}, {}, {"request"})
  /\ blocked' = blocked - 1
  /\ Goes(c, "done")
  /\ UNCHANGED << callerVars, found, arguments, answers, spoilt, lock, server >>

----------------------------------------------------------------------------
(* UaTestServer_Serve.                                                      *)

ServerGoes(from, to) == server = from /\ server' = to

\* A key was pressed: the flag is set, then no timer may be inside its callback.
Stop == ServerGoes("serving", "stopping")
        /\ UNCHANGED << callerVars, serverVars, blocked >>
WaitShutdown == ServerGoes("stopping", "stopped") /\ blocked = 0
                /\ UNCHANGED << callerVars, serverVars, blocked >>

\* OpcUa_Endpoint_Close: the state is set under the mutex, which is free while the
\* listener is closed and the thread of the transport is joined.
Close == ServerGoes("stopped", "closing") /\ lock = NoCall
         /\ UNCHANGED << callerVars, serverVars, blocked >>
Closed == ServerGoes("closing", "closed") /\ lock = NoCall /\ (pool \/ AtWork = {})
          /\ UNCHANGED << callerVars, serverVars, blocked >>

\* OpcUa_Endpoint_Delete holds the mutex until the workers of the pool are joined.
Delete == /\ ServerGoes("closed", "deleting") /\ lock = NoCall
          /\ Hasty \/ \A c \in Calls : handler[c] \in {"none", "done"}
          /\ lock' = "Delete"
          /\ UNCHANGED << callerVars, handler, found, arguments, objects, answers, spoilt, blocked >>
Deleted == ServerGoes("deleting", "deleted") /\ AtWork = {}
           /\ lock' = NoCall
           /\ UNCHANGED << callerVars, handler, found, arguments, objects, answers, spoilt, blocked >>

Serve == Stop \/ WaitShutdown \/ Close \/ Closed \/ Delete \/ Deleted

----------------------------------------------------------------------------
Process(c) ==
  \/ Fetch(c) \/ Reject(c) \/ BeginProcessRequest(c)
  \/ BeginInvoke(c) \/ Respond(c) \/ Return(c)
  \/ BeginTestStack(c) \/ DoAsyncResponse(c)
  \/ Cancel(c) \/ Compose(c) \/ Send(c) \/ Leave(c)

Next ==
  \/ Serve
  \/ \E c \in Calls : CallerStep(c) \/ Receive(c) \/ Process(c)

\* The threads run and timers fire.  Nothing is assumed of clients, network and operator.
Fairness ==
  /\ \A c \in Calls : WF_vars(Process(c))
  /\ WF_vars(Serve /\ Stopping)

Spec == Init /\ [][Next]_vars /\ Fairness

----------------------------------------------------------------------------
(* Properties.                                                              *)

Handled == {"later", "composing", "cancelling", "sending", "leaving"}

TypeOK ==
  /\ service \in Offered /\ pool \in ThreadPools
  /\ caller \in [Calls -> {"idle", "waiting", "called", "returned"}]
  /\ handler \in [Calls -> {"none", "queued", "done"} \cup Working \cup Handled]
  /\ objects \in [Calls -> [Objects -> {"none", "live", "freed", "misused"}]]
  /\ spoilt \in [Calls -> SUBSET {"answer", "objects"}]
  /\ found \in [Calls -> Supported \cup {"none"}]
  /\ lock \in Calls \cup {NoCall, "Delete"}
  /\ server \in {"serving", "stopping", "stopped", "closing", "closed", "deleting", "deleted"}
  /\ blocked \in 0 .. Cardinality(Calls)

InOrder(n) == [k \in 1 .. n |-> k]

\* For every service, the function that implements it gets each of the caller's values in
\* the parameter of that place, and the caller gets each of the function's, or the header
\* of a fault and nothing else; a callback gets the response of its service or a fault, and
\* no field of a message is left to chance.
Transparent ==
  \A c \in {d \in Calls : caller[d] # "idle"} :
    LET row == Functions[service[c]]
        Whole(message) ==
          message = NoMessage \/ Cardinality(DOMAIN message.body) = NumberOfFields[message.type]
    IN
    /\ Whole(request[c])
    /\ \A k \in DOMAIN answers[c] : Whole(answers[c][k])
    /\ arguments[c] # << >> => arguments[c] = InOrder(Len(row.arguments))
    /\ outcome[c].status # "none" /\ outcome[c].results # << >> =>
         /\ outcome[c].status = "Good"
         /\ \/ outcome[c].results = InOrder(Len(row.results))
            \/ /\ Head(answers[c]) = Fault
               /\ outcome[c].results = [k \in DOMAIN row.results |-> IF k = 1 THEN Header ELSE Unset]
    /\ outcome[c].given \in {NoMessage, Fault, Message(row.response, Filled(row.results))}

\* The server uses and deletes its objects only while they are there, and when it is done
\* with a request none is left but what the sample server gives up: the shutdown flag keeps
\* a late answer from an endpoint that would leave its stream and context behind.
ObjectsSound ==
  \A c \in Calls :
    /\ \A o \in Objects : objects[c][o] # "misused"
    /\ handler[c] = "done" /\ "objects" \notin spoilt[c] =>
         \A o \in Objects : objects[c][o] # "live"

\* A request is never answered twice, and it is answered unless something went wrong.
AnsweredOnce ==
  \A c \in Calls :
    /\ Len(answers[c]) <= 1
    /\ handler[c] = "done" => (answers[c] = << >> <=> "answer" \in spoilt[c])

\* A request that a thread works on is done with, whoever holds the endpoint's mutex, and a
\* server that is told to stop closes and deletes its endpoint.
CallsFinish ==
  /\ \A c \in Calls : handler[c] = "waiting" ~> handler[c] = "done"
  /\ server = "stopping" ~> server = "deleted"

\* Endpoint_Delete returns.
DeleteReturns == server = "deleting" ~> server = "deleted"
=============================================================================
