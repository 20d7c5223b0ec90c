-------------------------- MODULE ServiceCalls_proofs --------------------------
(****************************************************************************)
(* Proofs about the calls of services, for any calls, services and table.   *)
(*                                                                          *)
(* Where the server is with a request (handler) says what it has in hand    *)
(* for it (ObjectsInv) and whether it was answered (AnswersInv).  That both *)
(* survive the end of the server rests on who keeps whom waiting: the       *)
(* endpoint's mutex keeps the endpoint open for a stub (LockInv), the count *)
(* of the timers inside their callback keeps it open for a late answer      *)
(* (ShutdownInv), and an endpoint that is not deleted in haste is deleted   *)
(* when no request is left (EndInv).  What the caller and the function that *)
(* implements a service get (DataInv) rests on what the generated tables of *)
(* the two sides agree on (TablesAgree).                                    *)
(****************************************************************************)
EXTENDS ServiceCalls, FiniteSetTheorems, TLAPS

Stages == {"none", "queued", "done"} \cup Working \cup Handled
Lives  == {"none", "live", "freed", "misused"}

\* The stages in which a stub holds the mutex, and a timer is inside its callback.
Locked == {"begun", "answering", "returning"}
InTimer == {"composing", "cancelling", "sending", "leaving"}
Blockers == {c \in Calls : handler[c] \in InTimer}

HandlerType == handler \in [Calls -> Stages]
AnswersType == answers = [c \in Calls |-> answers[c]] /\ spoilt \in [Calls -> SUBSET {"answer", "objects"}]
ObjectsType == objects \in [Calls -> [Objects -> Lives]]

\* A request is answered by the one message that ends its work, or the answer is given up.
Unanswered(c) == answers[c] = << >> /\ spoilt[c] = {}
Settled(c) ==
  \/ answers[c] = << >> /\ "answer" \in spoilt[c]
  \/ (\E m : answers[c] = << m >>) /\ "answer" \notin spoilt[c]
AnswersInv ==
  \A c \in Calls : IF handler[c] \in {"returning", "leaving", "done"} THEN Settled(c) ELSE Unanswered(c)

\* The stub that holds the mutex finds the endpoint open.
LockInv ==
  /\ \A c \in Calls : handler[c] \in Locked => lock = c
  /\ lock \in Calls => Open

\* The flag counts the timers inside their callback; one that found it down has time to answer.
ShutdownInv ==
  /\ IsFiniteSet(Blockers) /\ blocked = Cardinality(Blockers)
  /\ \A c \in Calls : handler[c] \in {"composing", "sending"} => server \in {"serving", "stopping"}

\* No request is left when the endpoint is deleted.
EndInv ==
  server \in {"deleting", "deleted"} => \A c \in Calls : handler[c] \in {"none", "done"}

\* What is in hand: nothing yet; the request with its context and stream; the answer too;
\* the request and what was given up; what was given up.
Fresh(o) == \A x \in Objects : o[x] = "none"
Taking(o) ==
  /\ \A x \in {"context", "stream", "request"} : o[x] = "live"
  /\ \A x \in {"response", "fault", "endpoint"} : o[x] = "none"
Answering(o) ==
  /\ \A x \in {"context", "stream", "request"} : o[x] = "live"
  /\ \/ o["response"] = "live" /\ o["fault"] = "none"
     \/ o["response"] = "none" /\ o["fault"] = "live"
  /\ o["endpoint"] = "none"
Left(o, but, what) ==
  /\ \A x \in Objects : o[x] # "misused"
  /\ "objects" \notin what => \A x \in Objects \ but : o[x] # "live"
Returning(o, what) == Left(o, {"request"}, what) /\ o["request"] = "live"

Fits(stage, o, what) ==
  /\ stage \in {"none", "queued", "waiting"} => Fresh(o)
  /\ stage \in {"begun", "later", "composing", "cancelling"} => Taking(o)
  /\ stage \in {"answering", "sending"} => Answering(o)
  /\ stage \in {"returning", "leaving"} => Returning(o, what)
  /\ stage = "done" => Left(o, {}, what)
ObjectsInv == \A c \in Calls : Fits(handler[c], objects[c], spoilt[c])

CallsInv == HandlerType /\ AnswersType /\ AnswersInv
ServerInv == LockInv /\ ShutdownInv

IInv == CallsInv /\ ServerInv
SoundInv == IInv /\ ObjectsType /\ EndInv /\ ObjectsInv

-----------------------------------------------------------------------------
(* Lemmas about one request.                                                *)

\* A step of a request that keeps the other requests keeps the invariant when it ends the
\* work on this one only with an answer sent or given up.
LEMMA MoveKeeps ==
    ASSUME CallsInv, NEW c \in Calls, NEW to \in Stages, Goes(c, to), AnswersType',
           \A d \in Calls : d # c => answers'[d] = answers[d] /\ spoilt'[d] = spoilt[d],
           IF to \in {"returning", "leaving", "done"} THEN Settled(c)' ELSE Unanswered(c)'
    PROVE  CallsInv'
  <1>1. HandlerType' /\ \A d \in Calls : handler'[d] = IF d = c THEN to ELSE handler[d]
    BY DEF CallsInv, HandlerType, Goes
  <1>2. ASSUME NEW d \in Calls
        PROVE  IF handler'[d] \in {"returning", "leaving", "done"} THEN Settled(d)' ELSE Unanswered(d)'
    <2>1. CASE d = c
      BY <1>1, <2>1
    <2>2. CASE d # c
      BY <1>1, <2>2 DEF CallsInv, AnswersInv, Settled, Unanswered
    <2> QED
      BY <2>1, <2>2
  <1> QED
    BY <1>1, <1>2 DEF CallsInv, AnswersInv

\* A step that leaves the answers alone.
LEMMA QuietKeeps ==
    ASSUME CallsInv, NEW c \in Calls, NEW to \in Stages, Goes(c, to), UNCHANGED << answers, spoilt >>,
           handler[c] \in {"returning", "leaving", "done"} <=> to \in {"returning", "leaving", "done"}
    PROVE  CallsInv'
  <1>1. AnswersType' /\ \A d \in Calls : answers'[d] = answers[d] /\ spoilt'[d] = spoilt[d]
    BY DEF CallsInv, AnswersType
  <1>2. IF to \in {"returning", "leaving", "done"} THEN Settled(c)' ELSE Unanswered(c)'
    BY <1>1 DEF CallsInv, AnswersInv, Settled, Unanswered
  <1> QED
    BY <1>1, <1>2, MoveKeeps

\* A request whose answer is given up is settled.
LEMMA SpoilSettles ==
    ASSUME CallsInv, NEW c \in Calls, Unanswered(c), UNCHANGED answers,
           NEW what \in SUBSET {"answer", "objects"}, "answer" \in what, Spoils(c, what)
    PROVE  /\ AnswersType' /\ Settled(c)'
           /\ \A d \in Calls : d # c => answers'[d] = answers[d] /\ spoilt'[d] = spoilt[d]
  BY DEF CallsInv, AnswersType, Unanswered, Settled, Spoils

\* A request is settled when the response ends, whatever happens to it.
LEMMA EndSettles ==
    ASSUME CallsInv, NEW c \in Calls, Unanswered(c), NEW m, NEW o, EndSendResponse(c, m, o)
    PROVE  /\ AnswersType' /\ Settled(c)'
           /\ \A d \in Calls : d # c => answers'[d] = answers[d] /\ spoilt'[d] = spoilt[d]
  <1>1. {"answer"} \in SUBSET {"answer", "objects"} /\ "answer" \in {"answer"}
    OBVIOUS
  <1>2. CASE Spoils(c, {"answer"}) /\ UNCHANGED answers
    BY <1>1, <1>2, SpoilSettles
  <1>3. CASE answers' = [answers EXCEPT ![c] = Append(@, m)] /\ UNCHANGED spoilt
    <2>1. Append(<< >>, m) = << m >>
      OBVIOUS
    <2>2. answers' = [answers EXCEPT ![c] = << m >>]
      BY <1>3, <2>1 DEF CallsInv, AnswersType, Unanswered
    <2> QED
      BY <1>3, <2>2 DEF CallsInv, AnswersType, Unanswered, Settled
  <1> QED
    BY <1>2, <1>3 DEF EndSendResponse, CancelSendResponse

\* The same of a response that is cancelled.
LEMMA CancelSettles ==
    ASSUME CallsInv, NEW c \in Calls, Unanswered(c), NEW others, CancelSendResponse(c, others)
    PROVE  /\ AnswersType' /\ Settled(c)'
           /\ \A d \in Calls : d # c => answers'[d] = answers[d] /\ spoilt'[d] = spoilt[d]
  <1>1. {"answer"} \in SUBSET {"answer", "objects"} /\ "answer" \in {"answer"}
    OBVIOUS
  <1> QED
    BY <1>1, SpoilSettles DEF CancelSendResponse

-----------------------------------------------------------------------------
(* Steps of a request: who answers it.                                      *)

\* The steps before its answer, and those that only clean up.
LEMMA QuietSteps ==
    ASSUME CallsInv, NEW c \in Calls,
           Receive(c) \/ Fetch(c) \/ BeginProcessRequest(c) \/ Return(c) \/ DoAsyncResponse(c) \/ Leave(c)
    PROVE  CallsInv'
  <1>1. CASE Receive(c)
    <2>1. CASE pool
      BY <1>1, <2>1, QuietKeeps DEF Receive, Stages
    <2>2. CASE ~pool
      BY <1>1, <2>2, QuietKeeps DEF Receive, Stages, Working
    <2> QED
      BY <2>1, <2>2
  <1>2. CASE Fetch(c)
    BY <1>2, QuietKeeps DEF Fetch, Stages, Working
  <1>3. CASE BeginProcessRequest(c)
    BY <1>3, QuietKeeps DEF BeginProcessRequest, Stages, Working
  <1>4. CASE Return(c)
    BY <1>4, QuietKeeps DEF Return, Stages, Working
  <1>5. CASE DoAsyncResponse(c)
    <2>1. CASE Stopping
      BY <1>5, <2>1, QuietKeeps DEF DoAsyncResponse, Stages, Handled
    <2>2. CASE ~Stopping
      BY <1>5, <2>2, QuietKeeps DEF DoAsyncResponse, Stages, Handled
    <2> QED
      BY <2>1, <2>2
  <1>6. CASE Leave(c)
    BY <1>6, QuietKeeps DEF Leave, Stages, Handled
  <1> QED
    BY <1>1, <1>2, <1>3, <1>4, <1>5, <1>6

\* The steps that send an answer or give it up.
LEMMA AnswerSteps ==
    ASSUME CallsInv, NEW c \in Calls,
           Reject(c) \/ Respond(c) \/ Cancel(c) \/ Send(c)
    PROVE  CallsInv'
  <1>1. Unanswered(c)
    BY DEF Reject, Respond, Cancel, Send, CallsInv, AnswersInv
  <1>2. CASE Reject(c)
    <2>1. {"answer"} \in SUBSET {"answer", "objects"} /\ "done" \in Stages
      BY DEF Stages
    <2>2. Goes(c, "done") /\ Spoils(c, {"answer"}) /\ UNCHANGED answers
      BY <1>2 DEF Reject
    <2> QED
      BY <1>1, <2>1, <2>2, SpoilSettles, MoveKeeps
  <1>3. CASE Respond(c)
    <2>1. Goes(c, "returning") /\ EndSendResponse(c, Answer(c), Result(c)) /\ "returning" \in Stages
      BY <1>3 DEF Respond, Stages, Working
    <2> QED
      BY <1>1, <2>1, EndSettles, MoveKeeps
  <1>4. CASE Cancel(c)
    <2>1. Goes(c, "leaving") /\ CancelSendResponse(c, {}) /\ "leaving" \in Stages
      BY <1>4 DEF Cancel, Stages, Handled
    <2> QED
      BY <1>1, <2>1, CancelSettles, MoveKeeps
  <1>5. CASE Send(c)
    <2>1. Goes(c, "leaving") /\ EndSendResponse(c, Answer(c), Result(c)) /\ "leaving" \in Stages
      BY <1>5 DEF Send, Stages, Handled
    <2> QED
      BY <1>1, <2>1, EndSettles, MoveKeeps
  <1> QED
    BY <1>2, <1>3, <1>4, <1>5

\* A fault takes the place of the answer, or there is none.
LEMMA StartFaultKeeps ==
    ASSUME CallsInv, NEW c \in Calls, Unanswered(c),
           NEW fails \in {"returning", "leaving"}, NEW goesOn \in {"answering", "sending"},
           StartFault(c, fails, goesOn)
    PROVE  CallsInv'
  <1>1. fails \in Stages /\ goesOn \in Stages /\ goesOn \notin {"returning", "leaving", "done"}
    BY DEF Stages, Working, Handled
  <1>2. CASE Goes(c, goesOn) /\ UNCHANGED << answers, spoilt >>
    <2>1. AnswersType' /\ Unanswered(c)'
      BY <1>2 DEF CallsInv, AnswersType, Unanswered
    <2> QED
      BY <1>1, <1>2, <2>1, MoveKeeps
  <1>3. CASE CancelSendResponse(c, {}) /\ Goes(c, fails)
    BY <1>1, <1>3, CancelSettles, MoveKeeps
  <1>4. CASE UNCHANGED answers /\ Goes(c, fails) /\ Spoils(c, {"answer", "objects"})
    <2>1. {"answer", "objects"} \in SUBSET {"answer", "objects"}
      OBVIOUS
    <2> QED
      BY <1>1, <1>4, <2>1, SpoilSettles, MoveKeeps
  <1> QED
    BY <1>2, <1>3, <1>4 DEF StartFault

\* The steps that begin an answer.
LEMMA BeginSteps ==
    ASSUME CallsInv, NEW c \in Calls, BeginInvoke(c) \/ BeginTestStack(c) \/ Compose(c)
    PROVE  CallsInv'
  <1>1. Unanswered(c)
    BY DEF BeginInvoke, BeginTestStack, Compose, CallsInv, AnswersInv
  <1>2. \A to \in {"returning", "answering", "later", "done", "sending"} : to \in Stages
    BY DEF Stages, Working, Handled
  <1>3. UNCHANGED << answers, spoilt >> => AnswersType' /\ Unanswered(c)'
    BY <1>1 DEF CallsInv, AnswersType, Unanswered
  <1>4. CASE BeginInvoke(c)
    <2>1. \/ CancelSendResponse(c, {}) /\ Goes(c, "returning")
          \/ Goes(c, "answering") /\ UNCHANGED << answers, spoilt >>
      BY <1>4 DEF BeginInvoke
    <2>2. CASE CancelSendResponse(c, {}) /\ Goes(c, "returning")
      BY <1>1, <1>2, <2>2, CancelSettles, MoveKeeps
    <2>3. CASE Goes(c, "answering") /\ UNCHANGED << answers, spoilt >>
      BY <1>2, <1>3, <2>3, MoveKeeps
    <2> QED
      BY <2>1, <2>2, <2>3
  <1>5. CASE BeginTestStack(c)
    <2>1. \/ Goes(c, "later") /\ UNCHANGED << answers, spoilt >>
          \/ Goes(c, "done") /\ Spoils(c, {"answer", "objects"}) /\ UNCHANGED answers
          \/ StartFault(c, "returning", "answering")
      BY <1>5 DEF BeginTestStack
    <2>2. CASE Goes(c, "later") /\ UNCHANGED << answers, spoilt >>
      BY <1>2, <1>3, <2>2, MoveKeeps
    <2>3. CASE Goes(c, "done") /\ Spoils(c, {"answer", "objects"}) /\ UNCHANGED answers
      <3>1. {"answer", "objects"} \in SUBSET {"answer", "objects"}
        OBVIOUS
      <3> QED
        BY <1>1, <1>2, <2>3, <3>1, SpoilSettles, MoveKeeps
    <2>4. CASE StartFault(c, "returning", "answering")
      BY <1>1, <2>4, StartFaultKeeps
    <2> QED
      BY <2>1, <2>2, <2>3, <2>4
  <1>6. CASE Compose(c)
    <2>1. \/ Goes(c, "sending") /\ UNCHANGED << answers, spoilt >>
          \/ StartFault(c, "leaving", "sending")
      BY <1>6 DEF Compose
    <2>2. CASE Goes(c, "sending") /\ UNCHANGED << answers, spoilt >>
      BY <1>2, <1>3, <2>2, MoveKeeps
    <2>3. CASE StartFault(c, "leaving", "sending")
      BY <1>1, <2>3, StartFaultKeeps
    <2> QED
      BY <2>1, <2>2, <2>3
  <1> QED
    BY <1>4, <1>5, <1>6

\* Every step keeps what is known of requests and answers.
LEMMA CallsInvStep == CallsInv /\ [Next]_vars => CallsInv'
  <1> SUFFICES ASSUME CallsInv, [Next]_vars PROVE CallsInv'
    OBVIOUS
  <1>1. CASE UNCHANGED << handler, answers, spoilt >>
    BY <1>1 DEF CallsInv, HandlerType, AnswersType, AnswersInv, Settled, Unanswered
  <1>2. ASSUME NEW c \in Calls, Process(c) \/ Receive(c) PROVE CallsInv'
    BY <1>2, QuietSteps, AnswerSteps, BeginSteps DEF Process
  <1>3. ASSUME NEW c \in Calls, CallerStep(c)
        PROVE  UNCHANGED << handler, answers, spoilt >>
    BY <1>3 DEF CallerStep, Sends, Invoke, Begin, Complete, CallBack, Fail, serverVars
  <1>4. Serve => UNCHANGED << handler, answers, spoilt >>
    BY DEF Serve, Stop, WaitShutdown, Close, Closed, Delete, Deleted, serverVars
  <1>5. UNCHANGED vars => UNCHANGED << handler, answers, spoilt >>
    BY DEF vars, serverVars
  <1> QED
    BY <1>1, <1>2, <1>3, <1>4, <1>5 DEF Next

-----------------------------------------------------------------------------
(* Steps of a request: the mutex and the count of the timers.               *)

\* A request may enter or leave the stages in which a stub runs only with the mutex.
LEMMA LockKeeps ==
    ASSUME HandlerType, LockInv, NEW c \in Calls, NEW to, Goes(c, to), UNCHANGED server,
           \/ lock' = lock /\ (to \in Locked => handler[c] \in Locked)
           \/ lock' = c /\ lock = NoCall /\ Open
           \/ lock' = NoCall /\ handler[c] \in Locked /\ to \notin Locked
    PROVE  LockInv'
  <1>1. \A d \in Calls : handler'[d] = IF d = c THEN to ELSE handler[d]
    BY DEF HandlerType, Goes
  <1>2. NoCall \notin Calls /\ Open' = Open
    BY ServiceAssumption DEF Open
  <1> QED
    BY <1>1, <1>2 DEF LockInv

\* The steps of a request take and give back the mutex as they should.
LEMMA LockSteps ==
    ASSUME HandlerType, LockInv, NEW c \in Calls, Receive(c) \/ Process(c)
    PROVE  LockInv'
  <1> USE DEF Locked
  <1>1. CASE Receive(c)
    <2>1. CASE pool
      BY <1>1, <2>1, LockKeeps DEF Receive
    <2>2. CASE ~pool
      BY <1>1, <2>2, LockKeeps DEF Receive
    <2> QED
      BY <2>1, <2>2
  <1>2. CASE Fetch(c)
    BY <1>2, LockKeeps DEF Fetch
  <1>3. CASE Reject(c)
    BY <1>3, LockKeeps DEF Reject
  <1>4. CASE BeginProcessRequest(c)
    BY <1>4, LockKeeps DEF BeginProcessRequest
  <1>5. CASE BeginInvoke(c)
    <2>1. handler[c] = "begun" /\ UNCHANGED << lock, server >>
      BY <1>5 DEF BeginInvoke
    <2>2. PICK to \in {"returning", "answering"} : Goes(c, to)
      BY <1>5 DEF BeginInvoke
    <2> QED
      BY <2>1, <2>2, LockKeeps
  <1>6. CASE Respond(c)
    BY <1>6, LockKeeps DEF Respond
  <1>7. CASE Return(c)
    BY <1>7, LockKeeps DEF Return
  <1>8. CASE BeginTestStack(c)
    <2>1. handler[c] = "begun" /\ UNCHANGED server
      BY <1>8 DEF BeginTestStack
    <2>2. \/ \E to \in {"later", "done"} : Goes(c, to) /\ lock' = NoCall
          \/ \E to \in {"returning", "answering"} : Goes(c, to) /\ lock' = lock
      BY <1>8 DEF BeginTestStack, StartFault
    <2> QED
      BY <2>1, <2>2, LockKeeps
  <1>9. CASE DoAsyncResponse(c)
    <2>1. CASE Stopping
      BY <1>9, <2>1, LockKeeps DEF DoAsyncResponse
    <2>2. CASE ~Stopping
      BY <1>9, <2>2, LockKeeps DEF DoAsyncResponse
    <2> QED
      BY <2>1, <2>2
  <1>10. CASE Cancel(c)
    BY <1>10, LockKeeps DEF Cancel
  <1>11. CASE Compose(c)
    <2>1. UNCHANGED << lock, server >> /\ \E to \in {"sending", "leaving"} : Goes(c, to)
      BY <1>11 DEF Compose, StartFault
    <2> QED
      BY <2>1, LockKeeps
  <1>12. CASE Send(c)
    BY <1>12, LockKeeps DEF Send
  <1>13. CASE Leave(c)
    BY <1>13, LockKeeps DEF Leave
  <1> QED
    BY <1>1, <1>2, <1>3, <1>4, <1>5, <1>6, <1>7, <1>8, <1>9, <1>10, <1>11, <1>12, <1>13
       DEF Process

\* The server closes and deletes the endpoint with the mutex, when no stub runs.
LEMMA LockServe == HandlerType /\ LockInv /\ Serve => LockInv'
  <1> SUFFICES ASSUME HandlerType, LockInv, Serve PROVE LockInv'
    OBVIOUS
  <1>1. handler' = handler
    BY DEF Serve, Stop, WaitShutdown, Close, Closed, Delete, Deleted, serverVars
  <1>2. NoCall \notin Calls /\ "Delete" \notin Calls
    BY ServiceAssumption
  <1>3. CASE Stop \/ WaitShutdown
    BY <1>1, <1>3 DEF Stop, WaitShutdown, ServerGoes, serverVars, LockInv, Open
  <1>4. CASE Close \/ Closed
    BY <1>1, <1>2, <1>4 DEF Close, Closed, ServerGoes, serverVars, LockInv, Open
  <1>5. CASE Delete
    BY <1>1, <1>2, <1>5 DEF Delete, ServerGoes, LockInv, Open
  <1>6. CASE Deleted
    <2>1. \A c \in Calls : handler[c] \notin Locked
      BY <1>6 DEF Deleted, AtWork, Working, Locked
    <2> QED
      BY <1>1, <1>2, <1>6, <2>1 DEF Deleted, LockInv
  <1> QED
    BY <1>3, <1>4, <1>5, <1>6 DEF Serve

\* A timer is counted when it enters its callback, and no longer when it leaves it.
LEMMA ShutdownKeeps ==
    ASSUME HandlerType, ShutdownInv, NEW c \in Calls, NEW to, Goes(c, to), UNCHANGED server,
           to \in {"composing", "sending"} => server = "serving" \/ handler[c] = "composing",
           \/ blocked' = blocked /\ (to \in InTimer <=> handler[c] \in InTimer)
           \/ blocked' = blocked + 1 /\ to \in InTimer /\ handler[c] \notin InTimer
           \/ blocked' = blocked - 1 /\ to \notin InTimer /\ handler[c] \in InTimer
    PROVE  ShutdownInv'
  <1>1. \A d \in Calls : handler'[d] = IF d = c THEN to ELSE handler[d]
    BY DEF HandlerType, Goes
  <1>2. IsFiniteSet(Blockers) /\ blocked = Cardinality(Blockers) /\ blocked \in Nat
    BY FS_CardinalityType DEF ShutdownInv
  <1>3. IsFiniteSet(Blockers') /\ blocked' = Cardinality(Blockers')
    <2>1. CASE blocked' = blocked /\ (to \in InTimer <=> handler[c] \in InTimer)
      <3>1. Blockers' = Blockers
        BY <1>1, <2>1 DEF Blockers
      <3> QED
        BY <1>2, <2>1, <3>1
    <2>2. CASE blocked' = blocked + 1 /\ to \in InTimer /\ handler[c] \notin InTimer
      <3>1. Blockers' = Blockers \cup {c} /\ c \notin Blockers
        BY <1>1, <2>2 DEF Blockers
      <3> QED
        BY <1>2, <2>2, <3>1, FS_AddElement
    <2>3. CASE blocked' = blocked - 1 /\ to \notin InTimer /\ handler[c] \in InTimer
      <3>1. Blockers' = Blockers \ {c} /\ c \in Blockers
        BY <1>1, <2>3 DEF Blockers
      <3> QED
        BY <1>2, <2>3, <3>1, FS_RemoveElement
    <2> QED
      BY <2>1, <2>2, <2>3
  <1>4. ASSUME NEW d \in Calls, handler'[d] \in {"composing", "sending"}
        PROVE  server' \in {"serving", "stopping"}
    BY <1>1, <1>4 DEF ShutdownInv
  <1> QED
    BY <1>3, <1>4 DEF ShutdownInv

\* The steps of a request count the timers as they should.
LEMMA ShutdownSteps ==
    ASSUME HandlerType, ShutdownInv, NEW c \in Calls, Receive(c) \/ Process(c)
    PROVE  ShutdownInv'
  <1> USE DEF InTimer
  <1>1. CASE Receive(c)
    <2>1. handler[c] = "none" /\ UNCHANGED << blocked, server >>
          /\ \E to \in {"queued", "waiting"} : Goes(c, to)
      BY <1>1 DEF Receive
    <2> QED
      BY <2>1, ShutdownKeeps
  <1>2. CASE Fetch(c) \/ Reject(c) \/ BeginProcessRequest(c)
    <2>1. handler[c] \in {"queued", "waiting"} /\ UNCHANGED << blocked, server >>
          /\ \E to \in {"waiting", "begun", "done"} : Goes(c, to)
      BY <1>2 DEF Fetch, Reject, BeginProcessRequest
    <2> QED
      BY <2>1, ShutdownKeeps
  <1>3. CASE BeginInvoke(c) \/ Respond(c) \/ Return(c) \/ BeginTestStack(c)
    <2>1. handler[c] \in {"begun", "answering", "returning"} /\ UNCHANGED << blocked, server >>
      BY <1>3 DEF BeginInvoke, Respond, Return, BeginTestStack
    <2>2. \E to \in {"answering", "returning", "done", "later"} : Goes(c, to)
      BY <1>3 DEF BeginInvoke, Respond, Return, BeginTestStack, StartFault
    <2> QED
      BY <2>1, <2>2, ShutdownKeeps
  <1>4. CASE DoAsyncResponse(c)
    <2>1. handler[c] = "later" /\ blocked' = blocked + 1 /\ UNCHANGED server
      BY <1>4 DEF DoAsyncResponse
    <2>2. \/ Goes(c, "cancelling")
          \/ Goes(c, "composing") /\ server = "serving"
      BY <1>4 DEF DoAsyncResponse, Stopping
    <2> QED
      BY <2>1, <2>2, ShutdownKeeps
  <1>5. CASE Cancel(c) \/ Send(c)
    <2>1. handler[c] \in {"cancelling", "sending"} /\ UNCHANGED << blocked, server >>
          /\ Goes(c, "leaving")
      BY <1>5 DEF Cancel, Send
    <2> QED
      BY <2>1, ShutdownKeeps
  <1>6. CASE Compose(c)
    <2>1. handler[c] = "composing" /\ UNCHANGED << blocked, server >>
          /\ \E to \in {"sending", "leaving"} : Goes(c, to)
      BY <1>6 DEF Compose, StartFault
    <2> QED
      BY <2>1, ShutdownKeeps
  <1>7. CASE Leave(c)
    <2>1. handler[c] = "leaving" /\ blocked' = blocked - 1 /\ UNCHANGED server /\ Goes(c, "done")
      BY <1>7 DEF Leave
    <2> QED
      BY <2>1, ShutdownKeeps
  <1> QED
    BY <1>1, <1>2, <1>3, <1>4, <1>5, <1>6, <1>7 DEF Process

\* The server waits until no timer is inside its callback before it closes.
LEMMA ShutdownServe == HandlerType /\ ShutdownInv /\ Serve => ShutdownInv'
  <1> SUFFICES ASSUME HandlerType, ShutdownInv, Serve PROVE ShutdownInv'
    OBVIOUS
  <1>1. UNCHANGED << handler, blocked >>
    BY DEF Serve, Stop, WaitShutdown, Close, Closed, Delete, Deleted, serverVars
  <1>2. Blockers' = Blockers
    BY <1>1 DEF Blockers
  <1>3. ASSUME NEW c \in Calls, handler[c] \in {"composing", "sending"}
        PROVE  Stop
    <2>1. c \in Blockers
      BY <1>3 DEF Blockers, InTimer
    <2>2. blocked # 0
      BY <2>1, FS_EmptySet DEF ShutdownInv
    <2>3. server \in {"serving", "stopping"}
      BY <1>3 DEF ShutdownInv
    <2> QED
      BY <2>2, <2>3 DEF Serve, Stop, WaitShutdown, Close, Closed, Delete, Deleted, ServerGoes
  <1>4. ASSUME NEW c \in Calls, handler'[c] \in {"composing", "sending"}
        PROVE  server' \in {"serving", "stopping"}
    BY <1>1, <1>3, <1>4 DEF Stop, ServerGoes
  <1> QED
    BY <1>1, <1>2, <1>4 DEF ShutdownInv

\* Every step keeps the mutex and the count with those who hold them.
LEMMA ServerInvStep == HandlerType /\ ServerInv /\ [Next]_vars => ServerInv'
  <1> SUFFICES ASSUME HandlerType, ServerInv, [Next]_vars PROVE ServerInv'
    OBVIOUS
  <1>1. CASE UNCHANGED << handler, lock, server, blocked >>
    BY <1>1 DEF ServerInv, LockInv, ShutdownInv, Blockers, Open
  <1>2. ASSUME NEW c \in Calls, CallerStep(c)
        PROVE  UNCHANGED << handler, lock, server, blocked >>
    BY <1>2 DEF CallerStep, Sends, Invoke, Begin, Complete, CallBack, Fail, serverVars
  <1>3. UNCHANGED vars => UNCHANGED << handler, lock, server, blocked >>
    BY DEF vars, serverVars
  <1> QED
    BY <1>1, <1>2, <1>3, LockSteps, LockServe, ShutdownSteps, ShutdownServe DEF Next, ServerInv

-----------------------------------------------------------------------------
(* Theorems.                                                                *)

LEMMA InitIInv == Init => IInv
  <1> SUFFICES ASSUME Init PROVE IInv
    OBVIOUS
  <1>1. \A c \in Calls : handler[c] = "none" /\ answers[c] = << >> /\ spoilt[c] = {}
    BY DEF Init
  <1>2. HandlerType
    BY DEF Init, HandlerType, Stages
  <1>3. AnswersType
    BY DEF Init, AnswersType
  <1>4. AnswersInv
    BY <1>1 DEF AnswersInv, Unanswered
  <1>5. LockInv
    BY <1>1 DEF Init, LockInv, Locked, Open
  <1>6. Blockers = {}
    BY <1>1 DEF Blockers, InTimer
  <1>7. ShutdownInv
    BY <1>1, <1>6, FS_EmptySet DEF Init, ShutdownInv
  <1> QED
    BY <1>2, <1>3, <1>4, <1>5, <1>7 DEF IInv, CallsInv, ServerInv

LEMMA IInvStep == IInv /\ [Next]_vars => IInv'
  BY CallsInvStep, ServerInvStep DEF IInv, CallsInv

\* However the endpoint is deleted, a stub that is answering holds its mutex and finds it
\* open, and an answer that is late is waited for or given up.
THEOREM CallsInvariant == Spec => []IInv
  BY InitIInv, IInvStep, PTL DEF Spec

\* A request is never answered twice, and when the server is done with it, it was answered
\* unless the answer was given up: whatever fails, and whenever the server is stopped.
THEOREM AnsweredOnceHolds == Spec => []AnsweredOnce
  <1>1. IInv => AnsweredOnce
    <2> SUFFICES ASSUME IInv, NEW c \in Calls
                 PROVE  /\ Len(answers[c]) <= 1
                        /\ handler[c] = "done" => (answers[c] = << >> <=> "answer" \in spoilt[c])
      BY DEF AnsweredOnce
    <2>1. Settled(c) \/ Unanswered(c)
      BY DEF IInv, CallsInv, AnswersInv
    <2>2. handler[c] = "done" => Settled(c)
      BY DEF IInv, CallsInv, AnswersInv
    <2>3. Len(<< >>) = 0 /\ \A m : Len(<< m >>) = 1 /\ << m >> # << >>
      OBVIOUS
    <2>4. Len(answers[c]) <= 1
      <3>1. answers[c] = << >> \/ \E m : answers[c] = << m >>
        BY <2>1 DEF Settled, Unanswered
      <3>2. CASE answers[c] = << >>
        BY <2>3, <3>2
      <3>3. ASSUME NEW m, answers[c] = << m >> PROVE Len(answers[c]) <= 1
        <4>1. Len(answers[c]) = Len(<< m >>)
          BY ONLY <3>3
        <4>2. Len(<< m >>) = 1
          OBVIOUS
        <4> QED
          BY <4>1, <4>2
      <3> QED
        BY <3>1, <3>2, <3>3
    <2>5. ASSUME handler[c] = "done" PROVE answers[c] = << >> <=> "answer" \in spoilt[c]
      BY <2>2, <2>3, <2>5 DEF Settled
    <2> QED
      BY <2>4, <2>5
  <1> QED
    BY <1>1, CallsInvariant, PTL

-----------------------------------------------------------------------------
(* Objects, when the endpoint is not deleted in haste.                      *)

LEMMA AfterType ==
    ASSUME NEW old \in [Objects -> Lives], NEW created, NEW used, NEW deleted
    PROVE  After(old, created, used, deleted) \in [Objects -> Lives]
  BY DEF After, Lives

LEMMA AfterIs ==
    ASSUME NEW old, NEW created, NEW used, NEW deleted, NEW x \in Objects
    PROVE  After(old, created, used, deleted)[x] =
             IF x \in used \cup deleted /\ x \notin created /\ old[x] # "live" THEN "misused"
             ELSE IF x \in deleted THEN "freed"
             ELSE IF x \in created THEN "live" ELSE old[x]
  BY DEF After

\* A request that cannot be taken leaves nothing.
LEMMA RejectedLeft ==
    ASSUME NEW o, Fresh(o), NEW what,
           NEW created \in {{}, {"context"}, {"context", "request"}}
    PROVE  Left(After(o, created, {}, created), {}, what)
  BY AfterIs DEF Fresh, Left

\* Context, request and stream are made for one that is.
LEMMA BegunTaking ==
    ASSUME NEW o, Fresh(o)
    PROVE  Taking(After(o, {"context", "request", "stream"}, {}, {}))
  BY AfterIs DEF Fresh, Taking, Objects

\* An answer is made with them.
LEMMA StartedAnswering ==
    ASSUME NEW o, Taking(o), NEW answer \in {"response", "fault"},
           NEW used \in SUBSET {"context", "request"}
    PROVE  Answering(After(o, {answer}, used, {}))
  BY AfterIs DEF Taking, Answering, Objects

\* A response that is cancelled before there is an answer leaves the request.
LEMMA CancelledReturning ==
    ASSUME NEW o, Taking(o), NEW what
    PROVE  Returning(After(o, {}, {"context"}, {"stream", "context"}), what)
  BY AfterIs DEF Taking, Returning, Left, Objects

\* An answer that was sent or dropped leaves the request.
LEMMA EndedReturning ==
    ASSUME NEW o, Answering(o), NEW what, NEW answer \in {"response", "fault"}, o[answer] = "live",
           NEW used \in SUBSET {"context", "stream", answer}
    PROVE  Returning(After(o, {}, used, {"context", "stream", answer}), what)
  BY AfterIs DEF Answering, Returning, Left, Objects

\* The request is deleted in the end.
LEMMA ReturnedLeft ==
    ASSUME NEW o, NEW what, Returning(o, what)
    PROVE  Left(After(o, {}, {}, {"request"}), {}, what)
  BY AfterIs DEF Returning, Left, Objects

\* A step of one request leaves the objects of the others alone.
ObjectsKnown == HandlerType /\ AnswersType /\ ObjectsType /\ ObjectsInv

LEMMA ObjectsKeep ==
    ASSUME ObjectsKnown, NEW c \in Calls, NEW to \in Stages, Goes(c, to),
           NEW o \in [Objects -> Lives], objects' = [objects EXCEPT ![c] = o],
           \A d \in Calls : d # c => spoilt'[d] = spoilt[d],
           Fits(to, o, spoilt'[c])
    PROVE  ObjectsType' /\ ObjectsInv'
  <1>1. \A d \in Calls : handler'[d] = IF d = c THEN to ELSE handler[d]
    BY DEF ObjectsKnown, HandlerType, Goes
  <1>2. \A d \in Calls : objects'[d] = IF d = c THEN o ELSE objects[d]
    BY DEF ObjectsKnown, ObjectsType
  <1>3. ObjectsType'
    BY DEF ObjectsKnown, ObjectsType
  <1>4. ASSUME NEW d \in Calls PROVE Fits(handler'[d], objects'[d], spoilt'[d])
    <2>1. CASE d = c
      BY <1>1, <1>2, <2>1
    <2>2. CASE d # c
      BY <1>1, <1>2, <2>2 DEF ObjectsKnown, ObjectsInv
    <2> QED
      BY <2>1, <2>2
  <1> QED
    BY <1>3, <1>4 DEF ObjectsInv

\* The same, of a change that is named.
LEMMA ChangeKeeps ==
    ASSUME ObjectsKnown, NEW c \in Calls, NEW to \in Stages, Goes(c, to),
           NEW created, NEW used, NEW deleted, Change(c, created, used, deleted),
           \A d \in Calls : d # c => spoilt'[d] = spoilt[d],
           Fits(to, After(objects[c], created, used, deleted), spoilt'[c])
    PROVE  ObjectsType' /\ ObjectsInv'
  <1> DEFINE o == After(objects[c], created, used, deleted)
  <1>1. o \in [Objects -> Lives]
    BY AfterType DEF ObjectsKnown, ObjectsType
  <1>2. objects' = [objects EXCEPT ![c] = o]
    BY DEF Change
  <1> QED
    BY <1>1, <1>2, ObjectsKeep

\* A step that leaves the objects alone, to a stage in which they are as they were.
LEMMA StageKeeps ==
    ASSUME ObjectsKnown, NEW c \in Calls, NEW to \in Stages, Goes(c, to), UNCHANGED objects,
           \A d \in Calls : d # c => spoilt'[d] = spoilt[d],
           Fits(to, objects[c], spoilt'[c])
    PROVE  ObjectsType' /\ ObjectsInv'
  <1>1. objects[c] \in [Objects -> Lives] /\ objects' = [objects EXCEPT ![c] = objects[c]]
    BY DEF ObjectsKnown, ObjectsType
  <1> QED
    BY <1>1, ObjectsKeep

\* What a step gives up for one request, it gives up for no other.
LEMMA SpoilsOne ==
    ASSUME ObjectsKnown, NEW c \in Calls, NEW what, Spoils(c, what) \/ UNCHANGED spoilt
    PROVE  /\ \A d \in Calls : d # c => spoilt'[d] = spoilt[d]
           /\ Spoils(c, what) => what \subseteq spoilt'[c]
  BY DEF ObjectsKnown, AnswersType, Spoils

\* A response that is cancelled for want of an answer, while the endpoint is there.
LEMMA CancelKeeps ==
    ASSUME ObjectsKnown, NEW c \in Calls, Gone = {}, Taking(objects[c]),
           NEW to \in {"returning", "leaving"}, Goes(c, to), CancelSendResponse(c, {})
    PROVE  ObjectsType' /\ ObjectsInv'
  <1>1. Change(c, {}, {"context"}, {"stream", "context"}) /\ Spoils(c, {"answer"})
    <2>1. {"context"} \cup Gone = {"context"} /\ {"stream", "context"} \cup {} = {"stream", "context"}
      OBVIOUS
    <2> QED
      BY <2>1 DEF CancelSendResponse
  <1>2. to \in Stages
    BY DEF Stages, Working, Handled
  <1>3. Returning(After(objects[c], {}, {"context"}, {"stream", "context"}), spoilt'[c])
    BY CancelledReturning
  <1>4. Fits(to, After(objects[c], {}, {"context"}, {"stream", "context"}), spoilt'[c])
    BY <1>3 DEF Fits
  <1> QED
    BY <1>1, <1>2, <1>4, SpoilsOne, ChangeKeeps

\* An answer that ends while the endpoint is open.
LEMMA EndKeeps ==
    ASSUME ObjectsKnown, NEW c \in Calls, Open, Answering(objects[c]), NEW m,
           NEW to \in {"returning", "leaving"}, Goes(c, to), EndSendResponse(c, m, Result(c))
    PROVE  ObjectsType' /\ ObjectsInv'
  <1>1. Gone = {} /\ to \in Stages
    BY DEF Open, Gone, Stages, Working, Handled
  <1>2. Result(c) \in {"response", "fault"} /\ objects[c][Result(c)] = "live"
    BY DEF Result, Answering
  <1>3. /\ \E used \in SUBSET {"context", "stream", Result(c)} :
             Change(c, {}, used, {"context", "stream", Result(c)})
        /\ Spoils(c, {"answer"}) \/ UNCHANGED spoilt
    <2>1. CASE CancelSendResponse(c, {Result(c)})
      <3>1. {"context"} \cup Gone = {"context"}
            /\ {"stream", "context"} \cup {Result(c)} = {"context", "stream", Result(c)}
            /\ {"context"} \in SUBSET {"context", "stream", Result(c)}
        BY <1>1
      <3>2. Change(c, {}, {"context"}, {"context", "stream", Result(c)})
        BY <2>1, <3>1 DEF CancelSendResponse
      <3> QED
        BY <2>1, <3>1, <3>2 DEF CancelSendResponse
    <2>2. CASE Change(c, {}, {"context", "stream", Result(c)}, {"context", "stream", Result(c)})
               /\ UNCHANGED spoilt
      <3>1. {"context", "stream", Result(c)} \in SUBSET {"context", "stream", Result(c)}
        OBVIOUS
      <3> QED
        BY <2>2, <3>1
    <2> QED
      BY <2>1, <2>2 DEF EndSendResponse
  <1>4. PICK used \in SUBSET {"context", "stream", Result(c)} :
          Change(c, {}, used, {"context", "stream", Result(c)})
    BY <1>3
  <1>5. Fits(to, After(objects[c], {}, used, {"context", "stream", Result(c)}), spoilt'[c])
    BY <1>2, EndedReturning DEF Fits
  <1> QED
    BY <1>1, <1>3, <1>4, <1>5, SpoilsOne, ChangeKeeps

\* An answer that begins: with a response, a fault or nothing.
LEMMA StartKeeps ==
    ASSUME ObjectsKnown, NEW c \in Calls, Taking(objects[c]),
           NEW to \in {"answering", "sending"}, Goes(c, to), UNCHANGED spoilt,
           NEW answer \in {"response", "fault"}, NEW used \in SUBSET {"context", "request"},
           Change(c, {answer}, used, {})
    PROVE  ObjectsType' /\ ObjectsInv'
  <1>1. to \in Stages
    BY DEF Stages, Working, Handled
  <1>2. Fits(to, After(objects[c], {answer}, used, {}), spoilt'[c])
    BY StartedAnswering DEF Fits
  <1> QED
    BY <1>1, <1>2, ChangeKeeps

LEMMA FaultKeeps ==
    ASSUME ObjectsKnown, NEW c \in Calls, Gone = {}, Taking(objects[c]),
           NEW fails \in {"returning", "leaving"}, NEW goesOn \in {"answering", "sending"},
           StartFault(c, fails, goesOn)
    PROVE  ObjectsType' /\ ObjectsInv'
  <1>1. CASE Change(c, {"fault"}, {"context", "request"}, {}) /\ Goes(c, goesOn) /\ UNCHANGED spoilt
    BY <1>1, StartKeeps
  <1>2. CASE CancelSendResponse(c, {}) /\ Goes(c, fails)
    BY <1>2, CancelKeeps
  <1>3. CASE UNCHANGED objects /\ Goes(c, fails) /\ Spoils(c, {"answer", "objects"})
    <2>1. "objects" \in spoilt'[c] /\ \A d \in Calls : d # c => spoilt'[d] = spoilt[d]
      BY <1>3, SpoilsOne
    <2>2. Returning(objects[c], spoilt'[c])
      BY <2>1 DEF Taking, Returning, Left, Objects
    <2>3. Fits(fails, objects[c], spoilt'[c]) /\ fails \in Stages
      BY <2>2 DEF Fits, Stages, Working, Handled
    <2> QED
      BY <1>3, <2>1, <2>3, StageKeeps
  <1> QED
    BY <1>1, <1>2, <1>3 DEF StartFault

\* The objects are as they should be where the server is with a request, and the endpoint
\* is there as long as it works on it.
LEMMA StageShape ==
    ASSUME SoundInv, NEW c \in Calls
    PROVE  /\ ObjectsKnown
           /\ Fits(handler[c], objects[c], spoilt[c])
           /\ handler[c] \notin {"none", "done"} => Gone = {}
           /\ handler[c] \in Locked \cup {"composing", "sending"} => Open
  BY DEF SoundInv, IInv, CallsInv, ServerInv, ObjectsKnown, ObjectsInv, EndInv, LockInv,
         ShutdownInv, Gone, Open

\* Steps up to the call of the service.
LEMMA ObjectsArrive ==
    ASSUME SoundInv, NEW c \in Calls, Receive(c) \/ Fetch(c) \/ Reject(c) \/ BeginProcessRequest(c)
    PROVE  ObjectsType' /\ ObjectsInv'
  <1>1. ObjectsKnown /\ Fresh(objects[c])
    BY StageShape DEF Receive, Fetch, Reject, BeginProcessRequest, Fits
  <1>2. \A to \in {"queued", "waiting", "begun", "done"} : to \in Stages
    BY DEF Stages, Working
  <1>3. CASE Receive(c) \/ Fetch(c)
    <2>1. PICK to \in {"queued", "waiting"} : Goes(c, to)
      BY <1>3 DEF Receive, Fetch
    <2>2. UNCHANGED << objects, spoilt >>
      BY <1>3 DEF Receive, Fetch
    <2>3. Fits(to, objects[c], spoilt'[c])
      BY <1>1 DEF Fits
    <2> QED
      BY <1>1, <1>2, <2>1, <2>2, <2>3, StageKeeps
  <1>4. CASE Reject(c)
    <2>1. PICK created \in {{}, {"context"}, {"context", "request"}} : Change(c, created, {}, created)
      BY <1>4 DEF Reject
    <2>2. Goes(c, "done") /\ \A d \in Calls : d # c => spoilt'[d] = spoilt[d]
      BY <1>1, <1>4, SpoilsOne DEF Reject
    <2>3. Left(After(objects[c], created, {}, created), {}, spoilt'[c])
      BY <1>1, RejectedLeft
    <2>4. Fits("done", After(objects[c], created, {}, created), spoilt'[c])
      BY <2>3 DEF Fits
    <2> QED
      BY <1>1, <1>2, <2>1, <2>2, <2>4, ChangeKeeps
  <1>5. CASE BeginProcessRequest(c)
    <2>1. Goes(c, "begun") /\ UNCHANGED spoilt
          /\ Change(c, {"context", "request", "stream"}, {}, {})
      BY <1>5 DEF BeginProcessRequest
    <2>2. Fits("begun", After(objects[c], {"context", "request", "stream"}, {}, {}), spoilt'[c])
      BY <1>1, BegunTaking DEF Fits
    <2> QED
      BY <1>1, <1>2, <2>1, <2>2, ChangeKeeps
  <1> QED
    BY <1>3, <1>4, <1>5

\* Steps that make the answer.
LEMMA ObjectsBegin ==
    ASSUME SoundInv, NEW c \in Calls, BeginInvoke(c) \/ BeginTestStack(c) \/ Compose(c)
    PROVE  ObjectsType' /\ ObjectsInv'
  <1>1. ObjectsKnown /\ Taking(objects[c]) /\ Gone = {}
    BY StageShape DEF BeginInvoke, BeginTestStack, Compose, Fits
  <1>2. {"context", "request"} \in SUBSET {"context", "request"}
        /\ {"context"} \in SUBSET {"context", "request"}
    OBVIOUS
  <1>3. CASE BeginInvoke(c)
    <2>1. \/ CancelSendResponse(c, {}) /\ Goes(c, "returning")
          \/ /\ Goes(c, "answering") /\ UNCHANGED spoilt
             /\ \E answer \in {"response", "fault"} : Change(c, {answer}, {"context", "request"}, {})
      BY <1>3 DEF BeginInvoke
    <2> QED
      BY <1>1, <1>2, <2>1, CancelKeeps, StartKeeps
  <1>4. CASE BeginTestStack(c)
    <2>1. \/ Goes(c, "later") /\ UNCHANGED << objects, spoilt >>
          \/ Goes(c, "done") /\ Spoils(c, {"answer", "objects"}) /\ UNCHANGED objects
          \/ StartFault(c, "returning", "answering")
      BY <1>4 DEF BeginTestStack
    <2>2. CASE Goes(c, "later") /\ UNCHANGED << objects, spoilt >>
      <3>1. Fits("later", objects[c], spoilt'[c]) /\ "later" \in Stages
        BY <1>1 DEF Fits, Stages, Handled
      <3> QED
        BY <1>1, <2>2, <3>1, StageKeeps
    <2>3. CASE Goes(c, "done") /\ Spoils(c, {"answer", "objects"}) /\ UNCHANGED objects
      <3>1. "objects" \in spoilt'[c] /\ \A d \in Calls : d # c => spoilt'[d] = spoilt[d]
        BY <1>1, <2>3, SpoilsOne
      <3>2. Left(objects[c], {}, spoilt'[c])
        BY <1>1, <3>1 DEF Taking, Left, Objects
      <3>3. Fits("done", objects[c], spoilt'[c]) /\ "done" \in Stages
        BY <3>2 DEF Fits, Stages
      <3> QED
        BY <1>1, <2>3, <3>1, <3>3, StageKeeps
    <2>4. CASE StartFault(c, "returning", "answering")
      BY <1>1, <2>4, FaultKeeps
    <2> QED
      BY <2>1, <2>2, <2>3, <2>4
  <1>5. CASE Compose(c)
    <2>1. \/ Change(c, {"response"}, {"context"}, {}) /\ Goes(c, "sending") /\ UNCHANGED spoilt
          \/ StartFault(c, "leaving", "sending")
      BY <1>5 DEF Compose
    <2> QED
      BY <1>1, <1>2, <2>1, StartKeeps, FaultKeeps
  <1> QED
    BY <1>3, <1>4, <1>5

\* Steps that end it.
LEMMA ObjectsEnd ==
    ASSUME SoundInv, NEW c \in Calls,
           Respond(c) \/ Return(c) \/ DoAsyncResponse(c) \/ Cancel(c) \/ Send(c) \/ Leave(c)
    PROVE  ObjectsType' /\ ObjectsInv'
  <1>1. ObjectsKnown
    BY StageShape
  <1>2. CASE Respond(c)
    <2>1. Open /\ Answering(objects[c])
      BY <1>2, StageShape DEF Respond, Fits, Locked
    <2> QED
      BY <1>1, <1>2, <2>1, EndKeeps DEF Respond
  <1>3. CASE Send(c)
    <2>1. Open /\ Answering(objects[c])
      BY <1>3, StageShape DEF Send, Fits
    <2> QED
      BY <1>1, <1>3, <2>1, EndKeeps DEF Send
  <1>4. CASE Cancel(c)
    <2>1. Gone = {} /\ Taking(objects[c])
      BY <1>4, StageShape DEF Cancel, Fits
    <2> QED
      BY <1>1, <1>4, <2>1, CancelKeeps DEF Cancel
  <1>5. CASE DoAsyncResponse(c)
    <2>1. UNCHANGED << objects, spoilt >> /\ \E to \in {"cancelling", "composing"} : Goes(c, to)
      BY <1>5 DEF DoAsyncResponse
    <2>2. \A to \in {"cancelling", "composing"} : to \in Stages /\ Fits(to, objects[c], spoilt[c])
      BY <1>5, StageShape DEF DoAsyncResponse, Fits, Stages, Handled
    <2> QED
      BY <1>1, <2>1, <2>2, StageKeeps
  <1>6. CASE Return(c) \/ Leave(c)
    <2>1. Change(c, {}, {}, {"request"}) /\ Goes(c, "done") /\ UNCHANGED spoilt
      BY <1>6 DEF Return, Leave
    <2>2. Returning(objects[c], spoilt[c])
      BY <1>6, StageShape DEF Return, Leave, Fits
    <2>3. Left(After(objects[c], {}, {}, {"request"}), {}, spoilt'[c])
      BY <2>1, <2>2, ReturnedLeft
    <2>4. Fits("done", After(objects[c], {}, {}, {"request"}), spoilt'[c]) /\ "done" \in Stages
      BY <2>3 DEF Fits, Stages
    <2> QED
      BY <1>1, <2>1, <2>4, ChangeKeeps
  <1> QED
    BY <1>2, <1>3, <1>4, <1>5, <1>6

\* An endpoint that is not deleted in haste is deleted when no request is left, and takes
\* none from then on.
LEMMA EndInvStep == HandlerType /\ EndInv /\ ~Hasty /\ [Next]_vars => EndInv'
  <1> SUFFICES ASSUME HandlerType, EndInv, ~Hasty, [Next]_vars PROVE EndInv'
    OBVIOUS
  <1>1. ASSUME NEW c \in Calls, Receive(c) \/ Process(c)
        PROVE  server' = server /\ server \notin {"deleting", "deleted"}
    <2>1. handler[c] \notin {"none", "done"} \/ Receive(c)
      BY <1>1 DEF Process, Fetch, Reject, BeginProcessRequest, BeginInvoke, Respond, Return,
                  BeginTestStack, DoAsyncResponse, Cancel, Compose, Send, Leave
    <2>2. server' = server
      BY <1>1 DEF Receive, Process, Fetch, Reject, BeginProcessRequest, BeginInvoke, Respond, Return,
                  BeginTestStack, DoAsyncResponse, Cancel, Compose, Send, Leave
    <2> QED
      BY <2>1, <2>2 DEF Receive, EndInv
  <1>2. CASE Serve
    <2>1. handler' = handler
      BY <1>2 DEF Serve, Stop, WaitShutdown, Close, Closed, Delete, Deleted, serverVars
    <2> QED
      BY <1>2, <2>1 DEF Serve, Stop, WaitShutdown, Close, Closed, Delete, Deleted, ServerGoes, EndInv
  <1>3. CASE UNCHANGED << handler, server >>
    BY <1>3 DEF EndInv
  <1>4. ASSUME NEW c \in Calls, CallerStep(c)
        PROVE  UNCHANGED << handler, server >>
    BY <1>4 DEF CallerStep, Sends, Invoke, Begin, Complete, CallBack, Fail, serverVars
  <1>5. UNCHANGED vars => UNCHANGED << handler, server >>
    BY DEF vars, serverVars
  <1> QED
    BY <1>1, <1>2, <1>3, <1>4, <1>5 DEF Next, EndInv

LEMMA SoundInvStep == SoundInv /\ ~Hasty /\ [Next]_vars => SoundInv'
  <1> SUFFICES ASSUME SoundInv, ~Hasty, [Next]_vars PROVE SoundInv'
    OBVIOUS
  <1>1. IInv' /\ EndInv'
    BY IInvStep, EndInvStep DEF SoundInv, IInv, CallsInv
  <1>2. ASSUME NEW c \in Calls, Receive(c) \/ Process(c) PROVE ObjectsType' /\ ObjectsInv'
    <2>1. CASE Receive(c) \/ Fetch(c) \/ Reject(c) \/ BeginProcessRequest(c)
      BY <2>1, ObjectsArrive
    <2>2. CASE BeginInvoke(c) \/ BeginTestStack(c) \/ Compose(c)
      BY <2>2, ObjectsBegin
    <2>3. CASE Respond(c) \/ Return(c) \/ DoAsyncResponse(c) \/ Cancel(c) \/ Send(c) \/ Leave(c)
      BY <2>3, ObjectsEnd
    <2> QED
      BY <1>2, <2>1, <2>2, <2>3 DEF Process
  <1>3. CASE UNCHANGED << handler, objects, spoilt >>
    <2>1. handler' = handler /\ objects' = objects /\ spoilt' = spoilt
      BY <1>3
    <2>2. ASSUME NEW c \in Calls PROVE Fits(handler'[c], objects'[c], spoilt'[c])
      BY <2>1 DEF SoundInv, ObjectsInv
    <2> QED
      BY <1>1, <2>1, <2>2 DEF SoundInv, ObjectsType, ObjectsInv
  <1>4. ASSUME NEW c \in Calls, CallerStep(c)
        PROVE  UNCHANGED << handler, objects, spoilt >>
    BY <1>4 DEF CallerStep, Sends, Invoke, Begin, Complete, CallBack, Fail, serverVars
  <1>5. Serve => UNCHANGED << handler, objects, spoilt >>
    BY DEF Serve, Stop, WaitShutdown, Close, Closed, Delete, Deleted, serverVars
  <1>6. UNCHANGED vars => UNCHANGED << handler, objects, spoilt >>
    BY DEF vars, serverVars
  <1> QED
    BY <1>1, <1>2, <1>3, <1>4, <1>5, <1>6 DEF Next, SoundInv

LEMMA InitSoundInv == Init => SoundInv
  <1> SUFFICES ASSUME Init PROVE SoundInv
    OBVIOUS
  <1>1. ObjectsType
    BY DEF Init, ObjectsType, Lives
  <1>2. \A c \in Calls : handler[c] = "none" /\ Fresh(objects[c])
    BY DEF Init, Fresh
  <1>3. ObjectsInv
    BY <1>2 DEF ObjectsInv, Fits
  <1>4. EndInv
    BY <1>2 DEF EndInv
  <1> QED
    BY <1>1, <1>3, <1>4, InitIInv DEF SoundInv

\* When the endpoint is deleted only after its last request, the server never uses or
\* deletes an object that is not there, whatever fails and whenever it is stopped, and a
\* request it is done with leaves nothing but what the sample server gives up.
THEOREM ObjectsHold == ~Hasty /\ Spec => []ObjectsSound
  <1>1. SoundInv => ObjectsSound
    <2> SUFFICES ASSUME SoundInv, NEW c \in Calls
                 PROVE  /\ \A o \in Objects : objects[c][o] # "misused"
                        /\ handler[c] = "done" /\ "objects" \notin spoilt[c] =>
                             \A o \in Objects : objects[c][o] # "live"
      BY DEF ObjectsSound
    <2>1. Fits(handler[c], objects[c], spoilt[c]) /\ handler[c] \in Stages
      BY DEF SoundInv, IInv, CallsInv, HandlerType, ObjectsInv
    <2>2. Fresh(objects[c]) \/ Taking(objects[c]) \/ Answering(objects[c])
          \/ Returning(objects[c], spoilt[c]) \/ Left(objects[c], {}, spoilt[c])
      BY <2>1 DEF Fits, Stages, Working, Handled
    <2>3. \A o \in Objects : objects[c][o] # "misused"
      BY <2>2 DEF Fresh, Taking, Answering, Returning, Left, Objects
    <2>4. handler[c] = "done" => Left(objects[c], {}, spoilt[c])
      BY <2>1 DEF Fits
    <2> QED
      BY <2>3, <2>4 DEF Left
  <1>2. CASE Hasty
    BY <1>2
  <1>3. CASE ~Hasty
    <2>1. SoundInv /\ [Next]_vars => SoundInv'
      BY <1>3, SoundInvStep
    <2>2. Spec => []ObjectsSound
      BY <1>1, <2>1, InitSoundInv, PTL DEF Spec
    <2> QED
      BY <2>2
  <1> QED
    BY <1>2, <1>3

-----------------------------------------------------------------------------
(* Types.                                                                   *)

OthersType ==
  /\ service \in Offered /\ pool \in ThreadPools
  /\ caller \in [Calls -> {"idle", "waiting", "called", "returned"}]
  /\ found \in [Calls -> Supported \cup {"none"}]
  /\ lock \in Calls \cup {NoCall, "Delete"}
  /\ server \in {"serving", "stopping", "stopped", "closing", "closed", "deleting", "deleted"}

\* A step creates, uses and deletes objects of one request, or none.
LEMMA ObjectsStep == ObjectsType /\ [Next]_vars => ObjectsType'
  <1> SUFFICES ASSUME ObjectsType, [Next]_vars PROVE ObjectsType'
    OBVIOUS
  <1>1. ASSUME NEW c \in Calls, NEW created, NEW used, NEW deleted, Change(c, created, used, deleted)
        PROVE  ObjectsType'
    <2>1. After(objects[c], created, used, deleted) \in [Objects -> Lives]
      BY AfterType DEF ObjectsType
    <2> QED
      BY <1>1, <2>1 DEF Change, ObjectsType
  <1>2. CASE UNCHANGED objects
    BY <1>2 DEF ObjectsType
  <1>3. ASSUME NEW c \in Calls, NEW others, CancelSendResponse(c, others) PROVE ObjectsType'
    BY <1>1, <1>3 DEF CancelSendResponse
  <1>4. ASSUME NEW c \in Calls, NEW m, NEW o, EndSendResponse(c, m, o) PROVE ObjectsType'
    BY <1>1, <1>3, <1>4 DEF EndSendResponse
  <1>5. ASSUME NEW c \in Calls, NEW fails, NEW goesOn, StartFault(c, fails, goesOn) PROVE ObjectsType'
    BY <1>1, <1>2, <1>3, <1>5 DEF StartFault
  <1>6. ASSUME NEW c \in Calls, Process(c) PROVE ObjectsType'
    <2>1. CASE Fetch(c) \/ DoAsyncResponse(c)
      BY <1>2, <2>1 DEF Fetch, DoAsyncResponse
    <2>2. CASE Reject(c) \/ BeginProcessRequest(c) \/ Return(c) \/ Leave(c)
      BY <1>1, <2>2 DEF Reject, BeginProcessRequest, Return, Leave
    <2>3. CASE Respond(c) \/ Send(c)
      BY <1>4, <2>3 DEF Respond, Send
    <2>4. CASE BeginInvoke(c) \/ Cancel(c)
      BY <1>1, <1>3, <2>4 DEF BeginInvoke, Cancel
    <2>5. CASE BeginTestStack(c) \/ Compose(c)
      BY <1>1, <1>2, <1>5, <2>5 DEF BeginTestStack, Compose
    <2> QED
      BY <1>6, <2>1, <2>2, <2>3, <2>4, <2>5 DEF Process
  <1>7. ASSUME NEW c \in Calls, CallerStep(c) \/ Receive(c) PROVE UNCHANGED objects
    BY <1>7 DEF CallerStep, Sends, Invoke, Begin, Complete, CallBack, Fail, Receive, serverVars
  <1>8. Serve => UNCHANGED objects
    BY DEF Serve, Stop, WaitShutdown, Close, Closed, Delete, Deleted, serverVars
  <1>9. UNCHANGED vars => UNCHANGED objects
    BY DEF vars, serverVars
  <1> QED
    BY <1>2, <1>6, <1>7, <1>8, <1>9 DEF Next

LEMMA OthersStep == OthersType /\ [Next]_vars => OthersType'
  <1> SUFFICES ASSUME OthersType, [Next]_vars PROVE OthersType'
    OBVIOUS
  <1>1. CASE UNCHANGED << service, pool, caller, found, lock, server >>
    BY <1>1 DEF OthersType
  <1>2. ASSUME NEW c \in Calls, Process(c) \/ Receive(c)
        PROVE  /\ UNCHANGED << callerVars, server >>
               /\ lock' \in Calls \cup {NoCall, "Delete"}
               /\ UNCHANGED found \/ \E s \in Supported : found' = [found EXCEPT ![c] = s]
    BY <1>2 DEF OthersType, Process, Receive, Fetch, Reject, BeginProcessRequest, FindService,
         BeginInvoke, Respond, Return, BeginTestStack, DoAsyncResponse, Cancel, Compose, Send, Leave
  <1>3. ASSUME NEW c \in Calls, Process(c) \/ Receive(c) PROVE OthersType'
    BY <1>2, <1>3 DEF OthersType, callerVars
  <1>4. ASSUME NEW c \in Calls, CallerStep(c) PROVE OthersType'
    <2>1. \E to \in {"waiting", "called", "returned"} : caller' = [caller EXCEPT ![c] = to]
      BY <1>4 DEF CallerStep, Sends, Invoke, Begin, Complete, CallBack, Fail
    <2>2. UNCHANGED << service, pool, found, lock, server >>
      BY <1>4 DEF CallerStep, Sends, Invoke, Begin, Complete, CallBack, Fail, serverVars
    <2> QED
      BY <2>1, <2>2 DEF OthersType
  <1>5. CASE Serve
    BY <1>5 DEF OthersType, Serve, Stop, WaitShutdown, Close, Closed, Delete, Deleted, ServerGoes,
         callerVars, serverVars
  <1>6. UNCHANGED vars => UNCHANGED << service, pool, caller, found, lock, server >>
    BY DEF vars, callerVars, serverVars
  <1> QED
    BY <1>1, <1>3, <1>4, <1>5, <1>6 DEF Next

\* Every variable keeps its type, and no more timers are inside their callback than there
\* are calls.
THEOREM TypeCorrect == Spec => []TypeOK
  <1> DEFINE Inv == IInv /\ ObjectsType /\ OthersType
  <1>1. Init => Inv
    <2> SUFFICES ASSUME Init PROVE ObjectsType /\ OthersType
      BY InitIInv
    <2>1. ObjectsType
      BY InitSoundInv DEF SoundInv
    <2>2. OthersType
      BY DEF Init, OthersType
    <2> QED
      BY <2>1, <2>2
  <1>2. Inv /\ [Next]_vars => Inv'
    BY IInvStep, ObjectsStep, OthersStep
  <1>3. Inv => TypeOK
    <2> SUFFICES ASSUME Inv PROVE TypeOK
      OBVIOUS
    <2>1. blocked \in 0 .. Cardinality(Calls)
      <3>1. Blockers \subseteq Calls /\ IsFiniteSet(Calls) /\ blocked = Cardinality(Blockers)
        BY ServiceAssumption DEF Blockers, IInv, ServerInv, ShutdownInv
      <3> QED
        BY <3>1, FS_Subset, FS_CardinalityType
    <2>2. handler \in [Calls -> {"none", "queued", "done"} \cup Working \cup Handled]
      BY DEF IInv, CallsInv, HandlerType, Stages
    <2>3. spoilt \in [Calls -> SUBSET {"answer", "objects"}]
      BY DEF IInv, CallsInv, AnswersType
    <2>4. objects \in [Calls -> [Objects -> {"none", "live", "freed", "misused"}]]
      BY DEF ObjectsType, Lives
    <2> QED
      BY <2>1, <2>2, <2>3, <2>4 DEF OthersType, TypeOK
  <1> QED
    BY <1>1, <1>2, <1>3, PTL DEF Spec

-----------------------------------------------------------------------------
(* What arrives.                                                            *)

Row(c) == Functions[service[c]]
Response(c) == Message(Row(c).response, Filled(Row(c).results))
Nothing(fields) == [k \in DOMAIN fields |-> Unset]
FaultResults(fields) == [k \in DOMAIN fields |-> IF k = 1 THEN Header ELSE Unset]

\* A caller sent the request of its service; nobody works on a request that was not sent.
AskedInv ==
  \A c \in Calls :
    IF caller[c] = "idle" THEN request[c] = NoMessage /\ handler[c] = "none"
    ELSE /\ service[c] \in DOMAIN Functions
         /\ request[c] = Message(Row(c).request, Filled(Row(c).arguments))

\* The context of a request keeps the entry of its service.
Entered == {"begun", "answering"} \cup Handled
FoundInv ==
  \A c \in Calls : handler[c] \in Entered =>
    /\ caller[c] # "idle"
    /\ found[c] \in DOMAIN ServiceTypes /\ ServiceTypes[found[c]].request = Row(c).request

\* The function that implements the service has the caller's values.
GivenInv ==
  \A c \in Calls : arguments[c] # << >> => arguments[c] = InOrder(Len(Row(c).arguments))

\* What was sent is the response of the service or a fault.
Right(c, message) == caller[c] # "idle" /\ message \in {Fault, Response(c)}
SentInv == \A c \in Calls : \A m : answers[c] = << m >> => Right(c, m)

\* What a caller got is what was sent.
Received(c) ==
  \/ outcome[c].results = << >>
  \/ outcome[c].status = "Good" /\ outcome[c].results = InOrder(Len(Row(c).results))
  \/ /\ outcome[c].status = "Good" /\ outcome[c].results = FaultResults(Row(c).results)
     /\ answers[c] = << Fault >>
OutcomeInv ==
  \A c \in Calls : Received(c) /\ outcome[c].given \in {NoMessage, Fault, Response(c)}

DataType ==
  /\ caller = [c \in Calls |-> caller[c]] /\ request = [c \in Calls |-> request[c]]
  /\ outcome = [c \in Calls |-> outcome[c]] /\ found = [c \in Calls |-> found[c]]
  /\ arguments = [c \in Calls |-> arguments[c]] /\ service \in Offered

DataInv == DataType /\ AskedInv /\ FoundInv /\ GivenInv /\ SentInv /\ OutcomeInv

-----------------------------------------------------------------------------
(* Lemmas about messages.                                                   *)

\* Fields without repetitions give every parameter its own value back.
LEMMA TakenFilled ==
    ASSUME NEW fields, NEW message, Names(fields, message)
    PROVE  Taken(fields, Filled(fields)) = InOrder(Len(fields))
  <1>1. fields \in Seq(STRING) /\ DOMAIN fields = 1 .. Len(fields)
    BY DEF Names
  <1>2. \A k \in DOMAIN fields : (CHOOSE j \in DOMAIN fields : fields[j] = fields[k]) = k
    BY DEF Names
  <1>3. \A k \in DOMAIN fields : fields[k] \in DOMAIN Filled(fields) /\ Filled(fields)[fields[k]] = k
    BY <1>2 DEF Filled
  <1>4. Taken(fields, Filled(fields)) = [k \in DOMAIN fields |-> k]
    BY <1>3 DEF Taken
  <1> QED
    BY <1>1, <1>4 DEF InOrder

\* A message that is filled from fields without repetitions is whole.
LEMMA FilledWhole ==
    ASSUME NEW fields, NEW message, Names(fields, message)
    PROVE  Cardinality(DOMAIN Filled(fields)) = NumberOfFields[message]
  <1> DEFINE R == {fields[k] : k \in DOMAIN fields}
             n == Len(fields)
  <1>1. fields \in Seq(STRING) /\ DOMAIN fields = 1 .. n /\ n \in Nat
    BY DEF Names
  <1>2. fields \in Bijection(1 .. n, R)
    <2>1. fields \in [1 .. n -> R]
      BY <1>1
    <2>2. \A i, j \in 1 .. n : fields[i] = fields[j] => i = j
      BY <1>1 DEF Names
    <2>3. \A r \in R : \E k \in 1 .. n : fields[k] = r
      BY <1>1
    <2> QED
      BY <2>1, <2>2, <2>3 DEF Bijection, Injection, Surjection, IsInjective
  <1>3. ExistsBijection(1 .. n, R)
    BY <1>2 DEF ExistsBijection
  <1>4. Cardinality(R) = n
    BY <1>1, <1>3, FS_CountingElements
  <1>5. DOMAIN Filled(fields) = R
    BY DEF Filled
  <1> QED
    BY <1>4, <1>5 DEF Names

\* The tables, for one service.
LEMMA TableOf ==
    ASSUME NEW s \in DOMAIN Functions
    PROVE  /\ Names(Functions[s].arguments, Functions[s].request)
           /\ Names(Functions[s].results, Functions[s].response)
           /\ Functions[s].response # "ServiceFault"
           /\ \A e \in DOMAIN ServiceTypes :
                ServiceTypes[e].request = Functions[s].request => ServiceTypes[e] = Functions[s]
  BY TablesAgree

\* A caller reads the response of its service and a fault.
LEMMA OutcomeOfResponse ==
    ASSUME NEW s \in DOMAIN Functions
    PROVE  LET row == Functions[s] IN
           Outcome(row, Message(row.response, Filled(row.results)))
             = Got("Good", InOrder(Len(row.results)), NoMessage)
  BY TableOf, TakenFilled DEF Outcome, Message

LEMMA OutcomeOfFault ==
    ASSUME NEW row
    PROVE  Outcome(row, Fault) = Got("Good", FaultResults(row.results), NoMessage)
  <1>1. Fault.type = "ServiceFault" /\ Fault.body.ResponseHeader = Header
    BY DEF Fault, Message
  <1>2. [Nothing(row.results) EXCEPT ![1] = Header] = FaultResults(row.results)
    BY DEF Nothing, FaultResults
  <1> QED
    BY <1>1, <1>2 DEF Outcome, Nothing

LEMMA FaultWhole == Cardinality(DOMAIN Fault.body) = NumberOfFields[Fault.type]
  <1>1. DOMAIN Fault.body = {"ResponseHeader"} /\ Fault.type = "ServiceFault"
    BY DEF Fault, Message
  <1> QED
    BY <1>1, FS_Singleton, TablesAgree

-----------------------------------------------------------------------------
(* The steps of a caller.                                                   *)

LEMMA InitDataInv == Init => DataInv
  <1> SUFFICES ASSUME Init PROVE DataInv
    OBVIOUS
  <1>1. DataType
    BY DEF Init, DataType
  <1>2. AskedInv /\ FoundInv /\ GivenInv
    BY DEF Init, AskedInv, FoundInv, GivenInv, Entered, Handled
  <1>3. SentInv
    BY DEF Init, SentInv
  <1>4. OutcomeInv
    BY DEF Init, OutcomeInv, Received, Got
  <1> QED
    BY <1>1, <1>2, <1>3, <1>4 DEF DataInv

\* A caller that sends its request.
LEMMA SendsKeeps ==
    ASSUME DataInv, NEW c \in Calls, NEW there, there # "idle", Sends(c, there)
    PROVE  DataInv'
  <1>1. /\ UNCHANGED << service, outcome, handler, found, arguments, answers >>
        /\ \A d \in Calls : caller'[d] = IF d = c THEN there ELSE caller[d]
        /\ \A d \in Calls : request'[d] =
             IF d = c THEN Message(Row(c).request, Filled(Row(c).arguments)) ELSE request[d]
        /\ DataType'
    BY DEF DataInv, DataType, Sends, serverVars, Row
  <1>2. service[c] \in DOMAIN Functions
    BY ServiceAssumption DEF DataInv, DataType, Sends
  <1>3. \A d \in Calls : Row(d)' = Row(d) /\ Response(d)' = Response(d)
    BY <1>1 DEF Row, Response
  <1>4. AskedInv'
    BY <1>1, <1>2, <1>3 DEF DataInv, AskedInv
  <1>5. FoundInv' /\ GivenInv'
    BY <1>1, <1>3 DEF DataInv, FoundInv, GivenInv
  <1>6. SentInv'
    BY <1>1, <1>3 DEF DataInv, SentInv, Right
  <1>7. OutcomeInv'
    BY <1>1, <1>3 DEF DataInv, OutcomeInv, Received
  <1> QED
    BY <1>1, <1>4, <1>5, <1>6, <1>7 DEF DataInv

\* A caller that gets what was sent, or nothing.
LEMMA EndsKeeps ==
    ASSUME DataInv, NEW c \in Calls, NEW got,
           caller[c] # "idle", caller' = [caller EXCEPT ![c] = "returned"],
           outcome' = [outcome EXCEPT ![c] = got],
           \/ got.results = << >>
           \/ got.status = "Good" /\ got.results = InOrder(Len(Row(c).results))
           \/ /\ got.status = "Good" /\ got.results = FaultResults(Row(c).results)
              /\ answers[c] = << Fault >>,
           got.given \in {NoMessage, Fault, Response(c)},
           UNCHANGED << service, request, serverVars >>
    PROVE  DataInv'
  <1>1. /\ UNCHANGED << service, request, handler, found, arguments, answers >>
        /\ \A d \in Calls : caller'[d] = IF d = c THEN "returned" ELSE caller[d]
        /\ \A d \in Calls : outcome'[d] = IF d = c THEN got ELSE outcome[d]
        /\ DataType'
    BY DEF DataInv, DataType, serverVars
  <1>2. \A d \in Calls : Row(d)' = Row(d) /\ Response(d)' = Response(d)
    BY <1>1 DEF Row, Response
  <1>3. AskedInv'
    BY <1>1, <1>2 DEF DataInv, AskedInv
  <1>4. FoundInv' /\ GivenInv'
    BY <1>1, <1>2 DEF DataInv, FoundInv, GivenInv
  <1>5. SentInv'
    BY <1>1, <1>2 DEF DataInv, SentInv, Right
  <1>6. OutcomeInv'
    BY <1>1, <1>2 DEF DataInv, OutcomeInv, Received
  <1> QED
    BY <1>1, <1>3, <1>4, <1>5, <1>6 DEF DataInv

LEMMA DataCaller ==
    ASSUME CallsInv, DataInv, NEW c \in Calls, CallerStep(c)
    PROVE  DataInv'
  <1>1. CASE Invoke(c) \/ Begin(c)
    BY <1>1, SendsKeeps DEF Invoke, Begin
  <1>2. ASSUME answers[c] # << >>
        PROVE  answers[c] = << Head(answers[c]) >> /\ Head(answers[c]) \in {Fault, Response(c)}
    <2>1. PICK m : answers[c] = << m >>
      BY <1>2 DEF CallsInv, AnswersInv, Settled, Unanswered
    <2>2. Head(answers[c]) = m
      BY <2>1
    <2> QED
      BY <2>1, <2>2 DEF DataInv, SentInv, Right
  <1>3. CASE Complete(c)
    <2> DEFINE got == Outcome(Row(c), Head(answers[c]))
    <2>1. /\ caller[c] # "idle" /\ answers[c] # << >> /\ caller' = [caller EXCEPT ![c] = "returned"]
          /\ outcome' = [outcome EXCEPT ![c] = got] /\ UNCHANGED << service, request, serverVars >>
      BY <1>3 DEF Complete, Row
    <2>2. service[c] \in DOMAIN Functions
      BY <2>1 DEF DataInv, AskedInv
    <2>3. \/ got = Got("Good", InOrder(Len(Row(c).results)), NoMessage)
          \/ got = Got("Good", FaultResults(Row(c).results), NoMessage) /\ answers[c] = << Fault >>
      BY <1>2, <2>1, <2>2, OutcomeOfResponse, OutcomeOfFault DEF Row, Response
    <2> HIDE DEF got
    <2> QED
      BY <2>1, <2>3, EndsKeeps DEF Got
  <1>4. CASE CallBack(c)
    <2> DEFINE got == Got("Good", << >>, Head(answers[c]))
    <2>1. got.results = << >> /\ got.given \in {NoMessage, Fault, Response(c)}
      BY <1>2, <1>4 DEF CallBack, Got
    <2>2. /\ caller[c] # "idle" /\ caller' = [caller EXCEPT ![c] = "returned"]
          /\ outcome' = [outcome EXCEPT ![c] = got] /\ UNCHANGED << service, request, serverVars >>
      BY <1>4 DEF CallBack
    <2> HIDE DEF got
    <2> QED
      BY <2>1, <2>2, EndsKeeps
  <1>5. CASE Fail(c)
    <2> DEFINE got == Got("Bad", << >>, NoMessage)
    <2>1. got.results = << >> /\ got.given = NoMessage
      BY DEF Got
    <2>2. /\ caller[c] # "idle" /\ caller' = [caller EXCEPT ![c] = "returned"]
          /\ outcome' = [outcome EXCEPT ![c] = got] /\ UNCHANGED << service, request, serverVars >>
      BY <1>5 DEF Fail
    <2> HIDE DEF got
    <2> QED
      BY <2>1, <2>2, EndsKeeps
  <1> QED
    BY <1>1, <1>3, <1>4, <1>5 DEF CallerStep

-----------------------------------------------------------------------------
(* The steps of the server.                                                 *)

\* A step of the server that finds the entry of the request's service, gives the function
\* the caller's values and answers once and with the right message, if it does any of it.
LEMMA ServerKeeps ==
    ASSUME CallsInv, DataInv, NEW c \in Calls, NEW to, Goes(c, to),
           caller[c] # "idle", UNCHANGED callerVars,
           found' = [d \in Calls |-> found'[d]], \A d \in Calls : d # c => found'[d] = found[d],
           to \in Entered =>
             found'[c] \in DOMAIN ServiceTypes /\ ServiceTypes[found'[c]].request = Row(c).request,
           \/ UNCHANGED arguments
           \/ arguments' = [arguments EXCEPT ![c] = InOrder(Len(Row(c).arguments))],
           \/ UNCHANGED answers
           \/ answers[c] = << >> /\ \E m \in {Fault, Response(c)} : answers' = [answers EXCEPT ![c] = << m >>]
    PROVE  DataInv'
  <1>1. /\ UNCHANGED << service, caller, request, outcome >>
        /\ \A d \in Calls : handler'[d] = IF d = c THEN to ELSE handler[d]
        /\ DataType'
    BY DEF DataInv, DataType, CallsInv, HandlerType, Goes, callerVars
  <1>2. \A d \in Calls : Row(d)' = Row(d) /\ Response(d)' = Response(d)
    BY <1>1 DEF Row, Response
  <1>3. AskedInv'
    BY <1>1, <1>2 DEF DataInv, AskedInv
  <1>4. FoundInv'
    BY <1>1, <1>2 DEF DataInv, FoundInv
  <1>5. GivenInv'
    <2> SUFFICES ASSUME NEW d \in Calls
                 PROVE  arguments'[d] # << >> => arguments'[d] = InOrder(Len(Row(d).arguments))
      BY <1>2 DEF GivenInv
    <2>1. arguments'[d] = arguments[d] \/ (d = c /\ arguments'[d] = InOrder(Len(Row(c).arguments)))
      BY DEF DataInv, DataType
    <2> QED
      BY <2>1 DEF DataInv, GivenInv
  <1>6. \A d \in Calls : \/ answers'[d] = answers[d]
                         \/ d = c /\ answers[d] = << >> /\ \E m \in {Fault, Response(c)} : answers'[d] = << m >>
    BY DEF CallsInv, AnswersType
  <1>7. SentInv'
    BY <1>1, <1>2, <1>6 DEF DataInv, SentInv, Right
  <1>8. OutcomeInv'
    BY <1>1, <1>2, <1>6 DEF DataInv, OutcomeInv, Received
  <1> QED
    BY <1>1, <1>3, <1>4, <1>5, <1>7, <1>8 DEF DataInv

\* A request the server has found the service of.
LEMMA EnteredRow ==
    ASSUME DataInv, NEW c \in Calls, handler[c] \in Entered
    PROVE  /\ ServiceTypes[found[c]] = Row(c)
           /\ Taken(ServiceTypes[found[c]].arguments, request[c].body) = InOrder(Len(Row(c).arguments))
           /\ Answer(c) \in {Fault, Response(c)}
  <1>1. /\ caller[c] # "idle" /\ found[c] \in DOMAIN ServiceTypes
        /\ ServiceTypes[found[c]].request = Row(c).request
    BY DEF DataInv, FoundInv
  <1>2. service[c] \in DOMAIN Functions /\ request[c].body = Filled(Row(c).arguments)
    <2>1. service[c] \in DOMAIN Functions /\ request[c] = Message(Row(c).request, Filled(Row(c).arguments))
      BY <1>1 DEF DataInv, AskedInv
    <2> QED
      BY <2>1 DEF Message
  <1>3. ServiceTypes[found[c]] = Row(c)
    BY <1>1, <1>2, TableOf DEF Row
  <1>4. Taken(Row(c).arguments, Filled(Row(c).arguments)) = InOrder(Len(Row(c).arguments))
    BY <1>2, TableOf, TakenFilled DEF Row
  <1>5. Answer(c) \in {Fault, Message(Row(c).response, Filled(Row(c).results))}
    BY <1>3 DEF Answer
  <1> QED
    BY <1>2, <1>3, <1>4, <1>5 DEF Response

\* A step of a request whose service the server keeps.
LEMMA StageKeepsData ==
    ASSUME CallsInv, DataInv, NEW c \in Calls, handler[c] # "none", NEW to, Goes(c, to),
           UNCHANGED << callerVars, found >>, to \in Entered => handler[c] \in Entered,
           \/ UNCHANGED arguments
           \/ arguments' = [arguments EXCEPT ![c] = InOrder(Len(Row(c).arguments))],
           \/ UNCHANGED answers
           \/ answers[c] = << >> /\ \E m \in {Fault, Response(c)} : answers' = [answers EXCEPT ![c] = << m >>]
    PROVE  DataInv'
  <1>1. caller[c] # "idle"
    BY DEF DataInv, AskedInv
  <1>2. found' = [d \in Calls |-> found'[d]] /\ \A d \in Calls : found'[d] = found[d]
    BY DEF DataInv, DataType
  <1>3. to \in Entered =>
          found'[c] \in DOMAIN ServiceTypes /\ ServiceTypes[found'[c]].request = Row(c).request
    BY <1>2 DEF DataInv, FoundInv
  <1>4. UNCHANGED callerVars
    OBVIOUS
  <1> QED
    BY <1>1, <1>2, <1>3, <1>4, ServerKeeps

\* The request arrives, and the entry of its service is found.
LEMMA DataArrives ==
    ASSUME CallsInv, DataInv, NEW c \in Calls, Receive(c) \/ Fetch(c) \/ Reject(c) \/ BeginProcessRequest(c)
    PROVE  DataInv'
  <1> USE DEF Entered, Handled
  <1>1. found = [d \in Calls |-> found[d]]
    BY DEF DataInv, DataType
  <1>2. CASE Receive(c)
    <2>1. PICK to \in {"queued", "waiting"} : Goes(c, to)
      BY <1>2 DEF Receive
    <2>2. caller[c] # "idle" /\ UNCHANGED << callerVars, found, arguments, answers >>
      BY <1>2 DEF Receive
    <2>3. UNCHANGED callerVars /\ UNCHANGED found /\ UNCHANGED arguments /\ UNCHANGED answers
      BY <2>2
    <2>4. found' = [d \in Calls |-> found'[d]] /\ \A d \in Calls : found'[d] = found[d]
      BY <1>1, <2>3
    <2> QED
      BY <2>1, <2>2, <2>3, <2>4, ServerKeeps
  <1>3. CASE Fetch(c)
    BY <1>3, StageKeepsData DEF Fetch
  <1>4. CASE Reject(c)
    BY <1>4, StageKeepsData DEF Reject
  <1>5. CASE BeginProcessRequest(c)
    <2>1. caller[c] # "idle" /\ request[c].type = Row(c).request
      <3>1. handler[c] # "none"
        BY <1>5 DEF BeginProcessRequest
      <3>2. caller[c] # "idle" /\ request[c] = Message(Row(c).request, Filled(Row(c).arguments))
        BY <3>1 DEF DataInv, AskedInv
      <3> QED
        BY <3>2 DEF Message
    <2>2. PICK s \in FindService(request[c].type) : found' = [found EXCEPT ![c] = s]
      BY <1>5 DEF BeginProcessRequest
    <2>3. s \in DOMAIN ServiceTypes /\ ServiceTypes[s].request = Row(c).request
      BY <2>1, <2>2, ServiceAssumption DEF FindService
    <2>4. /\ found' = [d \in Calls |-> found'[d]] /\ \A d \in Calls : d # c => found'[d] = found[d]
          /\ found'[c] = s
      BY <1>1, <2>2
    <2>5. Goes(c, "begun") /\ UNCHANGED callerVars /\ UNCHANGED arguments /\ UNCHANGED answers
      BY <1>5 DEF BeginProcessRequest
    <2> QED
      BY <2>1, <2>3, <2>4, <2>5, ServerKeeps
  <1> QED
    BY <1>2, <1>3, <1>4, <1>5

\* Steps that send nothing.
LEMMA DataQuiet ==
    ASSUME CallsInv, DataInv, NEW c \in Calls,
           BeginInvoke(c) \/ BeginTestStack(c) \/ Compose(c) \/ Return(c) \/ DoAsyncResponse(c)
             \/ Cancel(c) \/ Leave(c)
    PROVE  DataInv'
  <1> USE DEF Entered, Handled
  <1>1. /\ handler[c] # "none" /\ UNCHANGED answers
        /\ UNCHANGED << callerVars, found >>
    BY DEF BeginInvoke, BeginTestStack, Compose, Return, DoAsyncResponse, Cancel, Leave, StartFault,
           CancelSendResponse
  <1>2. \E to : Goes(c, to) /\ (to \in Entered => handler[c] \in Entered)
    BY DEF BeginInvoke, BeginTestStack, Compose, Return, DoAsyncResponse, Cancel, Leave, StartFault
  <1>3. \/ UNCHANGED arguments
        \/ arguments' = [arguments EXCEPT ![c] = InOrder(Len(Row(c).arguments))]
    <2>1. \/ UNCHANGED arguments
          \/ /\ handler[c] \in Entered
             /\ arguments' = [arguments EXCEPT ![c] =
                               Taken(ServiceTypes[found[c]].arguments, request[c].body)]
      BY DEF BeginInvoke, BeginTestStack, Compose, Return, DoAsyncResponse, Cancel, Leave
    <2> QED
      BY <2>1, EnteredRow
  <1> QED
    BY <1>1, <1>2, <1>3, StageKeepsData

\* Steps that send the answer, when there is none yet.
LEMMA DataSent ==
    ASSUME CallsInv, DataInv, NEW c \in Calls, Respond(c) \/ Send(c)
    PROVE  DataInv'
  <1> USE DEF Entered, Handled
  <1>1. handler[c] \in {"answering", "sending"} /\ EndSendResponse(c, Answer(c), Result(c))
    BY DEF Respond, Send
  <1>2. answers[c] = << >> /\ Answer(c) \in {Fault, Response(c)}
    BY <1>1, EnteredRow DEF CallsInv, AnswersInv, Unanswered
  <1>3. UNCHANGED answers \/ answers' = [answers EXCEPT ![c] = Append(@, Answer(c))]
    BY <1>1 DEF EndSendResponse, CancelSendResponse
  <1>4. Append(<< >>, Answer(c)) = << Answer(c) >>
    OBVIOUS
  <1>5. UNCHANGED answers \/ answers' = [answers EXCEPT ![c] = << Answer(c) >>]
    BY <1>2, <1>3, <1>4
  <1>6. PICK to \in {"returning", "leaving"} :
          Goes(c, to) /\ (to \in Entered => handler[c] \in Entered)
    BY <1>1 DEF Respond, Send
  <1>7. UNCHANGED << callerVars, found >> /\ UNCHANGED arguments /\ handler[c] # "none"
    BY <1>1 DEF Respond, Send
  <1> QED
    BY <1>2, <1>5, <1>6, <1>7, StageKeepsData

LEMMA DataInvStep == CallsInv /\ DataInv /\ [Next]_vars => DataInv'
  <1> SUFFICES ASSUME CallsInv, DataInv, [Next]_vars PROVE DataInv'
    OBVIOUS
  <1>1. ASSUME NEW c \in Calls, Receive(c) \/ Process(c) PROVE DataInv'
    BY <1>1, DataArrives, DataQuiet, DataSent DEF Process
  <1>2. CASE UNCHANGED << callerVars, serverVars >> \/ Serve
    <2>1. UNCHANGED << service, caller, request, outcome, handler, found, arguments, answers >>
      BY <1>2 DEF Serve, Stop, WaitShutdown, Close, Closed, Delete, Deleted, callerVars, serverVars
    <2>2. DataType' /\ AskedInv' /\ FoundInv' /\ GivenInv'
      BY <2>1 DEF DataInv, DataType, AskedInv, FoundInv, GivenInv, Row
    <2>3. SentInv' /\ OutcomeInv'
      BY <2>1 DEF DataInv, SentInv, OutcomeInv, Right, Received, Row, Response
    <2> QED
      BY <2>2, <2>3 DEF DataInv
  <1>3. ASSUME NEW c \in Calls, CallerStep(c) PROVE DataInv'
    BY <1>3, DataCaller
  <1>4. UNCHANGED vars => UNCHANGED << callerVars, serverVars >>
    BY DEF vars
  <1> QED
    BY <1>1, <1>2, <1>3, <1>4 DEF Next

\* For any calls and whatever services the endpoint's table has, the function that implements
\* a service gets the caller's values, each in the parameter of its place, the caller gets the
\* function's or the header of a fault and nothing else, also through a callback, and no field
\* of a request or of an answer is left to chance.
THEOREM TransparentHolds == Spec => []Transparent
  <1>1. CallsInv /\ DataInv => Transparent
    <2> SUFFICES ASSUME CallsInv, DataInv PROVE Transparent
      OBVIOUS
    <2> DEFINE Whole(message) ==
                 message = NoMessage \/ Cardinality(DOMAIN message.body) = NumberOfFields[message.type]
    <2>1. ASSUME NEW c \in Calls, caller[c] # "idle"
          PROVE  /\ service[c] \in DOMAIN Functions /\ Row(c) = Functions[service[c]]
                 /\ request[c] = Message(Row(c).request, Filled(Row(c).arguments))
      BY <2>1 DEF DataInv, AskedInv, Row
    <2>2. ASSUME NEW type, NEW fields, Names(fields, type)
          PROVE  Whole(Message(type, Filled(fields)))
      BY <2>2, FilledWhole DEF Message
    <2>3. ASSUME NEW c \in Calls, caller[c] # "idle" PROVE Whole(request[c])
      BY <2>1, <2>2, <2>3, TableOf
    <2>4. ASSUME NEW c \in Calls, caller[c] # "idle", NEW m \in {Fault, Response(c)} PROVE Whole(m)
      BY <2>1, <2>2, <2>4, TableOf, FaultWhole DEF Response
    <2>5. ASSUME NEW c \in Calls, caller[c] # "idle", NEW k \in DOMAIN answers[c]
          PROVE  Whole(answers[c][k])
      <3>1. answers[c] # << >>
        BY <2>5
      <3>2. PICK m : answers[c] = << m >>
        BY <3>1 DEF CallsInv, AnswersInv, Settled, Unanswered
      <3>3. answers[c][k] = m /\ m \in {Fault, Response(c)}
        BY <2>5, <3>2 DEF DataInv, SentInv, Right
      <3> QED
        BY <2>4, <2>5, <3>3
    <2>6. ASSUME NEW c \in Calls
          PROVE  /\ arguments[c] # << >> => arguments[c] = InOrder(Len(Row(c).arguments))
                 /\ outcome[c].given \in {NoMessage, Fault, Response(c)}
      BY DEF DataInv, GivenInv, OutcomeInv
    <2>7. ASSUME NEW c \in Calls, outcome[c].results # << >>
          PROVE  /\ outcome[c].status = "Good"
                 /\ \/ outcome[c].results = InOrder(Len(Row(c).results))
                    \/ Head(answers[c]) = Fault /\ outcome[c].results = FaultResults(Row(c).results)
      <3>1. answers[c] = << Fault >> => Head(answers[c]) = Fault
        OBVIOUS
      <3> QED
        BY <2>7, <3>1 DEF DataInv, OutcomeInv, Received
    <2> HIDE DEF Whole
    <2>8. ASSUME NEW c \in {d \in Calls : caller[d] # "idle"}
          PROVE  /\ Whole(request[c])
                 /\ \A k \in DOMAIN answers[c] : Whole(answers[c][k])
                 /\ arguments[c] # << >> => arguments[c] = InOrder(Len(Row(c).arguments))
                 /\ outcome[c].status # "none" /\ outcome[c].results # << >> =>
                      /\ outcome[c].status = "Good"
                      /\ \/ outcome[c].results = InOrder(Len(Row(c).results))
                         \/ /\ Head(answers[c]) = Fault
                            /\ outcome[c].results = FaultResults(Row(c).results)
                 /\ outcome[c].given \in {NoMessage, Fault, Response(c)}
      BY <2>3, <2>5, <2>6, <2>7
    <2> QED
      BY <2>8 DEF Transparent, Whole, Row, Response, FaultResults
  <1>2. (CallsInv /\ DataInv) /\ [Next]_vars => (CallsInv /\ DataInv)'
    BY CallsInvStep, DataInvStep
  <1>3. Init => CallsInv /\ DataInv
    BY InitIInv, InitDataInv DEF IInv
  <1> QED
    BY <1>1, <1>2, <1>3, PTL DEF Spec

=============================================================================
