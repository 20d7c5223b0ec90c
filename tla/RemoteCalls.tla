----------------------------- MODULE RemoteCalls ----------------------------
(***************************************************************************)
(* What a secure connection promises those who call services over it,      *)
(* whatever becomes of tokens, renewals, the network and the two ends: a   *)
(* request is written once at most, executed once at most and replied to   *)
(* once at most; its caller hears of it once, by a callback or by the      *)
(* return of the call; and when the connection has come to an end nobody   *)
(* begins a call or starts to wait any more.                               *)
(***************************************************************************)
EXTENDS Integers

CONSTANT Requests

VARIABLES
    call,           \* call[r]: "idle", "inside" or "returned"
    waiting,        \* requests whose caller waits for a callback
    heard,          \* heard[r]: how often the caller of r was told how it went
    sent,           \* requests on their way to the server
    executing,      \* requests the server's application is working on
    replied,        \* requests whose response is on its way to the client
    ended           \* whether the connection has come to an end

caller == <<call, waiting, heard>>
server == <<sent, executing, replied>>
vars   == <<caller, server, ended>>

Init ==
    /\ call = [r \in Requests |-> "idle"]
    /\ heard = [r \in Requests |-> 0]
    /\ waiting = {} /\ sent = {} /\ executing = {} /\ replied = {}
    /\ ended = FALSE

\* The callers of rs, who wait, are told.
Tell(rs) ==
    /\ waiting' = waiting \ rs
    /\ heard' = [r \in Requests |-> heard[r] + (IF r \in rs THEN 1 ELSE 0)]

Unheard(r) == r \notin waiting /\ heard[r] = 0

-----------------------------------------------------------------------------
(* The caller. *)

Begin(r) ==
    /\ ~ended /\ call[r] = "idle"
    /\ call' = [call EXCEPT ![r] = "inside"]
    /\ UNCHANGED <<waiting, heard, server, ended>>

Wait(r) ==
    /\ ~ended /\ call[r] = "inside" /\ Unheard(r)
    /\ waiting' = waiting \union {r}
    /\ UNCHANGED <<call, heard, server, ended>>

\* The call returns with an error before anybody waits for its request.
Refuse(r) ==
    /\ call[r] = "inside" /\ Unheard(r)
    /\ call' = [call EXCEPT ![r] = "returned"]
    /\ heard' = [heard EXCEPT ![r] = @ + 1]
    /\ UNCHANGED <<waiting, server, ended>>

\* The call returns when its request was written; the network may have lost it.
Return(r) ==
    /\ call[r] = "inside" /\ ~Unheard(r)
    /\ call' = [call EXCEPT ![r] = "returned"]
    /\ sent' \in {sent, sent \union {r}}
    /\ UNCHANGED <<waiting, heard, executing, replied, ended>>

\* The request could not be written; whoever has heard already hears no more.
ReturnFailed(r) ==
    /\ call[r] = "inside" /\ ~Unheard(r)
    /\ call' = [call EXCEPT ![r] = "returned"]
    /\ Tell(waiting \intersect {r})
    /\ UNCHANGED <<server, ended>>

TimeOut(r) ==
    /\ r \in waiting /\ Tell({r})
    /\ UNCHANGED <<call, server, ended>>

-----------------------------------------------------------------------------
(* The server and the network. *)

\* A request arrives, and the server accepts it or not.
Execute(r) ==
    /\ r \in sent /\ sent' = sent \ {r}
    /\ executing' \in {executing, executing \union {r}}
    /\ UNCHANGED <<caller, replied, ended>>

\* The response is written, unless there is nobody to write it to.
Reply(r) ==
    /\ r \in executing /\ executing' = executing \ {r}
    /\ replied' \in {replied, replied \union {r}}
    /\ UNCHANGED <<caller, sent, ended>>

\* A response arrives: a caller that still waits is told, unless the keys are gone.
Deliver(r) ==
    /\ r \in replied /\ replied' = replied \ {r}
    /\ (r \in waiting /\ Tell({r})) \/ UNCHANGED <<waiting, heard>>
    /\ UNCHANGED <<call, sent, executing, ended>>

Lose ==
    /\ sent' = {} /\ replied' = {}
    /\ UNCHANGED <<caller, executing, ended>>

-----------------------------------------------------------------------------
\* The connection comes to an end ...
End ==
    /\ ended' = TRUE
    /\ UNCHANGED <<caller, server>>

\* ... and then or later everybody who waits is told, all at once.
Cancel ==
    /\ ended' = TRUE /\ Tell(waiting)
    /\ UNCHANGED <<call, server>>

Next ==
    \/ \E r \in Requests :
          \/ Begin(r) \/ Wait(r) \/ Refuse(r) \/ Return(r) \/ ReturnFailed(r) \/ TimeOut(r)
          \/ Execute(r) \/ Reply(r) \/ Deliver(r)
    \/ Lose \/ End \/ Cancel

Spec == Init /\ [][Next]_vars
=============================================================================
