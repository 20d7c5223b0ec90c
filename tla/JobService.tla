----------------------------- MODULE JobService -----------------------------
(***************************************************************************)
(* What the thread pool promises whoever adds jobs to it: a call of AddJob *)
(* is refused or its job is accepted, and the answer says which.  Accepted *)
(* jobs wait in line, are taken in the order in which they were accepted,  *)
(* no more than there are slots and threads, and each is executed once,    *)
(* unless the service is closed before its turn.                           *)
(***************************************************************************)
EXTENDS Integers, Sequences, FiniteSets

CONSTANTS
    Jobs,           \* the jobs somebody may want to add
    Slots,          \* jobs the service holds at a time, waiting or being processed
    Threads         \* jobs it processes at a time

VARIABLES
    phase,          \* phase[j]: how far job j is
    line,           \* the jobs that wait, in the order in which they were accepted
    confirmed,      \* the jobs whose call has returned with success
    service         \* "open", "closing" (nothing is accepted any more) or "closed"

vars == <<phase, line, confirmed, service>>

Phases == {"new", "refused", "waiting", "taken", "running", "done", "dropped"}

\* The jobs a thread has in its hands.
InProcess == {j \in Jobs : phase[j] \in {"taken", "running"}}

Init ==
    /\ phase = [j \in Jobs |-> "new"]
    /\ line = <<>> /\ confirmed = {} /\ service = "open"

\* The call fails: for want of a slot or of memory, or after its timeout.
Refuse(j) ==
    /\ service = "open" /\ phase[j] = "new"
    /\ phase' = [phase EXCEPT ![j] = "refused"]
    /\ UNCHANGED <<line, confirmed, service>>

Accept(j) ==
    /\ service = "open" /\ phase[j] = "new"
    /\ Len(line) + Cardinality(InProcess) < Slots
    /\ phase' = [phase EXCEPT ![j] = "waiting"]
    /\ line' = Append(line, j)
    /\ UNCHANGED <<confirmed, service>>

\* The call returns OpcUa_Good; its job may have been executed by then.
Confirm(j) ==
    /\ phase[j] \notin {"new", "refused"} /\ j \notin confirmed
    /\ confirmed' = confirmed \union {j}
    /\ UNCHANGED <<phase, line, service>>

\* A thread takes the first job of the line.
Take ==
    /\ service # "closed" /\ line # <<>>
    /\ Cardinality(InProcess) < Threads
    /\ phase' = [phase EXCEPT ![line[1]] = "taken"]
    /\ line' = Tail(line)
    /\ UNCHANGED <<confirmed, service>>

Start(j) ==
    /\ service # "closed" /\ phase[j] = "taken"
    /\ phase' = [phase EXCEPT ![j] = "running"]
    /\ UNCHANGED <<line, confirmed, service>>

Finish(j) ==
    /\ service # "closed" /\ phase[j] = "running"
    /\ phase' = [phase EXCEPT ![j] = "done"]
    /\ UNCHANGED <<line, confirmed, service>>

\* Every call has returned when the service begins to close ...
Close ==
    /\ service = "open" /\ service' = "closing"
    /\ \A j \in Jobs : phase[j] \notin {"new", "refused"} => j \in confirmed
    /\ UNCHANGED <<phase, line, confirmed>>

\* ... and no job runs when it is closed; what was not executed never will be.
Closed ==
    /\ service = "closing" /\ service' = "closed"
    /\ \A j \in Jobs : phase[j] # "running"
    /\ phase' = [j \in Jobs |-> IF phase[j] \in {"waiting", "taken"} THEN "dropped" ELSE phase[j]]
    /\ line' = <<>>
    /\ UNCHANGED confirmed

Next ==
    \/ \E j \in Jobs : Refuse(j) \/ Accept(j) \/ Confirm(j) \/ Start(j) \/ Finish(j)
    \/ Take \/ Close \/ Closed

Spec == Init /\ [][Next]_vars
=============================================================================
