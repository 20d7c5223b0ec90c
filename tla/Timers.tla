------------------------------- MODULE Timers -------------------------------
(***************************************************************************)
(* The timers of the Linux platform layer (platforms/linux/opcua_p_timer.c)*)
(* and the way the stack uses them.                                        *)
(*                                                                         *)
(* A table of slots under one mutex; one thread that runs over the table,  *)
(* calls the callbacks of the timers that are due with the mutex held, and *)
(* sleeps until the next one is due.  Users are the threads that create    *)
(* and delete timers for Clients: a client is an object like a secure      *)
(* connection, which has a lock and keeps the handle of its timer, and     *)
(* whose callback takes that lock; the OneShots are the objects whose      *)
(* callback deletes the timer that called it (uatestserver.c, and the      *)
(* one-shot timers of timertest.c).                                        *)
(*                                                                         *)
(* The mutex of the table is held from Begin to the end of the pass; a     *)
(* call of another thread is one region and needs it free.  Time is the    *)
(* tick count, which wraps around.                                         *)
(***************************************************************************)
EXTENDS Integers, FiniteSets

CONSTANTS
    NoOfTimers,     \* OPCUA_P_TIMER_NO_OF_TIMERS
    Clients,        \* objects with a lock and a timer
    OneShots,       \* objects whose callback deletes their timer
    Users,          \* threads that create and delete timers
    Interval,       \* Interval[c]: msecInterval of the timer of c
    MaxWait,        \* OPCUA_TIMER_MAX_WAIT
    Wrap,           \* tick counts are 0..Wrap-1
    MaxBusy,        \* bound on the ticks between two sleeps of the thread
    MaxPosts        \* bound on the posts of the semaphore that wait

Objects == Clients \union OneShots
Free == "free"

ASSUME TimerAssumption ==
    /\ NoOfTimers \in Nat \ {0} /\ MaxWait \in Nat \ {0}
    /\ Wrap \in Nat \ {0} /\ MaxBusy \in 0..(Wrap - 1) /\ MaxPosts \in Nat
    /\ Clients \cap OneShots = {} /\ "none" \notin Objects /\ Free \notin Users
    /\ Interval \in [Objects -> 1..Wrap]
    /\ \A c \in Objects : Interval[c] + 2 * MaxBusy < Wrap

Slots == 1..NoOfTimers
Ticks == 0..(Wrap - 1)
NoTimer == 0

VARIABLES
    slot,       \* the table g_OpcUa_P_Timer_Timers: the object and uLastFired of
                \* each timer; uDueTime is uLastFired + msecInterval where it is read
    th,         \* the timer thread: where it is, in which slot, its times
    now,        \* OpcUa_P_GetTickCount
    posts,      \* posts of g_hTimerAddedSemaphore that wait
    stop,       \* g_bStopTimerThread
    handle,     \* handle[c]: the handle that client c keeps
    life,       \* life[c]: life of object c
    lock,       \* lock[c]: the user that holds the lock of c, or Free
    user        \* user[u]: where user u is, with which object and handle

vars == <<slot, th, now, posts, stop, handle, life, lock, user>>

Unused == [of |-> "none", last |-> 0]      \* bUsed is false

Idle == [at |-> "out", of |-> "none", timer |-> NoTimer]

Init ==
    /\ slot = [i \in Slots |-> Unused]
    /\ th = [at |-> "begin", i |-> 1, start |-> 0, nearest |-> MaxWait, left |-> 0, busy |-> 0]
    /\ now = 0 /\ posts = 0 /\ stop = FALSE
    /\ handle = [c \in Clients |-> NoTimer]
    /\ life = [c \in Objects |-> "new"]
    /\ lock = [c \in Clients |-> Free]
    /\ user = [u \in Users |-> Idle]

\* The mutex of the table is free.
TableFree == th.at \in {"begin", "wait", "ended", "cleaned"}

Used(i) == slot[i] # Unused

Due(i) == (slot[i].last + Interval[slot[i].of]) % Wrap

Since(t) == (now - t) % Wrap

Min2(a, b) == IF a < b THEN a ELSE b

-----------------------------------------------------------------------------
(* OpcUa_P_Timer_ProcessTimers.                                             *)

\* Mutated form of Begin: the thread stops only when no timer is left.
BeginWhileUsed ==
    /\ th.at = "begin"
    /\ th' = IF stop /\ \A i \in Slots : ~Used(i) THEN [th EXCEPT !.at = "ended"]
             ELSE [th EXCEPT !.at = "scan", !.i = 1, !.start = now, !.nearest = MaxWait]
    /\ UNCHANGED <<slot, now, posts, stop, handle, life, lock, user>>

\* The mutex is taken and the pass begins, or the thread ends.
Begin ==
    /\ th.at = "begin"
    /\ th' = IF stop THEN [th EXCEPT !.at = "ended"]
             ELSE [th EXCEPT !.at = "scan", !.i = 1, !.start = now, !.nearest = MaxWait]
    /\ UNCHANGED <<slot, now, posts, stop, handle, life, lock, user>>

\* The time to the next event, from the start of the pass and never 0.
Nearest(due) ==
    LET wait == (due - th.start) % Wrap
    IN  Min2(th.nearest, IF wait = 0 THEN 1 ELSE wait)

SkipSlot ==
    /\ th.at = "scan" /\ th.i \in Slots /\ ~Used(th.i)
    /\ th' = [th EXCEPT !.i = @ + 1]
    /\ UNCHANGED <<slot, now, posts, stop, handle, life, lock, user>>

IsDue(i) == Since(slot[i].last) >= Interval[slot[i].of]

NotDue ==
    /\ th.at = "scan" /\ th.i \in Slots /\ Used(th.i) /\ ~IsDue(th.i)
    /\ th' = [th EXCEPT !.i = @ + 1, !.nearest = Nearest(Due(th.i))]
    /\ UNCHANGED <<slot, now, posts, stop, handle, life, lock, user>>

Fire ==
    /\ th.at = "scan" /\ th.i \in Slots /\ Used(th.i) /\ IsDue(th.i)
    /\ slot' = [slot EXCEPT ![th.i].last = now]
    /\ th' = [th EXCEPT !.at = IF slot[th.i].of \in OneShots THEN "oneShot" ELSE "enter"]
    /\ UNCHANGED <<now, posts, stop, handle, life, lock, user>>

\* The due time is updated after the callback.
Fired ==
    /\ th.at = "fired"
    /\ th' = [th EXCEPT !.at = "scan", !.i = @ + 1, !.nearest = Nearest(Due(th.i))]
    /\ UNCHANGED <<slot, now, posts, stop, handle, life, lock, user>>

\* The mutex is given back; a result of 0 would end the thread.
EndPass ==
    /\ th.at = "scan" /\ th.i \notin Slots
    /\ th' = [at |-> IF th.nearest = 0 THEN "ended" ELSE "wait", i |-> 1, start |-> 0,
              nearest |-> MaxWait, left |-> th.nearest, busy |-> 0]
    /\ UNCHANGED <<slot, now, posts, stop, handle, life, lock, user>>

\* OpcUa_P_Semaphore_TimedWait comes back with a post or without one.
Wake ==
    /\ th.at = "wait"
    /\ \/ posts > 0 /\ posts' = posts - 1
       \/ posts = 0 /\ th.left = 0 /\ UNCHANGED posts
    /\ th' = [th EXCEPT !.at = "begin", !.left = 0]
    /\ UNCHANGED <<slot, now, stop, handle, life, lock, user>>

-----------------------------------------------------------------------------
(* The callbacks, which run on the timer thread with the mutex held.        *)

\* OpcUa_SecureConnection_RenewTimerCallback takes the lock, looks whether its
\* connection is open, gives the lock back to do what takes time ...
Enter ==
    /\ th.at = "enter" /\ lock[slot[th.i].of] = Free
    /\ th' = [th EXCEPT !.at = IF life[slot[th.i].of] \in {"open", "deleting"}
                              THEN "leave" ELSE "fired"]
    /\ UNCHANGED <<slot, now, posts, stop, handle, life, lock, user>>

\* ... and takes it again.
Leave ==
    /\ th.at = "leave" /\ lock[slot[th.i].of] = Free
    /\ th' = [th EXCEPT !.at = "fired"]
    /\ UNCHANGED <<slot, now, posts, stop, handle, life, lock, user>>

\* A callback that deletes the timer that called it.  The due time of the slot
\* is computed all the same.
OneShot ==
    /\ th.at = "oneShot"
    /\ slot' = [slot EXCEPT ![th.i] = Unused]
    /\ life' = [life EXCEPT ![slot[th.i].of] = "new"]
    /\ th' = [th EXCEPT !.at = "scan", !.i = @ + 1, !.nearest = Nearest(Due(th.i))]
    /\ UNCHANGED <<now, posts, stop, handle, lock, user>>

-----------------------------------------------------------------------------
(* OpcUa_P_Timer_Create and its users.                                      *)

\* Mutated form of Added: the thread is not told of the new timer.
AddedQuietly(i, c) ==
    /\ slot' = [slot EXCEPT ![i] = [of |-> c, last |-> now]]
    /\ UNCHANGED posts

\* A timer for object c goes into slot i and the thread is told.
Added(i, c) ==
    /\ slot' = [slot EXCEPT ![i] = [of |-> c, last |-> now]]
    /\ posts' = posts + 1

IsFirstFree(i) == ~Used(i) /\ \A j \in Slots : j < i => Used(j)

TableFull == \A i \in Slots : Used(i)

\* Mutated form of Open: a connection that was closed is opened again.
OpenAgain(u, c) ==
    /\ user[u].at = "out" /\ ~stop
    /\ life[c] \in {"new", "closed"} /\ lock[c] = Free
    /\ lock' = [lock EXCEPT ![c] = u]
    /\ user' = [user EXCEPT ![u] = [at |-> "create", of |-> c, timer |-> NoTimer]]
    /\ UNCHANGED <<slot, th, now, posts, stop, handle, life>>

\* A connection is opened under its lock, once ...
Open(u, c) ==
    /\ user[u].at = "out" /\ ~stop
    /\ life[c] = "new" /\ lock[c] = Free
    /\ lock' = [lock EXCEPT ![c] = u]
    /\ user' = [user EXCEPT ![u] = [at |-> "create", of |-> c, timer |-> NoTimer]]
    /\ UNCHANGED <<slot, th, now, posts, stop, handle, life>>

\* ... and its timer is created with the lock held: in the first slot that is
\* free, or not at all.
Create(u) ==
    /\ user[u].at = "create" /\ TableFree /\ posts < MaxPosts
    /\ LET c == user[u].of IN
       /\ \/ \E i \in Slots : IsFirstFree(i) /\ Added(i, c) /\ handle' = [handle EXCEPT ![c] = i]
          \/ TableFull /\ UNCHANGED <<slot, posts, handle>>
       /\ life' = [life EXCEPT ![c] = "open"]
       /\ lock' = [lock EXCEPT ![c] = Free]
    /\ user' = [user EXCEPT ![u] = Idle]
    /\ UNCHANGED <<th, now, stop>>

\* A one-shot timer, whose handle nobody keeps.
CreateOneShot(u, o) ==
    /\ user[u].at = "out" /\ ~stop
    /\ life[o] = "new" /\ TableFree /\ posts < MaxPosts
    /\ \E i \in Slots : IsFirstFree(i) /\ Added(i, o)
    /\ life' = [life EXCEPT ![o] = "open"]
    /\ UNCHANGED <<th, now, stop, handle, lock, user>>

-----------------------------------------------------------------------------
(* OpcUa_P_Timer_Delete and its users.                                      *)

\* Mutated form of Close: the handle is taken and left in the object.
CloseCopies(u, c) ==
    /\ user[u].at = "out" /\ ~stop
    /\ life[c] \in {"open", "closed"} /\ lock[c] = Free /\ handle[c] # NoTimer
    /\ life' = [life EXCEPT ![c] = "closed"]
    /\ user' = [user EXCEPT ![u] = [at |-> "delete", of |-> c, timer |-> handle[c]]]
    /\ UNCHANGED <<slot, th, now, posts, stop, handle, lock>>

\* Disconnect and OnNotify take the handle out of the connection under its lock
\* and delete the timer after they gave the lock back.
Close(u, c) ==
    /\ user[u].at = "out" /\ ~stop
    /\ life[c] = "open" /\ lock[c] = Free
    /\ handle' = [handle EXCEPT ![c] = NoTimer]
    /\ life' = [life EXCEPT ![c] = "closed"]
    /\ user' = IF handle[c] = NoTimer THEN user
               ELSE [user EXCEPT ![u] = [at |-> "delete", of |-> c, timer |-> handle[c]]]
    /\ UNCHANGED <<slot, th, now, posts, stop, lock>>

\* A connection that nobody closed is deleted by its owner, who is the only one
\* that uses it: its timer goes first and the lock is not taken, so that for a
\* callback that still runs the connection is open.
DeleteOpen(u, c) ==
    /\ user[u].at = "out" /\ ~stop
    /\ life[c] = "open" /\ \A v \in Users : user[v].of # c
    /\ handle' = [handle EXCEPT ![c] = NoTimer]
    /\ life' = [life EXCEPT ![c] = "deleting"]
    /\ user' = IF handle[c] = NoTimer THEN user
               ELSE [user EXCEPT ![u] = [at |-> "delete", of |-> c, timer |-> handle[c]]]
    /\ UNCHANGED <<slot, th, now, posts, stop, lock>>

\* bUsed is looked at without the mutex: a timer that is not used is refused.
Delete(u) ==
    /\ user[u].at = "delete"
    /\ user' = IF Used(user[u].timer) THEN [user EXCEPT ![u].at = "kill"]
               ELSE [user EXCEPT ![u] = Idle]
    /\ UNCHANGED <<slot, th, now, posts, stop, handle, life, lock>>

\* Mutated form of Kill: a deletion that does not wait for the mutex.
KillUnlocked(u) ==
    /\ user[u].at = "kill"
    /\ slot' = [slot EXCEPT ![user[u].timer] = Unused]
    /\ user' = [user EXCEPT ![u] = Idle]
    /\ UNCHANGED <<th, now, posts, stop, handle, life, lock>>

\* With the mutex: the kill callback, and the slot is free.
Kill(u) ==
    /\ user[u].at = "kill" /\ TableFree
    /\ slot' = [slot EXCEPT ![user[u].timer] = Unused]
    /\ user' = [user EXCEPT ![u] = Idle]
    /\ UNCHANGED <<th, now, posts, stop, handle, life, lock>>

\* A closed connection is deleted by the thread that closed it or by one that
\* waited for it, and one that was open is gone when its timer is; another one
\* may be made.
Replace(c) ==
    /\ life[c] \in {"closed", "deleting"} /\ \A u \in Users : user[u].of # c
    /\ life' = [life EXCEPT ![c] = "new"]
    /\ UNCHANGED <<slot, th, now, posts, stop, handle, lock, user>>

-----------------------------------------------------------------------------
(* OpcUa_P_Timer_CleanupTimers, called when no other thread uses the timers. *)

Stop ==
    /\ ~stop /\ TableFree /\ \A u \in Users : user[u].at = "out"
    /\ stop' = TRUE /\ posts' = posts + 1
    /\ UNCHANGED <<slot, th, now, handle, life, lock, user>>

\* The thread has ended: what is left is deleted.
Cleanup ==
    /\ th.at = "ended"
    /\ slot' = [i \in Slots |-> Unused]
    /\ th' = [th EXCEPT !.at = "cleaned"]
    /\ UNCHANGED <<now, posts, stop, handle, life, lock, user>>

\* Time passes: the thread sleeps, or is busy or kept waiting for MaxBusy ticks
\* at most between two sleeps.
Tick ==
    /\ th.at \notin {"ended", "cleaned"}
    /\ now' = (now + 1) % Wrap
    /\ th' = IF th.at = "wait" /\ posts = 0 /\ th.left > 0 THEN [th EXCEPT !.left = @ - 1]
             ELSE [th EXCEPT !.busy = @ + 1]
    /\ th'.busy <= MaxBusy
    /\ UNCHANGED <<slot, posts, stop, handle, life, lock, user>>

-----------------------------------------------------------------------------
Pass == Begin \/ SkipSlot \/ NotDue \/ Fire \/ Enter \/ Leave \/ OneShot \/ Fired \/ EndPass

UserStep(u) == Create(u) \/ Delete(u) \/ Kill(u)

Next ==
    \/ Pass \/ Wake \/ Tick \/ Stop \/ Cleanup
    \/ \E u \in Users :
        \/ UserStep(u)
        \/ \E c \in Clients : Open(u, c) \/ Close(u, c) \/ DeleteOpen(u, c)
        \/ \E o \in OneShots : CreateOneShot(u, o)
    \/ \E c \in Clients : Replace(c)

Spec == Init /\ [][Next]_vars

\* Threads run, time passes, and who waits for the mutex of the table gets it
\* although the timer thread takes it again and again.
Fairness ==
    /\ WF_vars(Pass) /\ WF_vars(Wake) /\ WF_vars(Tick) /\ WF_vars(Cleanup)
    /\ \A u \in Users : SF_vars(UserStep(u))

FairSpec == Spec /\ Fairness

-----------------------------------------------------------------------------
\* Type correctness; the lock of an object is held by the user that creates its
\* timer.
TypeOK ==
    /\ slot \in [Slots -> [of : Objects \union {"none"}, last : Ticks]]
    /\ th \in [at : {"begin", "scan", "enter", "leave", "oneShot", "fired", "wait",
                     "ended", "cleaned"},
               i : 1..(NoOfTimers + 1), start : Ticks, nearest : 1..MaxWait,
               left : 0..MaxWait, busy : 0..MaxBusy]
    /\ now \in Ticks /\ posts \in 0..(MaxPosts + 1) /\ stop \in BOOLEAN
    /\ handle \in [Clients -> Slots \union {NoTimer}]
    /\ life \in [Objects -> {"new", "open", "closed", "deleting"}]
    /\ user \in [Users -> [at : {"out", "create", "delete", "kill"},
                           of : Objects \union {"none"}, timer : Slots \union {NoTimer}]]
    /\ lock \in [Clients -> Users \union {Free}]
    /\ \A c \in Clients, u \in Users :
        lock[c] = u <=> user[u].at = "create" /\ user[u].of = c

\* Every timer in use has one owner, who will delete it: the object that keeps
\* its handle, the thread that is deleting it, or its own callback.  No slot is
\* lost, none is deleted twice, and none is deleted for a timer that has since
\* been put into it.
HandleSound ==
    th.at # "cleaned" =>
        /\ \A c \in Clients : handle[c] # NoTimer =>
            slot[handle[c]].of = c /\ life[c] = "open"
        /\ \A u \in Users : user[u].timer # NoTimer =>
            slot[user[u].timer].of = user[u].of
        /\ \A i \in Slots : slot[i].of \in Clients =>
            handle[slot[i].of] = i \/ \E u \in Users : user[u].timer = i
        /\ \A u, v \in Users : user[u].timer # NoTimer /\ user[u].timer = user[v].timer => u = v

\* A callback runs only for an object that has not been deleted: once Delete has
\* returned, the timer does not call any more.
OwnerAlive ==
    th.at \in {"enter", "leave", "oneShot"} => Used(th.i) /\ life[slot[th.i].of] # "new"

\* A timer is never later than two passes can make it, whatever is created,
\* deleted and called in between, and when the tick count wraps.
FiresInTime ==
    th.at \notin {"ended", "cleaned"} =>
        \A i \in Slots : Used(i) => Since(slot[i].last) <= Interval[slot[i].of] + 2 * MaxBusy

\* Whoever creates or deletes a timer comes back, although callbacks take the
\* locks of the objects and the callers hold them.
CallsReturn == \A u \in Users : user[u].at # "out" ~> user[u].at = "out"

\* CleanupTimers ends.
CleanupEnds == stop ~> th.at = "cleaned"
=============================================================================
