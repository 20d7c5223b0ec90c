--------------------------- MODULE Timers_proofs ---------------------------
(***************************************************************************)
(* Proofs about Timers: whatever the number of slots, objects and users,   *)
(* a handle names its owner's timer and no callback outlives its owner.    *)
(***************************************************************************)
EXTENDS Timers, TLAPS

-----------------------------------------------------------------------------
(* The inductive invariant.                                                 *)

\* The states of the thread until its timers are cleaned up.
Running == [at : {"begin", "scan", "enter", "leave", "oneShot", "fired", "wait", "ended"},
            i : 1..(NoOfTimers + 1), start : Ticks, nearest : 1..MaxWait,
            left : 0..MaxWait, busy : 0..MaxBusy]

\* A slot without an owner is an unused one.
SlotInv == \A i \in Slots : slot[i].of = "none" => slot[i] = Unused

\* The lives of an object that has given its handle away.
Over == {"closed", "deleting"}

\* A user that creates a timer holds the lock of a new object, one that deletes
\* a timer took its handle from an object it closed or is deleting.
UserInv ==
    \A u \in Users :
        /\ user[u].at = "out" => user[u] = Idle
        /\ user[u].at = "create" =>
            user[u].of \in Clients /\ user[u].timer = NoTimer /\ life[user[u].of] = "new"
        /\ user[u].at \in {"delete", "kill"} =>
            user[u].of \in Clients /\ user[u].timer # NoTimer /\ life[user[u].of] \in Over

\* Only an object that is open has a handle.
OpenInv == \A c \in Clients : handle[c] # NoTimer => life[c] = "open"

\* In a callback the thread is at a slot of an object of that kind.
ThreadInv ==
    /\ th.at \in {"enter", "leave", "oneShot", "fired"} => th.i \in Slots
    /\ th.at \in {"enter", "leave", "fired"} => slot[th.i].of \in Clients
    /\ th.at = "oneShot" => slot[th.i].of \in OneShots

\* A one-shot object has one timer at most, and is there as long as it has it.
OneShotInv ==
    th.at # "cleaned" =>
        /\ \A i \in Slots : slot[i].of \in OneShots => life[slot[i].of] = "open"
        /\ \A i, j \in Slots : slot[i].of \in OneShots /\ slot[i].of = slot[j].of => i = j

\* Nobody creates or deletes timers once the thread was told to stop.
StopInv ==
    /\ stop => \A u \in Users : user[u].at = "out"
    /\ ~stop => posts <= MaxPosts

IInv ==
    /\ TypeOK /\ SlotInv /\ UserInv /\ OpenInv /\ ThreadInv /\ OneShotInv /\ StopInv
    /\ HandleSound

-----------------------------------------------------------------------------
(* Arithmetic of the tick count.                                            *)

\* The tick count and every difference of two ticks are ticks.
LEMMA TickRange ==
    ASSUME NEW n \in Int
    PROVE  n % Wrap \in Ticks
BY TimerAssumption DEF Ticks

\* The time to the next event is between 1 and the longest sleep.
LEMMA NearestRange ==
    ASSUME TypeOK, NEW due \in Int
    PROVE  Nearest(due) \in 1..MaxWait
<1>1. th.start \in Int /\ due - th.start \in Int
    BY TimerAssumption DEF TypeOK, Ticks
<1>2. (due - th.start) % Wrap \in Ticks
    BY <1>1, TickRange
<1> QED BY <1>2, TimerAssumption DEF TypeOK, Nearest, Min2, Ticks

\* The due time of a timer in use is a tick.
LEMMA DueRange ==
    ASSUME TypeOK, NEW i \in Slots, slot[i].of \in Objects
    PROVE  Due(i) \in Ticks /\ Due(i) \in Int
<1>1. Interval[slot[i].of] \in Int /\ slot[i].last \in Int
    BY TimerAssumption DEF TypeOK, Ticks
<1>2. slot[i].last + Interval[slot[i].of] \in Int
    BY <1>1
<1> QED BY <1>2, TickRange, TimerAssumption DEF Due, Ticks

\* A slot that is used has an owner.
LEMMA UsedHasOwner ==
    ASSUME TypeOK, SlotInv, NEW i \in Slots
    PROVE  Used(i) <=> slot[i].of \in Objects
BY TimerAssumption DEF TypeOK, SlotInv, Used, Unused

-----------------------------------------------------------------------------
(* The steps.                                                               *)

\* A thread that is told by none of its states to be cleaned up is running.
LEMMA ThreadRuns ==
    ASSUME TypeOK, th.at # "cleaned"
    PROVE  th \in Running
BY DEF TypeOK, Running

\* The thread goes on: only its own state, the tick count and the posts change.
LEMMA ThreadGoesOn ==
    ASSUME IInv, UNCHANGED <<slot, stop, handle, life, lock, user>>,
           th' \in Running, th.at # "cleaned",
           now' \in Ticks, posts' \in 0..(MaxPosts + 1), posts' <= posts,
           ThreadInv'
    PROVE  IInv'
<1> USE DEF IInv
<1>1. TypeOK'
    BY DEF TypeOK, Running
<1>2. SlotInv' /\ UserInv' /\ OpenInv'
    BY DEF SlotInv, UserInv, OpenInv
<1>3. OneShotInv'
    BY DEF OneShotInv
<1>4. StopInv'
    BY TimerAssumption DEF StopInv, TypeOK
<1>5. HandleSound'
    BY DEF HandleSound
<1> QED BY <1>1, <1>2, <1>3, <1>4, <1>5

LEMMA PassKeeps ==
    ASSUME IInv, Begin \/ SkipSlot \/ NotDue \/ Fired \/ EndPass \/ Enter \/ Leave \/ Wake \/ Tick
    PROVE  IInv'
<1> USE DEF IInv
<1>0. posts \in 0..(MaxPosts + 1) /\ posts \in Int /\ now \in Ticks
    BY TimerAssumption DEF TypeOK
<1>1. CASE Begin
    <2>1. ThreadInv'
        BY <1>1 DEF Begin, ThreadInv, TypeOK
    <2>2. th' \in Running
        <3>1. th \in Running
            BY <1>1, ThreadRuns DEF Begin
        <3>2. CASE stop
            BY <1>1, <3>1, <3>2 DEF Begin, Running
        <3>3. CASE ~stop
            <4>1. th' = [at |-> "scan", i |-> 1, start |-> now, nearest |-> MaxWait,
                         left |-> th.left, busy |-> th.busy]
                BY <1>1, <3>1, <3>3 DEF Begin, Running
            <4>2. 1 \in 1..(NoOfTimers + 1) /\ MaxWait \in 1..MaxWait
                BY TimerAssumption
            <4> QED BY <1>0, <3>1, <4>1, <4>2 DEF Running
        <3> QED BY <3>2, <3>3
    <2> QED BY <1>0, <1>1, <2>1, <2>2, ThreadGoesOn DEF Begin
<1>2. CASE SkipSlot
    <2>1. ThreadInv'
        BY <1>2 DEF SkipSlot, ThreadInv, TypeOK
    <2>2. th' \in Running
        BY <1>2, ThreadRuns, TimerAssumption DEF SkipSlot, Slots, Running
    <2> QED BY <1>0, <1>2, <2>1, <2>2, ThreadGoesOn DEF SkipSlot
<1>3. CASE NotDue
    <2>1. Nearest(Due(th.i)) \in 1..MaxWait
        BY <1>3, DueRange, NearestRange, UsedHasOwner DEF NotDue
    <2>2. ThreadInv'
        BY <1>3 DEF NotDue, ThreadInv, TypeOK
    <2>3. th \in Running
        BY <1>3, ThreadRuns DEF NotDue
    <2>4. th.i + 1 \in 1..(NoOfTimers + 1)
        BY <1>3, TimerAssumption DEF NotDue, Slots
    <2>5. th' \in Running
        BY <1>3, <2>1, <2>3, <2>4 DEF NotDue, Running
    <2> QED BY <1>0, <1>3, <2>2, <2>5, ThreadGoesOn DEF NotDue
<1>4. CASE Fired
    <2>1. Nearest(Due(th.i)) \in 1..MaxWait
        BY <1>4, DueRange, NearestRange DEF Fired, ThreadInv, Objects
    <2>2. ThreadInv'
        BY <1>4 DEF Fired, ThreadInv, TypeOK
    <2>3. th \in Running
        BY <1>4, ThreadRuns DEF Fired
    <2>4. th.i + 1 \in 1..(NoOfTimers + 1)
        BY <1>4, TimerAssumption DEF Fired, ThreadInv, Slots
    <2>5. th' \in Running
        BY <1>4, <2>1, <2>3, <2>4 DEF Fired, Running
    <2> QED BY <1>0, <1>4, <2>2, <2>5, ThreadGoesOn DEF Fired
<1>5. CASE EndPass
    <2>1. ThreadInv'
        BY <1>5 DEF EndPass, ThreadInv
    <2>2. th' \in Running
        BY <1>5, TimerAssumption DEF EndPass, TypeOK, Ticks, Running
    <2> QED BY <1>0, <1>5, <2>1, <2>2, ThreadGoesOn DEF EndPass
<1>6. CASE Enter
    <2>1. ThreadInv'
        BY <1>6 DEF Enter, ThreadInv, TypeOK
    <2>2. th' \in Running
        BY <1>6 DEF Enter, TypeOK, Running
    <2> QED BY <1>0, <1>6, <2>1, <2>2, ThreadGoesOn DEF Enter
<1>7. CASE Leave
    <2>1. ThreadInv'
        BY <1>7 DEF Leave, ThreadInv, TypeOK
    <2>2. th' \in Running
        BY <1>7 DEF Leave, TypeOK, Running
    <2> QED BY <1>0, <1>7, <2>1, <2>2, ThreadGoesOn DEF Leave
<1>8. CASE Wake
    <2>1. ThreadInv'
        BY <1>8 DEF Wake, ThreadInv, TypeOK
    <2>2. th' \in Running
        <3>1. th \in Running /\ 0 \in 0..MaxWait
            BY <1>8, ThreadRuns, TimerAssumption DEF Wake
        <3> QED BY <1>8, <3>1 DEF Wake, Running
    <2>3. posts' \in 0..(MaxPosts + 1) /\ posts' <= posts
        BY <1>0, <1>8, TimerAssumption DEF Wake
    <2> QED BY <1>0, <1>8, <2>1, <2>2, <2>3, ThreadGoesOn DEF Wake
<1>9. CASE Tick
    <2>1. now' \in Ticks
        BY <1>9, TickRange, TimerAssumption DEF Tick, TypeOK, Ticks
    <2>2. ThreadInv'
        BY <1>9 DEF Tick, ThreadInv, TypeOK
    <2>3. th' \in Running
        BY <1>9, TimerAssumption DEF Tick, TypeOK, Running
    <2> QED BY <1>0, <1>9, <2>1, <2>2, <2>3, ThreadGoesOn DEF Tick
<1> QED BY <1>1, <1>2, <1>3, <1>4, <1>5, <1>6, <1>7, <1>8, <1>9

\* A callback is begun: the time of the timer changes, not its owner.
LEMMA FireKeeps ==
    ASSUME IInv, Fire
    PROVE  IInv'
<1> USE DEF IInv
<1>1. slot[th.i].of \in Objects
    BY UsedHasOwner DEF Fire
<1>2. /\ slot' \in [Slots -> [of : Objects \union {"none"}, last : Ticks]]
      /\ \A i \in Slots : slot'[i].of = slot[i].of /\ (i # th.i => slot'[i] = slot[i])
    BY DEF Fire, TypeOK
<1>3. TypeOK'
    BY <1>2 DEF Fire, TypeOK
<1>4. SlotInv'
    BY <1>1, <1>2, TimerAssumption DEF SlotInv, Fire
<1>5. UserInv' /\ OpenInv' /\ StopInv'
    BY DEF UserInv, OpenInv, StopInv, Fire
<1>6. ThreadInv'
    BY <1>1, <1>2 DEF ThreadInv, Fire, TypeOK, Objects
<1>7. OneShotInv'
    BY <1>2 DEF OneShotInv, Fire
<1>8. HandleSound'
    <2>1. th.at # "cleaned" /\ th'.at # "cleaned"
        BY DEF Fire, TypeOK
    <2>2. \A c \in Clients : handle[c] # NoTimer => handle[c] \in Slots
        BY DEF TypeOK
    <2>3. \A u \in Users : user[u].timer # NoTimer => user[u].timer \in Slots
        BY DEF TypeOK
    <2> QED BY <1>2, <2>1, <2>2, <2>3 DEF HandleSound, Fire
<1> QED BY <1>3, <1>4, <1>5, <1>6, <1>7, <1>8

\* The callback of a one-shot object frees the slot that called it.
LEMMA OneShotKeeps ==
    ASSUME IInv, OneShot
    PROVE  IInv'
<1> USE DEF IInv
<1>1. /\ th.at = "oneShot" /\ th.i \in Slots
      /\ slot[th.i].of \in OneShots /\ slot[th.i].of \in Objects
    BY DEF OneShot, ThreadInv, Objects
<1>2. /\ slot' = [slot EXCEPT ![th.i] = Unused]
      /\ life' = [life EXCEPT ![slot[th.i].of] = "new"]
      /\ UNCHANGED <<now, posts, stop, handle, lock, user>>
    BY DEF OneShot
<1>3. Nearest(Due(th.i)) \in 1..MaxWait
    BY <1>1, DueRange, NearestRange
<1>4. Unused \in [of : Objects \union {"none"}, last : Ticks]
    BY TimerAssumption DEF Unused, Ticks
<1>5. th' \in Running /\ th'.at = "scan" /\ th.at # "cleaned"
    <2>1. th \in Running
        BY <1>1, ThreadRuns
    <2>2. th.i + 1 \in 1..(NoOfTimers + 1)
        BY <1>1, TimerAssumption DEF Slots
    <2> QED BY <1>1, <1>3, <2>1, <2>2 DEF OneShot, Running
<1>6. TypeOK'
    BY <1>1, <1>2, <1>4, <1>5 DEF TypeOK, Running
<1>7. SlotInv'
    BY <1>1, <1>2 DEF SlotInv, TypeOK
<1>8. UserInv' /\ OpenInv'
    BY <1>1, <1>2, TimerAssumption DEF UserInv, OpenInv, TypeOK
<1>9. ThreadInv' /\ StopInv'
    BY <1>2, <1>5 DEF ThreadInv, StopInv
<1>10. OneShotInv'
    BY <1>1, <1>2, <1>5, TimerAssumption DEF OneShotInv, TypeOK, Unused, Objects
<1>11. HandleSound'
    <2>1. \A c \in Clients : handle[c] # NoTimer => handle[c] \in Slots /\ handle[c] # th.i
        BY <1>1, <1>5, TimerAssumption DEF TypeOK, HandleSound
    <2>2. \A u \in Users : user[u].timer # NoTimer => user[u].timer \in Slots /\ user[u].timer # th.i
        BY <1>1, <1>5, TimerAssumption DEF TypeOK, HandleSound, UserInv, Idle
    <2> QED BY <1>1, <1>2, <1>5, <2>1, <2>2, TimerAssumption DEF HandleSound, TypeOK, Unused, Objects
<1> QED BY <1>6, <1>7, <1>8, <1>9, <1>10, <1>11

-----------------------------------------------------------------------------
(* The users.                                                               *)

\* An object is locked to be opened.
LEMMA OpenKeeps ==
    ASSUME IInv, NEW u \in Users, NEW c \in Clients, Open(u, c)
    PROVE  IInv'
<1> USE DEF IInv
<1>1. /\ user' = [user EXCEPT ![u] = [at |-> "create", of |-> c, timer |-> NoTimer]]
      /\ lock' = [lock EXCEPT ![c] = u]
      /\ user[u] = Idle /\ lock[c] = Free /\ life[c] = "new" /\ ~stop
      /\ c \in Objects
    BY DEF Open, UserInv, Objects
<1>2. [at |-> "create", of |-> c, timer |-> NoTimer]
        \in [at : {"out", "create", "delete", "kill"},
             of : Objects \union {"none"}, timer : Slots \union {NoTimer}]
    BY <1>1
<1>3. \A d \in Clients, v \in Users :
        lock'[d] = v <=> user'[v].at = "create" /\ user'[v].of = d
    BY <1>1, TimerAssumption DEF TypeOK, Idle
<1>4. TypeOK'
    BY <1>1, <1>2, <1>3 DEF TypeOK, Open
<1>5. SlotInv' /\ OpenInv' /\ ThreadInv' /\ OneShotInv' /\ StopInv'
    BY <1>1 DEF SlotInv, OpenInv, ThreadInv, OneShotInv, StopInv, Open
<1>6. UserInv'
    BY <1>1, <1>2 DEF UserInv, Open, TypeOK
<1>7. HandleSound'
    BY <1>1 DEF HandleSound, Open, TypeOK, Idle
<1> QED BY <1>4, <1>5, <1>6, <1>7

\* The timer of an object goes into a free slot and its handle into the object.
LEMMA CreateKeeps ==
    ASSUME IInv, NEW u \in Users, Create(u)
    PROVE  IInv'
<1> USE DEF IInv
<1> DEFINE c == user[u].of
<1>1. /\ user[u].at = "create" /\ TableFree /\ posts < MaxPosts
      /\ c \in Clients /\ c \in Objects /\ life[c] = "new" /\ user[u].timer = NoTimer
      /\ lock[c] = u /\ handle[c] = NoTimer
      /\ life' = [life EXCEPT ![c] = "open"] /\ lock' = [lock EXCEPT ![c] = Free]
      /\ user' = [user EXCEPT ![u] = Idle] /\ UNCHANGED <<th, now, stop>>
    BY DEF Create, UserInv, OpenInv, TypeOK, Objects
<1>2. \/ UNCHANGED <<slot, posts, handle>>
      \/ \E i \in Slots : IsFirstFree(i) /\ Added(i, c) /\ handle' = [handle EXCEPT ![c] = i]
    BY DEF Create
<1>3. ~stop
    BY <1>1 DEF StopInv
<1>4. Idle \in [at : {"out", "create", "delete", "kill"},
                of : Objects \union {"none"}, timer : Slots \union {NoTimer}]
    BY DEF Idle
<1>5. \A d \in Clients, v \in Users :
        lock'[d] = v <=> user'[v].at = "create" /\ user'[v].of = d
    BY <1>1, TimerAssumption DEF TypeOK, Idle
<1>6. \A v \in Users : user'[v] = IF v = u THEN Idle ELSE user[v]
    BY <1>1 DEF TypeOK
<1>7. \A v \in Users : v # u /\ user[v].at = "create" => user[v].of # c
    BY <1>1 DEF TypeOK
<1>8. UserInv'
    BY <1>1, <1>6, <1>7 DEF UserInv, TypeOK, Idle, Over
<1>9. CASE UNCHANGED <<slot, posts, handle>>
    <2>1. TypeOK'
        BY <1>1, <1>4, <1>5, <1>9 DEF TypeOK
    <2>2. SlotInv' /\ OpenInv' /\ ThreadInv' /\ StopInv'
        BY <1>1, <1>3, <1>9 DEF SlotInv, OpenInv, ThreadInv, StopInv, TypeOK
    <2>3. OneShotInv'
        BY <1>1, <1>9 DEF OneShotInv, TypeOK
    <2>4. HandleSound'
        BY <1>1, <1>6, <1>9 DEF HandleSound, TypeOK, Idle
    <2> QED BY <1>8, <2>1, <2>2, <2>3, <2>4
<1>10. ASSUME NEW i \in Slots, IsFirstFree(i), Added(i, c), handle' = [handle EXCEPT ![c] = i]
       PROVE  IInv'
    <2>1. /\ slot' = [slot EXCEPT ![i] = [of |-> c, last |-> now]] /\ posts' = posts + 1
          /\ slot[i] = Unused /\ slot[i].of = "none" /\ i # NoTimer
        BY <1>10, TimerAssumption DEF Added, IsFirstFree, Used, Unused, Slots, NoTimer
    <2>2. \A j \in Slots : slot'[j] = IF j = i THEN [of |-> c, last |-> now] ELSE slot[j]
        BY <2>1 DEF TypeOK
    <2>3. \A d \in Clients : handle'[d] = IF d = c THEN i ELSE handle[d]
        BY <1>10, <1>1 DEF TypeOK
    <2>4. posts' \in 0..(MaxPosts + 1) /\ posts' <= MaxPosts
        BY <1>1, <2>1, TimerAssumption DEF TypeOK
    <2>5. TypeOK'
        <3>1. slot' \in [Slots -> [of : Objects \union {"none"}, last : Ticks]]
            BY <1>1, <2>1 DEF TypeOK
        <3>2. handle' \in [Clients -> Slots \union {NoTimer}]
            BY <1>1, <1>10 DEF TypeOK
        <3> QED BY <1>1, <1>4, <1>5, <2>4, <3>1, <3>2 DEF TypeOK
    <2>6. SlotInv'
        BY <1>1, <2>2, TimerAssumption DEF SlotInv
    <2>7. OpenInv' /\ StopInv'
        BY <1>1, <1>3, <2>3, <2>4 DEF OpenInv, StopInv, TypeOK
    <2>8. ThreadInv'
        BY <1>1, <2>2 DEF ThreadInv, TableFree
    <2>9. OneShotInv'
        <3>1. c \notin OneShots /\ \A o \in OneShots : life'[o] = life[o]
            BY <1>1, TimerAssumption DEF TypeOK, Objects
        <3> QED BY <1>1, <2>2, <3>1 DEF OneShotInv
    <2>10. HandleSound'
        <3> SUFFICES ASSUME th.at # "cleaned"
                     PROVE  HandleSound'
            BY <1>1 DEF HandleSound
        <3>1. \A d \in Clients : handle[d] # NoTimer => handle[d] \in Slots /\ handle[d] # i
            BY <2>1, TimerAssumption DEF HandleSound, TypeOK, Objects
        <3>2. \A v \in Users : user[v].timer # NoTimer =>
                user[v].timer \in Slots /\ user[v].of \in Clients /\ user[v].of # c
            BY <1>1 DEF UserInv, TypeOK, Idle, Over
        <3>3. \A v \in Users : user[v].timer # NoTimer => user[v].timer # i
            BY <2>1, <3>2, TimerAssumption DEF HandleSound, Objects
        <3> QED BY <1>1, <1>6, <2>1, <2>2, <2>3, <3>1, <3>2, <3>3 DEF HandleSound, TypeOK, Idle
    <2> QED BY <1>8, <2>5, <2>6, <2>7, <2>8, <2>9, <2>10
<1> QED BY <1>2, <1>9, <1>10

\* A one-shot object and its timer.
LEMMA CreateOneShotKeeps ==
    ASSUME IInv, NEW u \in Users, NEW o \in OneShots, CreateOneShot(u, o)
    PROVE  IInv'
<1> USE DEF IInv
<1>1. /\ ~stop /\ life[o] = "new" /\ TableFree /\ posts < MaxPosts
      /\ life' = [life EXCEPT ![o] = "open"] /\ UNCHANGED <<th, now, stop, handle, lock, user>>
      /\ o \in Objects /\ o \notin Clients
    BY TimerAssumption DEF CreateOneShot, Objects
<1>2. PICK i \in Slots : IsFirstFree(i) /\ Added(i, o)
    BY DEF CreateOneShot
<1>3. /\ slot' = [slot EXCEPT ![i] = [of |-> o, last |-> now]] /\ posts' = posts + 1
      /\ slot[i].of = "none" /\ i # NoTimer
    BY <1>2, TimerAssumption DEF Added, IsFirstFree, Used, Unused, Slots, NoTimer
<1>4. \A j \in Slots : slot'[j] = IF j = i THEN [of |-> o, last |-> now] ELSE slot[j]
    BY <1>3 DEF TypeOK
<1>5. posts' \in 0..(MaxPosts + 1) /\ posts' <= MaxPosts
    BY <1>1, <1>3, TimerAssumption DEF TypeOK
<1>6. \A c \in Clients : life'[c] = life[c] /\ c \in Objects
    BY <1>1 DEF TypeOK, Objects
<1>7. TypeOK'
    <2>1. slot' \in [Slots -> [of : Objects \union {"none"}, last : Ticks]]
        BY <1>1, <1>3 DEF TypeOK
    <2> QED BY <1>1, <1>5, <2>1 DEF TypeOK
<1>8. SlotInv'
    BY <1>1, <1>4, TimerAssumption DEF SlotInv
<1>9. UserInv' /\ OpenInv' /\ StopInv'
    BY <1>1, <1>5, <1>6 DEF UserInv, OpenInv, StopInv
<1>10. ThreadInv'
    BY <1>1, <1>4 DEF ThreadInv, TableFree
<1>11. OneShotInv'
    <2> SUFFICES ASSUME th.at # "cleaned"
                 PROVE  OneShotInv'
        BY <1>1 DEF OneShotInv
    <2>1. \A j \in Slots : slot[j].of # o
        BY <1>1 DEF OneShotInv
    <2>2. \A p \in OneShots : life'[p] = IF p = o THEN "open" ELSE life[p]
        BY <1>1 DEF TypeOK, Objects
    <2> QED BY <1>1, <1>4, <2>1, <2>2 DEF OneShotInv
<1>12. HandleSound'
    <2> SUFFICES ASSUME th.at # "cleaned"
                 PROVE  HandleSound'
        BY <1>1 DEF HandleSound
    <2>1. \A c \in Clients : handle[c] # NoTimer => handle[c] \in Slots /\ handle[c] # i
        BY <1>3, <1>6, TimerAssumption DEF HandleSound, TypeOK
    <2>2. \A v \in Users : user[v].timer # NoTimer =>
            user[v].timer \in Slots /\ user[v].of \in Clients
        BY DEF UserInv, TypeOK, Idle
    <2>3. \A v \in Users : user[v].timer # NoTimer => user[v].timer # i
        BY <1>3, <1>6, <2>2, TimerAssumption DEF HandleSound
    <2> QED BY <1>1, <1>4, <1>6, <2>1, <2>2, <2>3 DEF HandleSound
<1> QED BY <1>7, <1>8, <1>9, <1>10, <1>11, <1>12

\* The handle is taken out of an open object, which is closed or deleted.
LEMMA TakenKeeps ==
    ASSUME IInv, NEW u \in Users, NEW c \in Clients, NEW l \in Over,
           user[u].at = "out", ~stop, life[c] = "open",
           handle' = [handle EXCEPT ![c] = NoTimer], life' = [life EXCEPT ![c] = l],
           user' = IF handle[c] = NoTimer THEN user
                   ELSE [user EXCEPT ![u] = [at |-> "delete", of |-> c, timer |-> handle[c]]],
           UNCHANGED <<slot, th, now, posts, stop, lock>>
    PROVE  IInv'
<1> USE DEF IInv
<1> DEFINE next == IF handle[c] = NoTimer THEN user[u]
                   ELSE [at |-> "delete", of |-> c, timer |-> handle[c]]
<1>1. /\ user[u] = Idle /\ ~stop /\ life[c] = "open"
      /\ handle' = [handle EXCEPT ![c] = NoTimer] /\ life' = [life EXCEPT ![c] = l]
      /\ UNCHANGED <<slot, th, now, posts, stop, lock>> /\ c \in Objects /\ c \notin OneShots
    BY TimerAssumption DEF UserInv, Objects
<1>2. \A v \in Users : user'[v] = IF v = u THEN next ELSE user[v]
    BY DEF TypeOK
<1>3. next \in [at : {"out", "create", "delete", "kill"},
                of : Objects \union {"none"}, timer : Slots \union {NoTimer}]
    BY <1>1 DEF TypeOK
<1>4. \A d \in Clients, v \in Users :
        lock'[d] = v <=> user'[v].at = "create" /\ user'[v].of = d
    BY <1>1, <1>2 DEF TypeOK, Idle
<1>5. TypeOK'
    <2>1. user' \in [Users -> [at : {"out", "create", "delete", "kill"},
                               of : Objects \union {"none"}, timer : Slots \union {NoTimer}]]
        BY <1>3 DEF TypeOK
    <2>2. handle' \in [Clients -> Slots \union {NoTimer}]
        BY <1>1 DEF TypeOK
    <2>3. life' \in [Objects -> {"new", "open", "closed", "deleting"}]
        BY <1>1 DEF TypeOK, Over
    <2> QED BY <1>1, <1>4, <2>1, <2>2, <2>3 DEF TypeOK
<1>6. UserInv'
    <2>1. next.at = "out" => next = Idle
        BY <1>1 DEF Idle
    <2>2. next.at # "create"
        BY <1>1 DEF Idle
    <2>3. next.at \in {"delete", "kill"} => next.of = c /\ next.timer # NoTimer
        BY <1>1 DEF Idle
    <2>4. life'[c] = l /\ \A d \in Objects : d # c => life'[d] = life[d]
        BY <1>1 DEF TypeOK
    <2> QED BY <1>1, <1>2, <2>1, <2>2, <2>3, <2>4 DEF UserInv, Objects
<1>7. SlotInv' /\ ThreadInv' /\ StopInv'
    BY <1>1 DEF SlotInv, ThreadInv, StopInv
<1>8. OpenInv' /\ OneShotInv'
    BY <1>1 DEF OpenInv, OneShotInv, TypeOK, Objects
<1>9. HandleSound'
    <2> SUFFICES ASSUME th.at # "cleaned"
                 PROVE  HandleSound'
        BY <1>1 DEF HandleSound
    <2>1. \A d \in Clients : /\ handle'[d] = IF d = c THEN NoTimer ELSE handle[d]
                             /\ d # c => life'[d] = life[d]
        BY <1>1 DEF TypeOK, Objects
    <2>2. user'[u].timer = handle[c] /\ (handle[c] # NoTimer => user'[u].of = c)
        BY <1>1, <1>2 DEF Idle
    <2>3. \A v \in Users : user[v].timer # NoTimer => user[v].timer \in Slots /\ v # u
        BY <1>1 DEF TypeOK, Idle
    <2>4. \A v \in Users : user[v].timer # NoTimer => user[v].of # c
        BY <1>1, <2>3 DEF UserInv, TypeOK, Idle, Over
    <2>5. handle[c] # NoTimer => handle[c] \in Slots /\ slot[handle[c]].of = c
        BY DEF HandleSound, TypeOK
    <2>6. \A i \in Slots : slot'[i].of \in Clients =>
            handle'[slot'[i].of] = i \/ \E v \in Users : user'[v].timer = i
        BY <1>1, <1>2, <2>1, <2>2, <2>3 DEF HandleSound, NoTimer, Slots
    <2>7. \A v, w \in Users :
            user'[v].timer # NoTimer /\ user'[v].timer = user'[w].timer => v = w
        BY <1>2, <2>2, <2>3, <2>4, <2>5 DEF HandleSound
    <2>8. \A v \in Users : user'[v].timer # NoTimer => slot'[user'[v].timer].of = user'[v].of
        BY <1>1, <1>2, <2>2, <2>5 DEF HandleSound
    <2> QED BY <1>1, <2>1, <2>6, <2>7, <2>8 DEF HandleSound
<1> QED BY <1>5, <1>6, <1>7, <1>8, <1>9

LEMMA CloseKeeps ==
    ASSUME IInv, NEW u \in Users, NEW c \in Clients, Close(u, c) \/ DeleteOpen(u, c)
    PROVE  IInv'
BY TakenKeeps DEF Close, DeleteOpen, Over

\* A timer that is used is to be deleted, one that is not is refused.
LEMMA DeleteKeeps ==
    ASSUME IInv, NEW u \in Users, Delete(u)
    PROVE  IInv'
<1> USE DEF IInv
<1>1. /\ user[u].at = "delete" /\ UNCHANGED <<slot, th, now, posts, stop, handle, life, lock>>
      /\ user[u].of \in Clients /\ user[u].timer \in Slots /\ user[u].timer # NoTimer
    BY DEF Delete, UserInv, TypeOK
<1>2. \A v \in Users : user'[v] = IF v # u THEN user[v]
                                  ELSE IF Used(user[u].timer) THEN [user[u] EXCEPT !.at = "kill"]
                                  ELSE Idle
    BY DEF Delete, TypeOK
<1>3. Idle \in [at : {"out", "create", "delete", "kill"},
                of : Objects \union {"none"}, timer : Slots \union {NoTimer}]
    BY DEF Idle
<1>4. user' \in [Users -> [at : {"out", "create", "delete", "kill"},
                           of : Objects \union {"none"}, timer : Slots \union {NoTimer}]]
    BY <1>3 DEF Delete, TypeOK
<1>5. /\ user'[u].at \in {"kill", "out"}
      /\ user'[u].at = "out" => user'[u] = Idle
      /\ user'[u].at = "kill" => user'[u].of = user[u].of /\ user'[u].timer = user[u].timer
    BY <1>2 DEF Idle, TypeOK
<1>6. \A d \in Clients, v \in Users :
        lock'[d] = v <=> user'[v].at = "create" /\ user'[v].of = d
    BY <1>1, <1>2, <1>5 DEF TypeOK
<1>7. TypeOK'
    BY <1>1, <1>4, <1>6 DEF TypeOK
<1>8. UserInv'
    BY <1>1, <1>2, <1>5 DEF UserInv
<1>9. SlotInv' /\ OpenInv' /\ ThreadInv' /\ OneShotInv'
    BY <1>1 DEF SlotInv, OpenInv, ThreadInv, OneShotInv
<1>10. StopInv'
    BY <1>1 DEF StopInv
<1>11. HandleSound'
    <2> SUFFICES ASSUME th.at # "cleaned"
                 PROVE  HandleSound'
        BY <1>1 DEF HandleSound
    <2>1. slot[user[u].timer].of \in Objects
        BY <1>1 DEF HandleSound, Objects
    <2>2. Used(user[u].timer)
        BY <1>1, <2>1, UsedHasOwner
    <2>3. \A v \in Users : user'[v].timer = user[v].timer /\ user'[v].of = user[v].of
        BY <1>2, <2>2 DEF TypeOK
    <2> QED BY <1>1, <2>3 DEF HandleSound
<1> QED BY <1>7, <1>8, <1>9, <1>10, <1>11

\* The slot of a closed object is free again.
LEMMA KillKeeps ==
    ASSUME IInv, NEW u \in Users, Kill(u)
    PROVE  IInv'
<1> USE DEF IInv
<1> DEFINE i == user[u].timer
<1>1. /\ user[u].at = "kill" /\ TableFree /\ user' = [user EXCEPT ![u] = Idle]
      /\ slot' = [slot EXCEPT ![i] = Unused]
      /\ UNCHANGED <<th, now, posts, stop, handle, life, lock>>
      /\ user[u].of \in Clients /\ life[user[u].of] \in Over /\ i \in Slots /\ i # NoTimer
    BY DEF Kill, UserInv, TypeOK
<1>2. \A v \in Users : user'[v] = IF v = u THEN Idle ELSE user[v]
    BY <1>1 DEF TypeOK
<1>3. \A j \in Slots : slot'[j] = IF j = i THEN Unused ELSE slot[j]
    BY <1>1 DEF TypeOK
<1>4. TypeOK'
    <2>1. Unused \in [of : Objects \union {"none"}, last : Ticks]
        BY TimerAssumption DEF Unused, Ticks
    <2>2. slot' \in [Slots -> [of : Objects \union {"none"}, last : Ticks]]
        BY <1>1, <2>1 DEF TypeOK
    <2>3. Idle \in [at : {"out", "create", "delete", "kill"},
                    of : Objects \union {"none"}, timer : Slots \union {NoTimer}]
        BY DEF Idle
    <2>4. user' \in [Users -> [at : {"out", "create", "delete", "kill"},
                               of : Objects \union {"none"}, timer : Slots \union {NoTimer}]]
        BY <1>1, <2>3 DEF TypeOK
    <2>5. \A d \in Clients, v \in Users :
            lock'[d] = v <=> user'[v].at = "create" /\ user'[v].of = d
        BY <1>1, <1>2 DEF TypeOK, Idle
    <2> QED BY <1>1, <2>2, <2>4, <2>5 DEF TypeOK
<1>5. SlotInv'
    BY <1>3 DEF SlotInv
<1>6. UserInv'
    BY <1>1, <1>2 DEF UserInv, Idle
<1>7. OpenInv' /\ StopInv'
    BY <1>1, <1>2 DEF OpenInv, StopInv, Idle
<1>8. ThreadInv'
    BY <1>1 DEF ThreadInv, TableFree
<1>9. OneShotInv'
    BY <1>1, <1>3, TimerAssumption DEF OneShotInv, Unused, Objects
<1>10. HandleSound'
    <2> SUFFICES ASSUME th.at # "cleaned"
                 PROVE  HandleSound'
        BY <1>1 DEF HandleSound
    <2>1. slot[i].of = user[u].of
        BY <1>1 DEF HandleSound
    <2>2. \A c \in Clients : handle[c] # NoTimer => handle[c] \in Slots /\ handle[c] # i
        BY <1>1, <2>1 DEF HandleSound, TypeOK, Over
    <2>3. \A v \in Users : v # u /\ user[v].timer # NoTimer =>
            user[v].timer \in Slots /\ user[v].timer # i
        BY <1>1 DEF HandleSound, TypeOK
    <2>4. Idle.timer = NoTimer /\ Unused.of \notin Clients
        BY TimerAssumption DEF Idle, Unused, Objects
    <2> QED BY <1>1, <1>2, <1>3, <2>2, <2>3, <2>4 DEF HandleSound
<1> QED BY <1>4, <1>5, <1>6, <1>7, <1>8, <1>9, <1>10

\* A closed object is deleted and another one made.
LEMMA ReplaceKeeps ==
    ASSUME IInv, NEW c \in Clients, Replace(c)
    PROVE  IInv'
<1> USE DEF IInv
<1>1. /\ life[c] \in Over /\ \A u \in Users : user[u].of # c
      /\ life' = [life EXCEPT ![c] = "new"]
      /\ UNCHANGED <<slot, th, now, posts, stop, handle, lock, user>>
      /\ c \in Objects /\ c \notin OneShots
    BY TimerAssumption DEF Replace, Objects, Over
<1>2. \A d \in Objects : d # c => life'[d] = life[d]
    BY <1>1 DEF TypeOK
<1>3. TypeOK' /\ SlotInv' /\ ThreadInv' /\ StopInv'
    BY <1>1 DEF TypeOK, SlotInv, ThreadInv, StopInv
<1>4. UserInv'
    BY <1>1, <1>2 DEF UserInv, Objects
<1>5. OpenInv' /\ OneShotInv'
    BY <1>1, <1>2 DEF OpenInv, OneShotInv, Objects, Over
<1>6. HandleSound'
    BY <1>1, <1>2 DEF HandleSound, Objects, OpenInv, Over
<1> QED BY <1>3, <1>4, <1>5, <1>6

\* The thread is told to stop when nobody uses the timers.
LEMMA StopKeeps ==
    ASSUME IInv, Stop
    PROVE  IInv'
<1> USE DEF IInv
<1>1. posts' \in 0..(MaxPosts + 1) /\ stop' = TRUE
    BY TimerAssumption DEF Stop, StopInv, TypeOK
<1>2. TypeOK'
    BY <1>1 DEF Stop, TypeOK
<1>3. SlotInv' /\ UserInv' /\ OpenInv' /\ ThreadInv' /\ OneShotInv' /\ StopInv' /\ HandleSound'
    BY <1>1 DEF Stop, SlotInv, UserInv, OpenInv, ThreadInv, OneShotInv, StopInv, HandleSound
<1> QED BY <1>2, <1>3

\* The timers that are left are deleted.
LEMMA CleanupKeeps ==
    ASSUME IInv, Cleanup
    PROVE  IInv'
<1> USE DEF IInv
<1>1. /\ slot' = [i \in Slots |-> Unused] /\ th' = [th EXCEPT !.at = "cleaned"]
      /\ UNCHANGED <<now, posts, stop, handle, life, lock, user>>
    BY DEF Cleanup
<1>2. Unused \in [of : Objects \union {"none"}, last : Ticks]
    BY TimerAssumption DEF Unused, Ticks
<1>3. TypeOK' /\ th'.at = "cleaned"
    BY <1>1, <1>2 DEF TypeOK
<1>4. SlotInv' /\ UserInv' /\ OpenInv' /\ ThreadInv' /\ OneShotInv' /\ StopInv' /\ HandleSound'
    BY <1>1, <1>3 DEF SlotInv, UserInv, OpenInv, ThreadInv, OneShotInv, StopInv, HandleSound
<1> QED BY <1>3, <1>4

-----------------------------------------------------------------------------
(* The theorems.                                                            *)

LEMMA InitInvariant == Init => IInv
<1> SUFFICES ASSUME Init PROVE IInv
    OBVIOUS
<1>1. TypeOK
    <2>1. 0 \in Ticks /\ 1 \in 1..(NoOfTimers + 1) /\ MaxWait \in 1..MaxWait
          /\ 0 \in 0..MaxWait /\ 0 \in 0..MaxBusy /\ 0 \in 0..(MaxPosts + 1)
        BY TimerAssumption DEF Ticks
    <2>2. slot \in [Slots -> [of : Objects \union {"none"}, last : Ticks]]
        BY <2>1 DEF Init, Unused
    <2>3. th \in Running
        BY <2>1 DEF Init, Running
    <2>4. user \in [Users -> [at : {"out", "create", "delete", "kill"},
                              of : Objects \union {"none"}, timer : Slots \union {NoTimer}]]
        BY DEF Init, Idle
    <2>5. \A c \in Clients, u \in Users :
            lock[c] = u <=> user[u].at = "create" /\ user[u].of = c
        BY TimerAssumption DEF Init, Idle
    <2>6. handle \in [Clients -> Slots \union {NoTimer}] /\ lock \in [Clients -> Users \union {Free}]
          /\ life \in [Objects -> {"new", "open", "closed", "deleting"}]
        BY DEF Init
    <2> QED BY <2>1, <2>2, <2>3, <2>4, <2>5, <2>6 DEF Init, TypeOK, Running
<1>2. SlotInv /\ UserInv /\ OpenInv /\ ThreadInv
    BY DEF Init, SlotInv, UserInv, OpenInv, ThreadInv, Idle
<1>3. OneShotInv /\ StopInv /\ HandleSound
    BY TimerAssumption DEF Init, OneShotInv, StopInv, HandleSound, Unused, Idle, Objects
<1> QED BY <1>1, <1>2, <1>3 DEF IInv

LEMMA StepInvariant == IInv /\ [Next]_vars => IInv'
<1> SUFFICES ASSUME IInv, [Next]_vars PROVE IInv'
    OBVIOUS
<1>1. CASE UNCHANGED vars
    BY <1>1 DEF vars, IInv, TypeOK, SlotInv, UserInv, OpenInv, ThreadInv, OneShotInv, StopInv,
                HandleSound, Used
<1>2. CASE Next
    BY <1>2, PassKeeps, FireKeeps, OneShotKeeps, OpenKeeps, CreateKeeps, CreateOneShotKeeps,
       CloseKeeps, DeleteKeeps, KillKeeps, ReplaceKeeps, StopKeeps, CleanupKeeps
    DEF Next, Pass, UserStep
<1> QED BY <1>1, <1>2

\* The timers are always as IInv says.
THEOREM TimerInvariant == Spec => []IInv
BY InitInvariant, StepInvariant, PTL DEF Spec

\* Every handle names a timer of its owner and every timer has one owner that
\* will delete it, for any number of slots, objects and users
\* (OpcUa_P_Timer_Create, OpcUa_P_Timer_Delete).
THEOREM HandlesSound == Spec => []HandleSound
<1>1. IInv => HandleSound
    BY DEF IInv
<1> QED BY <1>1, TimerInvariant, PTL

\* No callback runs for an object that has been deleted
\* (OpcUa_P_Timer_ProcessTimers against OpcUa_P_Timer_Delete).
THEOREM OwnersAlive == Spec => []OwnerAlive
<1>1. IInv => OwnerAlive
  <2> SUFFICES ASSUME IInv, th.at \in {"enter", "leave", "oneShot"}
               PROVE  Used(th.i) /\ life[slot[th.i].of] # "new"
      BY DEF OwnerAlive
  <2>1. th.i \in Slots /\ th.at # "cleaned"
      BY DEF IInv, ThreadInv
  <2>2. Used(th.i)
      BY <2>1, UsedHasOwner DEF IInv, ThreadInv, Objects
  <2>3. CASE th.at = "oneShot"
      BY <2>1, <2>2, <2>3 DEF IInv, ThreadInv, OneShotInv
  <2>4. CASE th.at \in {"enter", "leave"}
      <3>1. slot[th.i].of \in Clients
          BY <2>4 DEF IInv, ThreadInv
      <3>2. CASE handle[slot[th.i].of] = th.i
          <4>1. th.i # NoTimer
              BY <2>1, TimerAssumption DEF Slots, NoTimer
          <4> QED BY <2>2, <3>1, <3>2, <4>1 DEF IInv, OpenInv
      <3>3. ASSUME NEW u \in Users, user[u].timer = th.i
            PROVE  life[slot[th.i].of] \in Over
          <4>1. th.i # NoTimer
              BY <2>1, TimerAssumption DEF Slots, NoTimer
          <4>2. slot[th.i].of = user[u].of
              BY <2>1, <3>3, <4>1 DEF IInv, HandleSound
          <4>3. user[u].at \in {"delete", "kill"}
              BY <3>3, <4>1 DEF IInv, UserInv, TypeOK, Idle
          <4> QED BY <4>2, <4>3 DEF IInv, UserInv
      <3> QED BY <2>1, <2>2, <3>1, <3>2, <3>3 DEF IInv, HandleSound, Over
  <2> QED BY <2>3, <2>4
<1> QED BY <1>1, TimerInvariant, PTL

-----------------------------------------------------------------------------
(* How late a timer can be.                                                 *)

InPass == th.at \in {"scan", "enter", "leave", "oneShot", "fired"}
Elapsed == Since(th.start)      \* time since the pass began
Age(i) == Since(slot[i].last)   \* time since timer i was called last
Length(i) == Interval[slot[i].of]

\* A pass is not longer than the thread is busy.
BusyInv == InPass => Elapsed <= th.busy

\* A timer is late by what the thread was busy since it slept and before.
LateInv ==
    th.at \notin {"ended", "cleaned"} =>
        \A i \in Slots : Used(i) => Age(i) <= Length(i) + MaxBusy + th.busy

\* The wait that a pass has computed so far is short enough for the timers it
\* has seen, counted from the beginning of the pass.
PassedInv ==
    InPass => \A i \in Slots : Used(i) /\ i < th.i => Age(i) + th.nearest <= Length(i) + Elapsed

\* A timer whose callback runs was called in this pass.
CalledInv == th.at \in {"enter", "leave", "oneShot", "fired"} => Age(th.i) <= Elapsed

\* A thread that nobody woke sleeps no longer than its timers allow.
SleepInv ==
    th.at = "wait" /\ posts = 0 =>
        \A i \in Slots : Used(i) => Age(i) + th.left <= Length(i) + MaxBusy + th.busy

TimeInv == BusyInv /\ LateInv /\ PassedInv /\ CalledInv /\ SleepInv

\* The remainder of a number that is less than twice the divisor away from 0.
LEMMA Remainder ==
    ASSUME NEW n \in Int, -Wrap <= n, n < 2 * Wrap
    PROVE  n % Wrap = IF n < 0 THEN n + Wrap ELSE IF n < Wrap THEN n ELSE n - Wrap
<1>1. CASE n < 0
    BY <1>1, TimerAssumption
<1>2. CASE n \in 0..(Wrap - 1)
    BY <1>2, TimerAssumption
<1>3. CASE n >= Wrap
    BY <1>3, TimerAssumption
<1> QED BY <1>1, <1>2, <1>3, TimerAssumption

\* The time from one tick to another.
LEMMA Difference ==
    ASSUME NEW a \in Ticks, NEW b \in Ticks
    PROVE  (a - b) % Wrap = IF a - b < 0 THEN a - b + Wrap ELSE a - b
<1>1. a \in Int /\ b \in Int /\ a >= 0 /\ b >= 0 /\ a < Wrap /\ b < Wrap /\ Wrap \in Int
    BY TimerAssumption DEF Ticks
<1>2. a - b \in Int /\ -Wrap <= a - b /\ a - b < Wrap
    BY <1>1
<1> QED BY <1>1, <1>2, Remainder

\* A tick makes the time since t longer by one, as long as that is not a whole
\* round of the tick count.
LEMMA TickAdds ==
    ASSUME NEW n \in Ticks, NEW t \in Ticks, ((n - t) % Wrap) + 1 < Wrap
    PROVE  (((n + 1) % Wrap) - t) % Wrap = ((n - t) % Wrap) + 1
<1>1. n \in Int /\ t \in Int /\ n >= 0 /\ t >= 0 /\ n < Wrap /\ t < Wrap /\ Wrap \in Int
    BY TimerAssumption DEF Ticks
<1>2. (n - t) % Wrap = IF n - t < 0 THEN n - t + Wrap ELSE n - t
    BY Difference
<1>3. (n + 1) % Wrap = IF n + 1 < Wrap THEN n + 1 ELSE n + 1 - Wrap
    BY <1>1, Remainder
<1>4. CASE n + 1 < Wrap
    <2>1. (n + 1 - t) % Wrap = IF n + 1 - t < 0 THEN n + 1 - t + Wrap ELSE n + 1 - t
        BY <1>1, <1>4, Remainder
    <2> QED BY <1>1, <1>2, <1>3, <1>4, <2>1
<1>5. CASE n + 1 = Wrap
    <2>1. (0 - t) % Wrap = IF t = 0 THEN 0 ELSE Wrap - t
        BY <1>1, Remainder
    <2> QED BY <1>1, <1>2, <1>3, <1>5, <2>1
<1> QED BY <1>1, <1>4, <1>5

\* From the beginning s of a pass until a timer of length d that was called at l
\* is due it takes d, and what has passed since s, less what has passed since l.
LEMMA TimeToDue ==
    ASSUME NEW n \in Ticks, NEW s \in Ticks, NEW l \in Ticks, NEW d \in 0..Wrap,
           NEW e, e = (n - s) % Wrap, NEW a, a = (n - l) % Wrap,
           d + e - a \in 0..(Wrap - 1)
    PROVE  (((l + d) % Wrap) - s) % Wrap = d + e - a
<1> DEFINE r == d + e - a
<1>1. /\ n \in Int /\ s \in Int /\ l \in Int /\ d \in Int /\ r \in Int /\ Wrap \in Int
      /\ n >= 0 /\ n < Wrap /\ s >= 0 /\ s < Wrap /\ l >= 0 /\ l < Wrap /\ d >= 0 /\ d <= Wrap
      /\ r >= 0 /\ r < Wrap
    BY TimerAssumption DEF Ticks
<1>2. (n - s) % Wrap = IF n - s < 0 THEN n - s + Wrap ELSE n - s
    BY Difference
<1>3. (n - l) % Wrap = IF n - l < 0 THEN n - l + Wrap ELSE n - l
    BY Difference
<1> DEFINE m == (l + d) % Wrap
<1>4. m = IF l + d < Wrap THEN l + d ELSE l + d - Wrap
    BY <1>1, Remainder
<1>5. m \in Int /\ m >= 0 /\ m < Wrap
    BY <1>1, <1>4
<1>6. (m - s) % Wrap = IF m - s < 0 THEN m - s + Wrap ELSE m - s
    <2>1. m \in Ticks
        BY <1>1, <1>5 DEF Ticks
    <2> QED BY <2>1, Difference
<1> QED BY <1>1, <1>2, <1>3, <1>4, <1>5, <1>6

\* The times are times, and no timer is so long that its lateness goes round.
LEMMA Times ==
    ASSUME TypeOK, SlotInv
    PROVE  /\ Elapsed \in 0..(Wrap - 1) /\ th.busy \in 0..MaxBusy
           /\ th.nearest \in 1..MaxWait /\ th.left \in 0..MaxWait
           /\ \A i \in Slots : Age(i) \in 0..(Wrap - 1)
           /\ \A i \in Slots : Used(i) =>
                Length(i) \in 1..Wrap /\ Length(i) + 2 * MaxBusy < Wrap
<1>1. now \in Int /\ th.start \in Int /\ \A i \in Slots : slot[i].last \in Int
    BY TimerAssumption DEF TypeOK, Ticks
<1>2. Elapsed \in Ticks /\ \A i \in Slots : Age(i) \in Ticks
    BY <1>1, TickRange DEF Elapsed, Age, Since
<1>3. \A i \in Slots : Used(i) => Length(i) \in 1..Wrap /\ Length(i) + 2 * MaxBusy < Wrap
    BY UsedHasOwner, TimerAssumption DEF Length
<1> QED BY <1>2, <1>3 DEF TypeOK, Ticks

\* Looking at a timer makes the wait shorter, to the time until it is due.
LEMMA NearestShorter ==
    ASSUME TypeOK, NEW due \in Int
    PROVE  /\ Nearest(due) <= th.nearest
           /\ (due - th.start) % Wrap >= 1 => Nearest(due) <= (due - th.start) % Wrap
<1> DEFINE w == (due - th.start) % Wrap
<1>1. w \in Int /\ w >= 0
    <2>1. due - th.start \in Int
        BY TimerAssumption DEF TypeOK, Ticks
    <2>2. w \in Ticks
        BY <2>1, TickRange
    <2> HIDE DEF w
    <2> QED BY <2>2, TimerAssumption DEF Ticks
<1>2. th.nearest \in Int
    BY TimerAssumption DEF TypeOK
<1>3. Nearest(due) = Min2(th.nearest, IF w = 0 THEN 1 ELSE w)
    BY DEF Nearest
<1> HIDE DEF w
<1>4. Nearest(due) <= th.nearest /\ (w >= 1 => Nearest(due) <= w)
    BY <1>1, <1>2, <1>3 DEF Min2
<1> QED BY <1>4 DEF w

\* A timer that is not due, or was called in this pass, has been seen.
LEMMA Seen ==
    ASSUME TypeOK, SlotInv, th.i \in Slots, Used(th.i), Elapsed <= th.busy,
           Age(th.i) < Length(th.i) \/ Age(th.i) <= Elapsed
    PROVE  Age(th.i) + Nearest(Due(th.i)) <= Length(th.i) + Elapsed
<1> DEFINE r == Length(th.i) + Elapsed - Age(th.i)
<1>1. r \in 1..(Wrap - 1) /\ r \in 0..(Wrap - 1)
    BY Times, TimerAssumption
<1>2. Length(th.i) \in 0..Wrap /\ now \in Ticks /\ th.start \in Ticks /\ slot[th.i].last \in Ticks
    BY Times DEF TypeOK
<1>3. Elapsed = (now - th.start) % Wrap /\ Age(th.i) = (now - slot[th.i].last) % Wrap
    BY DEF Elapsed, Age, Since
<1>4. (Due(th.i) - th.start) % Wrap = r
    BY <1>1, <1>2, <1>3, TimeToDue DEF Due, Length
<1>5. Due(th.i) \in Int /\ Nearest(Due(th.i)) \in 1..MaxWait
    BY DueRange, NearestRange, UsedHasOwner
<1>6. Nearest(Due(th.i)) <= r
    BY <1>1, <1>4, <1>5, NearestShorter
<1> QED BY <1>1, <1>5, <1>6, Times, TimerAssumption

-----------------------------------------------------------------------------
(* The steps of the pass.                                                   *)

\* Timers are as old as they were if no time passes and no timer changes.
LEMMA SameAges ==
    ASSUME UNCHANGED <<slot, now>>
    PROVE  \A i \in Slots : /\ Age(i)' = Age(i) /\ Length(i)' = Length(i)
                            /\ Used(i)' <=> Used(i)
BY DEF Age, Since, Length, Used

LEMMA PassInTime ==
    ASSUME IInv, TimeInv, Begin \/ SkipSlot \/ NotDue \/ Fired \/ EndPass \/ Enter \/ Leave \/ Wake
    PROVE  TimeInv'
<1> USE DEF TimeInv, IInv
<1>0. /\ \A i \in Slots : /\ Age(i)' = Age(i) /\ Length(i)' = Length(i)
                          /\ Used(i)' <=> Used(i)
      /\ UNCHANGED now
    BY SameAges DEF Begin, SkipSlot, NotDue, Fired, EndPass, Enter, Leave, Wake
<1>1. CASE Begin
    <2>1. \/ th'.at = "ended"
          \/ /\ th'.at = "scan" /\ th'.i = 1 /\ th'.start = now /\ th'.busy = th.busy
             /\ th.at = "begin"
        BY <1>1 DEF Begin, TypeOK
    <2>2. Elapsed' = 0 \/ th'.at = "ended"
        <3>1. now \in Ticks /\ (now - now) % Wrap = 0
            BY Difference, TimerAssumption DEF TypeOK, Ticks
        <3> QED BY <1>0, <2>1, <3>1 DEF Elapsed, Since
    <2> QED BY <1>0, <2>1, <2>2, Times, TimerAssumption
            DEF BusyInv, LateInv, PassedInv, CalledInv, SleepInv, InPass, Slots
<1>2. CASE SkipSlot
    <2>1. /\ th'.at = "scan" /\ th.at = "scan" /\ ~Used(th.i) /\ th.i \in Slots
          /\ th'.i = th.i + 1 /\ th'.nearest = th.nearest
          /\ th'.busy = th.busy /\ th'.start = th.start
        BY <1>2 DEF SkipSlot, TypeOK
    <2>2. Elapsed' = Elapsed
        BY <1>0, <2>1 DEF Elapsed, Since
    <2> QED BY <1>0, <2>1, <2>2, TimerAssumption
            DEF BusyInv, LateInv, PassedInv, CalledInv, SleepInv, InPass, Slots
<1>3. CASE NotDue \/ Fired
    <2>1. /\ th'.at = "scan" /\ th.at \in {"scan", "fired"} /\ th.i \in Slots /\ Used(th.i)
          /\ th'.i = th.i + 1 /\ th'.nearest = Nearest(Due(th.i))
          /\ th'.busy = th.busy /\ th'.start = th.start
        <3>1. CASE NotDue
            BY <3>1 DEF NotDue, TypeOK
        <3>2. CASE Fired
            <4>1. th.i \in Slots /\ slot[th.i].of \in Objects
                BY <3>2 DEF Fired, ThreadInv, Objects
            <4> QED BY <3>2, <4>1, UsedHasOwner DEF Fired, TypeOK
        <3> QED BY <1>3, <3>1, <3>2
    <2>2. Elapsed' = Elapsed
        BY <1>0, <2>1 DEF Elapsed, Since
    <2>3. Due(th.i) \in Int /\ th'.nearest \in 1..MaxWait /\ th'.nearest <= th.nearest
        BY <2>1, DueRange, NearestRange, NearestShorter, UsedHasOwner
    <2>4. Age(th.i) < Length(th.i) \/ Age(th.i) <= Elapsed
        <3>1. CASE NotDue
            BY <2>1, <3>1, Times, TimerAssumption DEF NotDue, IsDue, Age, Length
        <3>2. CASE Fired
            BY <3>2 DEF Fired, CalledInv
        <3> QED BY <1>3, <3>1, <3>2
    <2>5. Age(th.i) + th'.nearest <= Length(th.i) + Elapsed
        BY <2>1, <2>4, Seen DEF BusyInv, InPass
    <2>6. PassedInv'
        <3> SUFFICES ASSUME NEW i \in Slots, Used(i), i < th.i + 1
                     PROVE  Age(i) + th'.nearest <= Length(i) + Elapsed
            BY <1>0, <2>1, <2>2 DEF PassedInv, InPass
        <3>1. CASE i = th.i
            BY <2>5, <3>1
        <3>2. CASE i < th.i
            <4>1. Age(i) + th.nearest <= Length(i) + Elapsed
                BY <2>1, <3>2 DEF PassedInv, InPass
            <4> QED BY <2>3, <4>1, Times, TimerAssumption
        <3> QED BY <2>1, <3>1, <3>2 DEF Slots
    <2> QED BY <1>0, <2>1, <2>2, <2>6 DEF BusyInv, LateInv, CalledInv, SleepInv, InPass
<1>4. CASE EndPass
    <2>1. /\ th.at = "scan" /\ th.i \notin Slots /\ th.nearest # 0
          /\ th'.at = "wait" /\ th'.left = th.nearest /\ th'.busy = 0
        BY <1>4, TimerAssumption DEF EndPass, TypeOK
    <2>2. \A i \in Slots : i < th.i
        BY <2>1, TimerAssumption DEF TypeOK, Slots
    <2>3. \A i \in Slots : Used(i) => Age(i) + th.nearest <= Length(i) + MaxBusy
        BY <2>1, <2>2, Times, TimerAssumption DEF PassedInv, BusyInv, InPass
    <2>4. \A i \in Slots : Used(i) => Age(i) <= Length(i) + MaxBusy
        BY <2>3, Times, TimerAssumption
    <2>5. \A i \in Slots : Used(i) => /\ Age(i) + th.nearest <= Length(i) + MaxBusy + 0
                                      /\ Age(i) <= Length(i) + MaxBusy + 0
        BY <2>3, <2>4, Times, TimerAssumption
    <2> QED BY <1>0, <2>1, <2>5 DEF BusyInv, LateInv, PassedInv, CalledInv, SleepInv, InPass
<1>5. CASE Enter \/ Leave
    <2>1. /\ th.at \in {"enter", "leave"} /\ th'.at \in {"leave", "fired"}
          /\ th'.i = th.i /\ th'.start = th.start /\ th'.busy = th.busy
          /\ th'.nearest = th.nearest /\ th.i \in Slots
        BY <1>5 DEF Enter, Leave, TypeOK, ThreadInv
    <2>2. Elapsed' = Elapsed
        BY <1>0, <2>1 DEF Elapsed, Since
    <2>3. CalledInv'
        <3>1. slot' = slot
            BY <1>5 DEF Enter, Leave
        <3> QED BY <1>0, <2>1, <2>2, <3>1 DEF CalledInv, Age, Since
    <2> QED BY <1>0, <2>1, <2>2, <2>3 DEF BusyInv, LateInv, PassedInv, SleepInv, InPass
<1>6. CASE Wake
    <2>1. th'.at = "begin" /\ th.at = "wait" /\ th'.busy = th.busy
        BY <1>6 DEF Wake, TypeOK
    <2> QED BY <1>0, <2>1 DEF BusyInv, LateInv, PassedInv, CalledInv, SleepInv, InPass
<1> QED BY <1>1, <1>2, <1>3, <1>4, <1>5, <1>6

LEMMA FireInTime ==
    ASSUME IInv, TimeInv, Fire
    PROVE  TimeInv'
<1> USE DEF TimeInv, IInv
<1>1. /\ th.at = "scan" /\ th.i \in Slots /\ Used(th.i)
      /\ slot' = [slot EXCEPT ![th.i].last = now]
      /\ th'.at \in {"oneShot", "enter"} /\ th'.i = th.i /\ th'.start = th.start
      /\ th'.busy = th.busy /\ th'.nearest = th.nearest /\ UNCHANGED now
    BY DEF Fire, TypeOK
<1>2. \A i \in Slots : Length(i)' = Length(i) /\ (i # th.i => Age(i)' = Age(i))
    BY <1>1 DEF TypeOK, Length, Age, Since
<1>3. slot'[th.i].last = now /\ \A i \in Slots : i # th.i => slot'[i] = slot[i]
    BY <1>1 DEF TypeOK
<1>4. (now - now) % Wrap = 0
    BY Difference, TimerAssumption DEF TypeOK, Ticks
<1>5. Age(th.i)' = 0
    BY <1>1, <1>3, <1>4 DEF Age, Since
<1>6. Elapsed' = Elapsed
    BY <1>1 DEF Elapsed, Since
<1>7. \A i \in Slots : i # th.i => (Used(i)' <=> Used(i))
    BY <1>3 DEF Used
<1>8. BusyInv' /\ SleepInv'
    BY <1>1, <1>6 DEF BusyInv, SleepInv, InPass
<1>9. LateInv'
    <2> SUFFICES ASSUME NEW i \in Slots, Used(i)'
                 PROVE  Age(i)' <= Length(i)' + MaxBusy + th'.busy
        BY DEF LateInv
    <2>1. CASE i = th.i
        BY <1>1, <1>2, <1>5, <2>1, Times, TimerAssumption
    <2>2. CASE i # th.i
        BY <1>1, <1>2, <1>7, <2>2 DEF LateInv
    <2> QED BY <2>1, <2>2
<1>10. PassedInv'
    <2> SUFFICES ASSUME NEW i \in Slots, Used(i)', i < th.i
                 PROVE  Age(i) + th.nearest <= Length(i) + Elapsed
        <3>1. \A i \in Slots : i < th.i => i # th.i
            BY TimerAssumption DEF Slots
        <3> QED BY <1>1, <1>2, <1>6, <3>1 DEF PassedInv
    <2>1. i # th.i
        BY <1>1 DEF Slots
    <2> QED BY <1>1, <1>7, <2>1 DEF PassedInv, InPass
<1>11. CalledInv'
    <2>1. 0 <= Elapsed
        BY Times, TimerAssumption
    <2> QED BY <1>1, <1>3, <1>4, <1>6, <2>1 DEF CalledInv, Age, Since
<1> QED BY <1>8, <1>9, <1>10, <1>11

LEMMA OneShotInTime ==
    ASSUME IInv, TimeInv, OneShot
    PROVE  TimeInv'
<1> USE DEF TimeInv, IInv
<1>1. /\ th.at = "oneShot" /\ th.i \in Slots /\ slot[th.i].of \in Objects
      /\ slot' = [slot EXCEPT ![th.i] = Unused]
      /\ th'.at = "scan" /\ th'.i = th.i + 1 /\ th'.start = th.start
      /\ th'.busy = th.busy /\ th'.nearest = Nearest(Due(th.i)) /\ UNCHANGED now
    BY DEF OneShot, ThreadInv, TypeOK, Objects
<1>2. Elapsed' = Elapsed
    BY <1>1 DEF Elapsed, Since
<1>3. \A i \in Slots : slot'[i] = IF i = th.i THEN Unused ELSE slot[i]
    BY <1>1 DEF TypeOK
<1>4. \A i \in Slots : Used(i)' =>
        i # th.i /\ Used(i) /\ Age(i)' = Age(i) /\ Length(i)' = Length(i)
    BY <1>1, <1>3 DEF Used, Age, Since, Length
<1>5. Due(th.i) \in Int /\ th'.nearest \in 1..MaxWait /\ th'.nearest <= th.nearest
    BY <1>1, DueRange, NearestRange, NearestShorter
<1>6. BusyInv' /\ LateInv' /\ CalledInv' /\ SleepInv'
    BY <1>1, <1>2, <1>4 DEF BusyInv, LateInv, CalledInv, SleepInv, InPass
<1>7. PassedInv'
    <2> SUFFICES ASSUME NEW i \in Slots, Used(i)', i < th.i + 1
                 PROVE  Age(i) + th'.nearest <= Length(i) + Elapsed
        BY <1>1, <1>2, <1>4 DEF PassedInv
    <2>1. i < th.i /\ Used(i)
        BY <1>1, <1>4 DEF Slots
    <2>2. Age(i) + th.nearest <= Length(i) + Elapsed
        BY <1>1, <2>1 DEF PassedInv, InPass
    <2> QED BY <1>5, <2>1, <2>2, Times, TimerAssumption
<1> QED BY <1>6, <1>7

\* Time passes: every timer is a tick older, and so is the pass.
LEMMA TickInTime ==
    ASSUME IInv, TimeInv, Tick
    PROVE  TimeInv'
<1> USE DEF TimeInv, IInv
<1>1. /\ th.at \notin {"ended", "cleaned"} /\ now' = (now + 1) % Wrap /\ th'.busy <= MaxBusy
      /\ th'.at = th.at /\ th'.i = th.i /\ th'.start = th.start /\ th'.nearest = th.nearest
      /\ UNCHANGED <<slot, posts>>
    BY DEF Tick, TypeOK
<1>2. \/ /\ th.at = "wait" /\ posts = 0 /\ th.left > 0
         /\ th'.left = th.left - 1 /\ th'.busy = th.busy
      \/ /\ ~(th.at = "wait" /\ posts = 0 /\ th.left > 0)
         /\ th'.left = th.left /\ th'.busy = th.busy + 1
    BY DEF Tick, TypeOK
<1>3. \A i \in Slots : Used(i) =>
        Age(i) \in 0..(Wrap - 1) /\ Length(i) \in 1..Wrap /\ Length(i) + 2 * MaxBusy < Wrap
    BY Times
<1>4. /\ th.busy \in 0..MaxBusy /\ th.left \in 0..MaxWait /\ Elapsed \in 0..(Wrap - 1)
      /\ MaxBusy \in Nat /\ Wrap \in Nat /\ MaxWait \in Nat /\ th.nearest \in 1..MaxWait
    BY Times, TimerAssumption
<1>5. \A i \in Slots : Used(i) => Age(i) + 1 < Wrap
    <2> TAKE i \in Slots
    <2> HAVE Used(i)
    <2>1. Age(i) <= Length(i) + MaxBusy + th.busy
        BY <1>1 DEF LateInv
    <2>2. CASE th'.busy = th.busy + 1
        BY <1>1, <1>3, <1>4, <2>1, <2>2
    <2>3. CASE th.at = "wait" /\ posts = 0 /\ th.left > 0
        <3>1. Age(i) + th.left <= Length(i) + MaxBusy + th.busy
            BY <2>3 DEF SleepInv
        <3> QED BY <1>3, <1>4, <2>3, <3>1
    <2> QED BY <1>2, <2>2, <2>3
<1>6. \A i \in Slots : Used(i) => Age(i)' = Age(i) + 1
    <2> TAKE i \in Slots
    <2> HAVE Used(i)
    <2>1. now \in Ticks /\ slot[i].last \in Ticks /\ Age(i) = (now - slot[i].last) % Wrap
        BY DEF TypeOK, Age, Since
    <2>2. Age(i)' = (now' - slot[i].last) % Wrap
        BY <1>1 DEF Age, Since
    <2> QED BY <1>1, <1>5, <2>1, <2>2, TickAdds
<1>7. InPass => Elapsed' = Elapsed + 1 /\ th'.busy = th.busy + 1
    <2> SUFFICES ASSUME InPass
                 PROVE  Elapsed' = Elapsed + 1 /\ th'.busy = th.busy + 1
        OBVIOUS
    <2>1. th'.busy = th.busy + 1
        BY <1>2 DEF InPass
    <2>2. Elapsed + 1 < Wrap
        BY <1>1, <1>4, <2>1, TimerAssumption DEF BusyInv
    <2>3. now \in Ticks /\ th.start \in Ticks /\ Elapsed = (now - th.start) % Wrap
        BY DEF TypeOK, Elapsed, Since
    <2>4. Elapsed' = (now' - th.start) % Wrap
        BY <1>1 DEF Elapsed, Since
    <2> QED BY <1>1, <2>1, <2>2, <2>3, <2>4, TickAdds
<1>8. \A i \in Slots : (Used(i)' <=> Used(i)) /\ Length(i)' = Length(i)
    BY <1>1 DEF Used, Length
<1>9. BusyInv'
    BY <1>1, <1>4, <1>7 DEF BusyInv, InPass
<1>10. LateInv'
    <2> SUFFICES ASSUME NEW i \in Slots, Used(i)
                 PROVE  Age(i)' <= Length(i) + MaxBusy + th'.busy
        BY <1>8 DEF LateInv
    <2>1. CASE th'.busy = th.busy + 1
        <3>1. Age(i) <= Length(i) + MaxBusy + th.busy
            BY <1>1 DEF LateInv
        <3> QED BY <1>3, <1>4, <1>6, <2>1, <3>1
    <2>2. CASE th.at = "wait" /\ posts = 0 /\ th.left > 0 /\ th'.busy = th.busy
        <3>1. Age(i) + th.left <= Length(i) + MaxBusy + th.busy
            BY <2>2 DEF SleepInv
        <3> QED BY <1>3, <1>4, <1>6, <2>2, <3>1
    <2> QED BY <1>2, <2>1, <2>2
<1>11. PassedInv'
    <2> SUFFICES ASSUME InPass, NEW i \in Slots, Used(i), i < th.i
                 PROVE  Age(i)' + th.nearest <= Length(i) + Elapsed'
        BY <1>1, <1>8 DEF PassedInv, InPass
    <2>1. Age(i) + th.nearest <= Length(i) + Elapsed
        BY DEF PassedInv
    <2> QED BY <1>3, <1>4, <1>6, <1>7, <2>1
<1>12. CalledInv'
    <2> SUFFICES ASSUME th.at \in {"enter", "leave", "oneShot", "fired"},
                        NEW i \in Slots, i = th.i
                 PROVE  Age(i)' <= Elapsed'
        BY <1>1 DEF CalledInv, ThreadInv, Age, Since
    <2>1. slot[i].of \in Objects
        BY DEF ThreadInv, Objects
    <2>2. Used(i)
        BY <2>1, UsedHasOwner
    <2>3. Age(i) <= Elapsed /\ InPass
        BY DEF CalledInv, InPass
    <2> QED BY <1>3, <1>4, <1>6, <1>7, <2>2, <2>3
<1>13. SleepInv'
    <2> SUFFICES ASSUME th.at = "wait", posts = 0, NEW i \in Slots, Used(i)
                 PROVE  Age(i)' + th'.left <= Length(i) + MaxBusy + th'.busy
        BY <1>1, <1>8 DEF SleepInv
    <2>1. Age(i) + th.left <= Length(i) + MaxBusy + th.busy
        BY DEF SleepInv
    <2> QED BY <1>2, <1>3, <1>4, <1>6, <2>1
<1> QED BY <1>9, <1>10, <1>11, <1>12, <1>13

\* The users: a new timer is young, and wakes the thread if that sleeps.
LEMMA AddedInTime ==
    ASSUME IInv, TimeInv, TableFree, UNCHANGED <<th, now>>,
           NEW c \in Objects, NEW i \in Slots, Added(i, c)
    PROVE  TimeInv'
<1> USE DEF TimeInv, IInv
<1>1. \A j \in Slots : slot'[j] = IF j = i THEN [of |-> c, last |-> now] ELSE slot[j]
    BY DEF Added, TypeOK
<1>2. (now - now) % Wrap = 0
    BY Difference, TimerAssumption DEF TypeOK, Ticks
<1>3. Age(i)' = 0 /\ Length(i)' \in 1..Wrap
    BY <1>1, <1>2, TimerAssumption DEF Age, Since, Length
<1>4. \A j \in Slots : j # i =>
        Age(j)' = Age(j) /\ Length(j)' = Length(j) /\ (Used(j)' <=> Used(j))
    BY <1>1 DEF Age, Since, Length, Used
<1>5. posts' # 0
    BY TimerAssumption DEF Added, TypeOK
<1>6. ~InPass /\ ~InPass'
    BY DEF InPass, TableFree
<1>7. LateInv'
    <2> SUFFICES ASSUME th.at \notin {"ended", "cleaned"}, NEW j \in Slots, Used(j)'
                 PROVE  Age(j)' <= Length(j)' + MaxBusy + th.busy
        BY DEF LateInv
    <2>1. CASE j = i
        BY <1>3, <2>1, Times, TimerAssumption
    <2>2. CASE j # i
        BY <1>4, <2>2 DEF LateInv
    <2> QED BY <2>1, <2>2
<1> QED BY <1>5, <1>6, <1>7 DEF BusyInv, PassedInv, CalledInv, SleepInv, TableFree

\* Without a new timer nothing gets later.
LEMMA OthersInTime ==
    ASSUME IInv, TimeInv, UNCHANGED <<th, now>>, posts' = 0 => posts = 0,
           \A i \in Slots : slot'[i] = slot[i] \/ (slot'[i] = Unused /\ TableFree)
    PROVE  TimeInv'
<1> USE DEF TimeInv, IInv
<1>1. \A i \in Slots : Used(i)' => Used(i) /\ Age(i)' = Age(i) /\ Length(i)' = Length(i)
    BY DEF Used, Age, Since, Length
<1>2. Elapsed' = Elapsed /\ (InPass' <=> InPass)
    BY DEF Elapsed, Since, InPass
<1>3. BusyInv' /\ LateInv' /\ PassedInv' /\ SleepInv'
    BY <1>1, <1>2 DEF BusyInv, LateInv, PassedInv, SleepInv
<1>4. CalledInv'
    <2>1. th.at \in {"enter", "leave", "oneShot", "fired"} => th.i \in Slots /\ ~TableFree
        BY DEF ThreadInv, TableFree
    <2> QED BY <1>2, <2>1 DEF CalledInv, Age, Since
<1> QED BY <1>3, <1>4

LEMMA InitInTime == Init => TimeInv
BY DEF Init, TimeInv, BusyInv, LateInv, PassedInv, CalledInv, SleepInv, InPass, Used

LEMMA StepInTime == IInv /\ TimeInv /\ [Next]_vars => TimeInv'
<1> SUFFICES ASSUME IInv, TimeInv, [Next]_vars PROVE TimeInv'
    OBVIOUS
<1>0. posts \in 0..(MaxPosts + 1) /\ posts \in Int
    BY TimerAssumption DEF IInv, TypeOK
<1>1. CASE UNCHANGED vars
    BY <1>1, OthersInTime DEF vars
<1>2. CASE Pass \/ Wake
    BY <1>2, PassInTime, FireInTime, OneShotInTime DEF Pass
<1>3. CASE Tick
    BY <1>3, TickInTime
<1>4. CASE Stop
    <2>1. posts' # 0
        BY <1>0, <1>4, TimerAssumption DEF Stop
    <2> QED BY <1>4, <2>1, OthersInTime DEF Stop
<1>5. CASE Cleanup
    <2>1. th'.at = "cleaned"
        BY <1>5 DEF Cleanup, IInv, TypeOK
    <2> QED BY <2>1 DEF TimeInv, BusyInv, LateInv, PassedInv, CalledInv, SleepInv, InPass
<1>6. ASSUME NEW u \in Users, Create(u)
      PROVE  TimeInv'
    <2>1. user[u].of \in Objects /\ TableFree /\ UNCHANGED <<th, now>>
        BY <1>6 DEF Create, IInv, UserInv, Objects
    <2>2. CASE UNCHANGED <<slot, posts>>
        BY <2>1, <2>2, OthersInTime
    <2>3. ASSUME NEW i \in Slots, Added(i, user[u].of)
          PROVE  TimeInv'
        BY <2>1, <2>3, AddedInTime
    <2> QED BY <1>6, <2>2, <2>3 DEF Create
<1>7. ASSUME NEW u \in Users, NEW o \in OneShots, CreateOneShot(u, o)
      PROVE  TimeInv'
    <2>1. o \in Objects /\ TableFree /\ UNCHANGED <<th, now>>
        BY <1>7 DEF CreateOneShot, Objects
    <2> QED BY <1>7, <2>1, AddedInTime DEF CreateOneShot
<1>8. ASSUME NEW u \in Users, Kill(u)
      PROVE  TimeInv'
    <2>1. \A i \in Slots : slot'[i] = slot[i] \/ (slot'[i] = Unused /\ TableFree)
        BY <1>8 DEF Kill, IInv, TypeOK
    <2> QED BY <1>8, <2>1, OthersInTime DEF Kill
<1>9. ASSUME NEW u \in Users, Delete(u)
      PROVE  TimeInv'
    BY <1>9, OthersInTime DEF Delete
<1>10. ASSUME NEW u \in Users, NEW c \in Clients,
                  Open(u, c) \/ Close(u, c) \/ DeleteOpen(u, c)
       PROVE  TimeInv'
    BY <1>10, OthersInTime DEF Open, Close, DeleteOpen
<1>11. ASSUME NEW c \in Clients, Replace(c)
       PROVE  TimeInv'
    BY <1>11, OthersInTime DEF Replace
<1> QED BY <1>1, <1>2, <1>3, <1>4, <1>5, <1>6, <1>7, <1>8, <1>9, <1>10, <1>11 DEF Next, UserStep

\* No timer is called later than its interval and twice the time the thread may
\* be busy after it was called last, whatever is created and deleted in between
\* and when the tick count wraps (OpcUa_P_Timer_ProcessTimers).
THEOREM TimersFireInTime == Spec => []FiresInTime
<1>1. IInv /\ TimeInv => FiresInTime
    <2> SUFFICES ASSUME IInv, TimeInv, th.at \notin {"ended", "cleaned"}, NEW i \in Slots, Used(i)
                 PROVE  Since(slot[i].last) <= Interval[slot[i].of] + 2 * MaxBusy
        BY DEF FiresInTime
    <2>1. Age(i) <= Length(i) + MaxBusy + th.busy
        BY DEF TimeInv, LateInv
    <2>2. Age(i) <= Length(i) + 2 * MaxBusy
        BY <2>1, Times, TimerAssumption DEF IInv
    <2> QED BY <2>2 DEF Age, Length
<1>2. Init => IInv /\ TimeInv
    BY InitInvariant, InitInTime
<1>3. IInv /\ TimeInv /\ [Next]_vars => (IInv /\ TimeInv)'
    BY StepInvariant, StepInTime
<1> QED BY <1>1, <1>2, <1>3, PTL DEF Spec
=============================================================================
