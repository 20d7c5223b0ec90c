----------------------------- MODULE ThreadPool -----------------------------
(***************************************************************************)
(* core/opcua_threadpool.c as it is built: OPCUA_THREADPOOL_EXPANSION is   *)
(* NO, so the pool has its static workers only.                            *)
(*                                                                         *)
(* Every job is one call of OpcUa_ThreadPool_AddJob: `call' says where the *)
(* calling thread is inside AddJob, and the job itself is found in JobList *)
(* or in the hands of a worker.  One action is one region under hMutex,    *)
(* one region under the lock of JobList, or one semaphore operation.       *)
(***************************************************************************)
EXTENDS Integers, Sequences, FiniteSets

CONSTANTS
    Workers,        \* the static threads of the pool
    Jobs,           \* the AddJob calls made on the pool
    NoJob,          \* OpcUa_Null where a job is expected
    MaxJobs,        \* uNoOfJobsMax
    BlockIfFull,    \* bBlockIfFull
    Timeouts,       \* whether uTimeOut is finite: FALSE models OPCUA_INFINITE
    AllocMayFail,   \* whether OpcUa_Alloc may return OpcUa_Null in AddJob
    Modulus         \* 2^w for the unsigned counter uFreeThreads

ASSUME PoolAssumption ==
    /\ IsFiniteSet(Workers) /\ IsFiniteSet(Jobs) /\ Workers # {} /\ NoJob \notin Jobs
    /\ MaxJobs \in Nat
    /\ BlockIfFull \in BOOLEAN /\ Timeouts \in BOOLEAN /\ AllocMayFail \in BOOLEAN
    /\ Modulus \in Nat /\ Modulus > Cardinality(Workers)

VARIABLES
    uNoOfJobs,      \* jobs being processed or waiting in the queue
    uFreeThreads,   \* the pool's count of free threads, modulo Modulus
    JobList,        \* the queue
    hJobAdded,      \* value of the semaphore hJobAdded
    hQueueOpen,     \* value of the semaphore hQueueOpenSemaphore
    bStop,          \* set by Clear, read by the workers
    clear,          \* progress of OpcUa_ThreadPool_Clear
    call,           \* call[j]: progress of the AddJob call of job j
    pc,             \* pc[w]: progress of worker w in ThreadMain
    hand,           \* hand[w]: pThreadPoolJob of worker w
    restless,       \* restless[w]: bRestlessWorker of worker w
    ran             \* ran[j]: how often pFunction was entered for job j

shared  == <<uNoOfJobs, uFreeThreads, JobList, hJobAdded, hQueueOpen, bStop>>
worker  == <<pc, hand, restless>>
vars    == <<shared, worker, clear, call, ran>>

CallStates == {"idle", "blocked", "retest", "counted", "queued",
               "added", "wouldblock", "timeout", "nomem"}
PcStates   == {"start", "loop", "wait", "woken", "got", "running", "refetch", "exited"}

(***************************************************************************)
(* OpcUa_ThreadPool_Initialize returned: the workers have been started but *)
(* need not have run yet.                                                  *)
(***************************************************************************)
Init ==
    /\ uNoOfJobs = 0 /\ uFreeThreads = 0
    /\ JobList = <<>>
    /\ hJobAdded = 0 /\ hQueueOpen = 0
    /\ bStop = FALSE /\ clear = "none"
    /\ call = [j \in Jobs |-> "idle"]
    /\ pc = [w \in Workers |-> "start"]
    /\ hand = [w \in Workers |-> NoJob]
    /\ restless = [w \in Workers |-> FALSE]
    /\ ran = [j \in Jobs |-> 0]

-----------------------------------------------------------------------------
(* OpcUa_ThreadPool_AddJob.                                                *)

\* Counting the job and allocating it are one region under hMutex; when the
\* allocation fails the error path leaves uNoOfJobs incremented.
CountJob(j) ==
    /\ uNoOfJobs' = uNoOfJobs + 1
    /\ \/ call' = [call EXCEPT ![j] = "counted"]
       \/ AllocMayFail /\ call' = [call EXCEPT ![j] = "nomem"]

\* Mutated form of AddJobEnter: the queue counts as full one job too late.
EnterOneMore(j) ==
    /\ call[j] = "idle" /\ clear = "none"
    /\ \/ uNoOfJobs <= MaxJobs /\ CountJob(j)
       \/ /\ uNoOfJobs > MaxJobs
          /\ call' = [call EXCEPT ![j] = IF BlockIfFull THEN "blocked" ELSE "wouldblock"]
          /\ UNCHANGED uNoOfJobs
    /\ UNCHANGED <<uFreeThreads, JobList, hJobAdded, hQueueOpen, bStop, worker, clear, ran>>

\* AddJob up to its first unlock of hMutex.
AddJobEnter(j) ==
    /\ call[j] = "idle" /\ clear = "none"
    /\ \/ uNoOfJobs < MaxJobs /\ CountJob(j)
       \/ /\ uNoOfJobs >= MaxJobs
          /\ call' = [call EXCEPT ![j] = IF BlockIfFull THEN "blocked" ELSE "wouldblock"]
          /\ UNCHANGED uNoOfJobs
    /\ UNCHANGED <<uFreeThreads, JobList, hJobAdded, hQueueOpen, bStop, worker, clear, ran>>

\* The timed wait on hQueueOpenSemaphore succeeds.
AddJobWake(j) ==
    /\ call[j] = "blocked" /\ hQueueOpen > 0
    /\ hQueueOpen' = hQueueOpen - 1
    /\ call' = [call EXCEPT ![j] = "retest"]
    /\ UNCHANGED <<uNoOfJobs, uFreeThreads, JobList, hJobAdded, bStop, worker, clear, ran>>

\* The timed wait runs out: AddJob returns OpcUa_BadTimeout.
AddJobTimeout(j) ==
    /\ Timeouts /\ call[j] = "blocked" /\ hQueueOpen = 0
    /\ call' = [call EXCEPT ![j] = "timeout"]
    /\ UNCHANGED <<shared, worker, clear, ran>>

\* The while condition is evaluated again under hMutex.
AddJobRetest(j) ==
    /\ call[j] = "retest"
    /\ \/ uNoOfJobs < MaxJobs /\ CountJob(j)
       \/ /\ uNoOfJobs >= MaxJobs
          /\ call' = [call EXCEPT ![j] = "blocked"]
          /\ UNCHANGED uNoOfJobs
    /\ UNCHANGED <<uFreeThreads, JobList, hJobAdded, hQueueOpen, bStop, worker, clear, ran>>

\* Mutated form of AddJobEnqueue: the call fails, its job stays in the list.
EnqueueThenFail(j) ==
    /\ call[j] = "counted"
    /\ JobList' = Append(JobList, j)
    /\ call' = [call EXCEPT ![j] = IF AllocMayFail THEN "nomem" ELSE "queued"]
    /\ UNCHANGED <<uNoOfJobs, uFreeThreads, hJobAdded, hQueueOpen, bStop, worker, clear, ran>>

\* The job enters the list, or the list element cannot be allocated.
AddJobEnqueue(j) ==
    /\ call[j] = "counted"
    /\ \/ /\ JobList' = Append(JobList, j)
          /\ call' = [call EXCEPT ![j] = "queued"]
       \/ /\ AllocMayFail
          /\ call' = [call EXCEPT ![j] = "nomem"]
          /\ UNCHANGED JobList
    /\ UNCHANGED <<uNoOfJobs, uFreeThreads, hJobAdded, hQueueOpen, bStop, worker, clear, ran>>

\* Mutated form of AddJobPost: post only when a thread counts as free.
PostIfFree(j) ==
    /\ call[j] = "queued"
    /\ hJobAdded' = hJobAdded + (IF uFreeThreads > 0 THEN 1 ELSE 0)
    /\ call' = [call EXCEPT ![j] = "added"]
    /\ UNCHANGED <<uNoOfJobs, uFreeThreads, JobList, hQueueOpen, bStop, worker, clear, ran>>

\* The semaphore is posted for the job.
AddJobPost(j) ==
    /\ call[j] = "queued"
    /\ hJobAdded' = hJobAdded + 1
    /\ call' = [call EXCEPT ![j] = "added"]
    /\ UNCHANGED <<uNoOfJobs, uFreeThreads, JobList, hQueueOpen, bStop, worker, clear, ran>>

-----------------------------------------------------------------------------
(* OpcUa_ThreadPool_ThreadMain.                                            *)

\* Mutated form of Fetch: the element that was added last is removed.
FetchLast(w) ==
    IF JobList = <<>> THEN hand' = [hand EXCEPT ![w] = NoJob] /\ UNCHANGED JobList
    ELSE /\ hand' = [hand EXCEPT ![w] = JobList[Len(JobList)]]
         /\ JobList' = SubSeq(JobList, 1, Len(JobList) - 1)

\* OpcUa_List_RemoveFirstElement under the lock of JobList, into the hand of w.
Fetch(w) ==
    IF JobList = <<>> THEN hand' = [hand EXCEPT ![w] = NoJob] /\ UNCHANGED JobList
    ELSE hand' = [hand EXCEPT ![w] = Head(JobList)] /\ JobList' = Tail(JobList)

FreeThreads(d) == uFreeThreads' = (uFreeThreads + d + Modulus) % Modulus

WorkerStart(w) ==
    /\ pc[w] = "start"
    /\ Fetch(w)
    /\ pc' = [pc EXCEPT ![w] = "loop"]
    /\ UNCHANGED <<uNoOfJobs, uFreeThreads, hJobAdded, hQueueOpen, bStop, restless, clear, call, ran>>

\* The while condition, and for a worker without a job the way to its wait.
\* uStatus is OpcUa_Good here whatever the wait before returned.
WorkerIdle(w) ==
    /\ pc[w] = "loop" /\ ~bStop /\ hand[w] = NoJob
    /\ FreeThreads(1)
    /\ restless' = [restless EXCEPT ![w] = FALSE]
    /\ pc' = [pc EXCEPT ![w] = "wait"]
    /\ UNCHANGED <<uNoOfJobs, JobList, hJobAdded, hQueueOpen, bStop, hand, clear, call, ran>>

WorkerResume(w) ==
    /\ pc[w] = "loop" /\ ~bStop /\ hand[w] # NoJob
    /\ pc' = [pc EXCEPT ![w] = "got"]
    /\ UNCHANGED <<shared, hand, restless, clear, call, ran>>

WorkerWake(w) ==
    /\ pc[w] = "wait" /\ hJobAdded > 0
    /\ hJobAdded' = hJobAdded - 1
    /\ pc' = [pc EXCEPT ![w] = "woken"]
    /\ UNCHANGED <<uNoOfJobs, uFreeThreads, JobList, hQueueOpen, bStop, hand, restless, clear, call, ran>>

\* After OPCUA_THREADPOOL_RELOOPTIME without a post: reloop, nothing is fetched.
WorkerReloop(w) ==
    /\ pc[w] = "wait" /\ hJobAdded = 0
    /\ pc' = [pc EXCEPT ![w] = "loop"]
    /\ UNCHANGED <<shared, hand, restless, clear, call, ran>>

WorkerFetch(w) ==
    /\ pc[w] = "woken"
    /\ Fetch(w)
    /\ pc' = [pc EXCEPT ![w] = "got"]
    /\ UNCHANGED <<uNoOfJobs, uFreeThreads, hJobAdded, hQueueOpen, bStop, restless, clear, call, ran>>

\* The worker enters pFunction; a restless worker is not counted as free.
WorkerRun(w) ==
    /\ pc[w] = "got" /\ hand[w] # NoJob
    /\ IF restless[w] THEN UNCHANGED uFreeThreads ELSE FreeThreads(-1)
    /\ ran' = [ran EXCEPT ![hand[w]] = @ + 1]
    /\ pc' = [pc EXCEPT ![w] = "running"]
    /\ UNCHANGED <<uNoOfJobs, JobList, hJobAdded, hQueueOpen, bStop, hand, restless, clear, call>>

\* A worker was posted, but another one has taken the job.
WorkerSkip(w) ==
    /\ pc[w] = "got" /\ hand[w] = NoJob
    /\ pc' = [pc EXCEPT ![w] = "refetch"]
    /\ UNCHANGED <<shared, hand, restless, clear, call, ran>>

\* Mutated form of WorkerFinish: the job is not counted down.
FinishKeepsCount(w) ==
    /\ pc[w] = "running"
    /\ hQueueOpen' = hQueueOpen + (IF uNoOfJobs >= MaxJobs THEN 1 ELSE 0)
    /\ hand' = [hand EXCEPT ![w] = NoJob]
    /\ pc' = [pc EXCEPT ![w] = "refetch"]
    /\ UNCHANGED <<uNoOfJobs, uFreeThreads, JobList, hJobAdded, bStop, restless, clear, call, ran>>

\* pFunction returned: the region under hMutex, then the job is freed.
WorkerFinish(w) ==
    /\ pc[w] = "running"
    /\ uNoOfJobs' = uNoOfJobs - 1
    /\ hQueueOpen' = hQueueOpen + (IF uNoOfJobs >= MaxJobs THEN 1 ELSE 0)
    /\ hand' = [hand EXCEPT ![w] = NoJob]
    /\ pc' = [pc EXCEPT ![w] = "refetch"]
    /\ UNCHANGED <<uFreeThreads, JobList, hJobAdded, bStop, restless, clear, call, ran>>

WorkerRefetch(w) ==
    /\ pc[w] = "refetch"
    /\ Fetch(w)
    /\ restless' = [restless EXCEPT ![w] = @ \/ JobList # <<>>]
    /\ pc' = [pc EXCEPT ![w] = "loop"]
    /\ UNCHANGED <<uNoOfJobs, uFreeThreads, hJobAdded, hQueueOpen, bStop, clear, call, ran>>

\* The while loop ends on bStop; a job in the worker's hand is not executed.
WorkerExit(w) ==
    /\ pc[w] = "loop" /\ bStop
    /\ FreeThreads(-1)
    /\ pc' = [pc EXCEPT ![w] = "exited"]
    /\ UNCHANGED <<uNoOfJobs, JobList, hJobAdded, hQueueOpen, bStop, hand, restless, clear, call, ran>>

-----------------------------------------------------------------------------
(* OpcUa_ThreadPool_Clear.  The owner of the pool calls it when no AddJob  *)
(* call is in progress: nothing in the pool guards against that.           *)

InProgress == {j \in Jobs : call[j] \in {"blocked", "retest", "counted", "queued"}}

\* Mutated form of ClearStop: the workers are woken, not told.
StopWithoutFlag ==
    /\ clear = "none" /\ InProgress = {}
    /\ hJobAdded' = hJobAdded + Cardinality(Workers)
    /\ clear' = "joining"
    /\ UNCHANGED <<uNoOfJobs, uFreeThreads, JobList, hQueueOpen, bStop, worker, call, ran>>

\* bStop is set, then every worker is posted for.
ClearStop ==
    /\ clear = "none" /\ InProgress = {}
    /\ bStop' = TRUE
    /\ hJobAdded' = hJobAdded + Cardinality(Workers)
    /\ clear' = "joining"
    /\ UNCHANGED <<uNoOfJobs, uFreeThreads, JobList, hQueueOpen, worker, call, ran>>

\* Every OpcUa_Thread_WaitForShutdown returned; the list goes with its jobs.
ClearDelete ==
    /\ clear = "joining"
    /\ \A w \in Workers : pc[w] = "exited"
    /\ JobList' = <<>>
    /\ clear' = "deleted"
    /\ UNCHANGED <<uNoOfJobs, uFreeThreads, hJobAdded, hQueueOpen, bStop, worker, call, ran>>

-----------------------------------------------------------------------------
AddJob(j) == \/ AddJobEnter(j) \/ AddJobWake(j) \/ AddJobTimeout(j)
             \/ AddJobRetest(j) \/ AddJobEnqueue(j) \/ AddJobPost(j)

ThreadMain(w) == \/ WorkerStart(w) \/ WorkerIdle(w) \/ WorkerResume(w)
                 \/ WorkerWake(w) \/ WorkerReloop(w) \/ WorkerFetch(w)
                 \/ WorkerRun(w) \/ WorkerSkip(w) \/ WorkerFinish(w)
                 \/ WorkerRefetch(w) \/ WorkerExit(w)

Clear == ClearStop \/ ClearDelete

Next == \/ \E j \in Jobs : AddJob(j)
        \/ \E w \in Workers : ThreadMain(w)
        \/ Clear

Spec == Init /\ [][Next]_vars

\* A call goes on once it was entered, a worker is scheduled and its job
\* returns, and a Clear that began goes on.  Nobody has to call AddJob or Clear.
Fairness ==
    /\ \A j \in Jobs : WF_vars(AddJob(j) /\ call[j] # "idle")
    /\ \A w \in Workers : WF_vars(ThreadMain(w))
    /\ WF_vars(ClearDelete)

FairSpec == Spec /\ Fairness

-----------------------------------------------------------------------------
(* The pool as a service.                                                  *)

Queued    == {JobList[i] : i \in 1 .. Len(JobList)}
InHand    == {hand[w] : w \in Workers} \ {NoJob}

\* How far job j is, for the one who added it.  A worker that left its loop on
\* bStop keeps the job in its hand, which nobody executes once the pool is cleared.
Phase(j) ==
    IF call[j] \in {"wouldblock", "timeout", "nomem"} THEN "refused"
    ELSE IF call[j] \notin {"queued", "added"} THEN "new"
    ELSE IF ran[j] # 0 THEN IF j \in InHand THEN "running" ELSE "done"
    ELSE IF clear = "deleted" THEN "dropped"
    ELSE IF j \in InHand THEN "taken"
    ELSE IF j \in Queued THEN "waiting" ELSE "dropped"

Progress  == [j \in Jobs |-> Phase(j)]
Confirmed == {j \in Jobs : call[j] = "added"}
Stage     == IF clear = "none" THEN "open" ELSE IF clear = "joining" THEN "closing" ELSE "closed"

Service == INSTANCE JobService WITH
    Slots <- MaxJobs, Threads <- Cardinality(Workers),
    phase <- Progress, line <- JobList, confirmed <- Confirmed, service <- Stage

-----------------------------------------------------------------------------
(* Properties.                                                             *)

TypeOK ==
    /\ uNoOfJobs \in Nat
    /\ uFreeThreads \in 0 .. Modulus - 1
    /\ JobList \in Seq(Jobs)
    /\ hJobAdded \in Nat /\ hQueueOpen \in Nat
    /\ bStop \in BOOLEAN
    /\ clear \in {"none", "joining", "deleted"}
    /\ call \in [Jobs -> CallStates]
    /\ pc \in [Workers -> PcStates]
    /\ hand \in [Workers -> Jobs \union {NoJob}]
    /\ restless \in [Workers -> BOOLEAN]
    /\ ran \in [Jobs -> Nat]

Counted   == {j \in Jobs : call[j] = "counted"}
Lost      == {j \in Jobs : call[j] = "nomem"}

\* The pool never holds more jobs, waiting or being processed, than MaxJobs:
\* what uNoOfJobs is counted for, although a call counts its job long before
\* the job is in the list and two locks guard the two.
CapacityRespected ==
    Cardinality(Counted) + Len(JobList) + Cardinality(InHand) <= MaxJobs

\* Before Clear deletes the queue, uNoOfJobs is the number of jobs waiting or
\* being processed, plus the jobs about to enter the list, plus one for every
\* AddJob call that ran out of memory after it had counted its job.
JobCountExact ==
    clear # "deleted" =>
        uNoOfJobs = Cardinality(Counted) + Len(JobList) + Cardinality(InHand)
                        + Cardinality(Lost)

\* A job is in one place at a time: twice in the list, in the list and in a
\* hand, or in two hands would free it or run it twice.
OnePlace ==
    /\ \A i, k \in 1 .. Len(JobList) : JobList[i] = JobList[k] => i = k
    /\ Queued \intersect InHand = {}
    /\ \A v, w \in Workers : hand[v] = hand[w] /\ hand[v] # NoJob => v = w

\* pFunction of a job is entered at most once, and only for a job that AddJob
\* has put into the list.
RunsAtMostOnce ==
    \A j \in Jobs : ran[j] <= 1 /\ (ran[j] = 1 => call[j] \in {"queued", "added"})

\* No lost wake-up of a worker: a job in the list is always on somebody's way.
\* A caller still has to post for it, a post is pending, or a worker is awake
\* and will look at the list once more before it sleeps (a worker whose wait
\* timed out does not look).
NoJobStranded ==
    JobList # <<>> /\ ~bStop =>
        \/ hJobAdded > 0
        \/ \E j \in Jobs : call[j] = "queued"
        \/ \E w \in Workers : \/ pc[w] \in {"start", "woken", "got", "running", "refetch"}
                              \/ pc[w] = "loop" /\ hand[w] # NoJob

\* A job in the list is executed, unless the pool is being cleared.
QueuedJobRuns ==
    \A j \in Jobs : (call[j] = "queued") ~> (ran[j] = 1 \/ bStop)

\* Clear terminates: every worker comes to see bStop, in a wait or not.
ClearTerminates == (clear = "joining") ~> (clear = "deleted")

\* What the callers, the workers and Clear do to the pool in their many steps is, for
\* the one who adds jobs, a service that answers truthfully, takes the jobs in the
\* order in which they entered the list, holds no more than it may, and executes each
\* once: the order is kept although a call posts its semaphore long after its job
\* entered the list, and whichever worker comes first.
ImplementsService == Service!Spec

\* "AddJob blocks a slot in the is free": a caller does not stay blocked while
\* the pool has a slot for its job that nobody is woken for.
BlockedCallerIsWoken ==
    (\E j \in Jobs : call[j] = "blocked") /\ uNoOfJobs < MaxJobs =>
        hQueueOpen > 0 \/ \E j \in Jobs : call[j] = "retest"
=============================================================================
