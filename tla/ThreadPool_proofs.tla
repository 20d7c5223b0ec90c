------------------------- MODULE ThreadPool_proofs -------------------------
(***************************************************************************)
(* Proofs about the thread pool, for every number of workers, of jobs, and *)
(* for either setting of every switch.                                     *)
(*                                                                         *)
(* No invariant of ThreadPool is inductive as it stands.  That uNoOfJobs   *)
(* is a natural number rests on its being the number of jobs in the pool;  *)
(* that, on a job's being in one place; and that, on what a worker's hand  *)
(* holds at each point of its loop.  PoolInv is the conjunction.           *)
(***************************************************************************)
EXTENDS ThreadPool, SequenceTheorems, FiniteSetTheorems, TLAPS

-----------------------------------------------------------------------------
(* The inductive invariant.                                                *)

\* TypeOK, but for the sign of uNoOfJobs.
WeakType ==
    /\ uNoOfJobs \in Int
    /\ uFreeThreads \in 0 .. Modulus - 1
    /\ JobList \in Seq(Jobs)
    /\ hJobAdded \in Nat /\ hQueueOpen \in Nat
    /\ bStop \in BOOLEAN
    /\ clear \in {"none", "joining", "deleted"}
    /\ call \in [Jobs -> CallStates]
    /\ pc \in [Workers -> PcStates]
    /\ hand \in [Workers -> Jobs \union {NoJob}]
    /\ restless \in [Workers -> BOOLEAN]
    /\ ran \in [Jobs -> Nat]

Entered(j) == call[j] \in {"queued", "added"}

\* A listed job was put there by its call, was not run, and is listed once.
ListInv ==
    \A i \in 1 .. Len(JobList) :
        /\ Entered(JobList[i]) /\ ran[JobList[i]] = 0
        /\ \A w \in Workers : hand[w] # JobList[i]
        /\ \A k \in 1 .. Len(JobList) : JobList[i] = JobList[k] => i = k

\* A worker holds a job of its own, which it has run if it is running it, and
\* it holds none where it is about to fetch or to wait.
HandInv ==
    \A w \in Workers :
        /\ hand[w] # NoJob =>
               /\ Entered(hand[w])
               /\ ran[hand[w]] = IF pc[w] = "running" THEN 1 ELSE 0
               /\ \A v \in Workers : hand[v] = hand[w] => v = w
        /\ pc[w] = "running" => hand[w] # NoJob
        /\ pc[w] \in {"start", "wait", "woken", "refetch"} => hand[w] = NoJob

RanInv == \A j \in Jobs : ran[j] <= 1 /\ (~Entered(j) => ran[j] = 0)

\* What Clear has seen to before it stops the workers, and before it deletes.
ClearInv ==
    /\ bStop <=> clear # "none"
    /\ clear # "none" => InProgress = {}
    /\ clear = "deleted" => (\A w \in Workers : pc[w] = "exited") /\ JobList = <<>>

CountInv ==
    /\ JobCountExact /\ CapacityRespected
    /\ 0 <= uNoOfJobs /\ uNoOfJobs <= MaxJobs

PoolInv == WeakType /\ ListInv /\ HandInv /\ RanInv /\ ClearInv /\ CountInv
             /\ NoJobStranded

-----------------------------------------------------------------------------
(* Type correctness.                                                       *)

\* The counter of free threads wraps around within its width.
LEMMA FreeThreadsType ==
    ASSUME WeakType, NEW d \in {-1, 1}, FreeThreads(d)
    PROVE  uFreeThreads' \in 0 .. Modulus - 1
  <1>1. Modulus \in Nat /\ Modulus > 0
    BY PoolAssumption, FS_CardinalityType
  <1>2. uFreeThreads + d + Modulus \in Int
    BY <1>1 DEF WeakType
  <1> QED
    BY <1>1, <1>2 DEF FreeThreads

\* The two outcomes of a fetch: nothing, or the first job of the list.
LEMMA FetchCases ==
    ASSUME WeakType, NEW w \in Workers, Fetch(w)
    PROVE  /\ JobList' \in Seq(Jobs)
           /\ hand' \in [Workers -> Jobs \union {NoJob}]
           /\ \A v \in Workers : v # w => hand'[v] = hand[v]
           /\ \/ JobList = <<>> /\ JobList' = JobList /\ hand'[w] = NoJob
              \/ /\ JobList # <<>> /\ Len(JobList) \in Nat \ {0}
                 /\ hand'[w] = JobList[1] /\ JobList[1] \in Jobs
                 /\ Len(JobList') = Len(JobList) - 1
                 /\ \A i \in 1 .. Len(JobList') : JobList'[i] = JobList[i + 1]
  <1>1. CASE JobList = <<>>
    BY <1>1 DEF Fetch, WeakType
  <1>2. CASE JobList # <<>>
    <2>1. /\ Head(JobList) \in Jobs /\ Tail(JobList) \in Seq(Jobs)
          /\ Len(Tail(JobList)) = Len(JobList) - 1
          /\ \A i \in 1 .. Len(Tail(JobList)) : Tail(JobList)[i] = JobList[i + 1]
          /\ Len(JobList) \in Nat \ {0}
      BY <1>2, HeadTailProperties, EmptySeq DEF WeakType
    <2>2. Head(JobList) = JobList[1]
      BY <1>2 DEF WeakType
    <2>3. hand' = [hand EXCEPT ![w] = Head(JobList)] /\ JobList' = Tail(JobList)
      BY <1>2 DEF Fetch
    <2> QED
      BY <1>2, <2>1, <2>2, <2>3 DEF WeakType
  <1> QED
    BY <1>1, <1>2

\* An AddJob call that puts its job at the end of the list.
LEMMA EnqueueType ==
    ASSUME WeakType, NEW j \in Jobs, JobList' = Append(JobList, j)
    PROVE  /\ JobList' \in Seq(Jobs)
           /\ Len(JobList') = Len(JobList) + 1
           /\ Len(JobList) \in Nat
           /\ \A i \in 1 .. Len(JobList) : JobList'[i] = JobList[i]
           /\ JobList'[Len(JobList) + 1] = j
  BY DEF WeakType

\* A pool that was just initialised is well typed.
LEMMA WeakTypeInit == Init => WeakType
  <1> SUFFICES ASSUME Init PROVE WeakType
    OBVIOUS
  <1>1. Modulus \in Nat /\ Modulus > 0
    BY PoolAssumption, FS_CardinalityType
  <1>2. JobList \in Seq(Jobs)
    BY EmptySeq DEF Init
  <1>3. uFreeThreads \in 0 .. Modulus - 1
    BY <1>1 DEF Init
  <1>4. /\ call \in [Jobs -> CallStates] /\ pc \in [Workers -> PcStates]
        /\ hand \in [Workers -> Jobs \union {NoJob}]
        /\ restless \in [Workers -> BOOLEAN] /\ ran \in [Jobs -> Nat]
    BY DEF Init, CallStates, PcStates
  <1>5. /\ uNoOfJobs \in Int /\ hJobAdded \in Nat /\ hQueueOpen \in Nat
        /\ clear \in {"none", "joining", "deleted"}
    BY DEF Init
  <1>6. bStop \in BOOLEAN
    BY Zenon DEF Init
  <1> QED
    BY <1>2, <1>3, <1>4, <1>5, <1>6 DEF WeakType

\* No step of AddJob, of a worker or of Clear takes a variable out of its type,
\* the sign of uNoOfJobs apart.
LEMMA WeakTypeStep == WeakType /\ [Next]_vars => WeakType'
  <1> SUFFICES ASSUME WeakType, [Next]_vars PROVE WeakType'
    OBVIOUS
  <1> USE DEF WeakType, CallStates, PcStates
  <1>1. ASSUME NEW j \in Jobs, AddJob(j) PROVE WeakType'
    <2>1. CASE AddJobEnter(j)
      BY <2>1 DEF AddJobEnter, CountJob, worker
    <2>2. CASE AddJobWake(j)
      BY <2>2 DEF AddJobWake, worker
    <2>3. CASE AddJobTimeout(j)
      BY <2>3 DEF AddJobTimeout, shared, worker
    <2>4. CASE AddJobRetest(j)
      BY <2>4 DEF AddJobRetest, CountJob, worker
    <2>5. CASE AddJobEnqueue(j)
      BY <2>5, EnqueueType DEF AddJobEnqueue, worker
    <2>6. CASE AddJobPost(j)
      BY <2>6 DEF AddJobPost, worker
    <2> QED
      BY <1>1, <2>1, <2>2, <2>3, <2>4, <2>5, <2>6 DEF AddJob
  <1>2. ASSUME NEW w \in Workers, ThreadMain(w) PROVE WeakType'
    <2>1. CASE WorkerStart(w)
      BY <2>1, FetchCases DEF WorkerStart
    <2>2. CASE WorkerIdle(w)
      BY <2>2, FreeThreadsType DEF WorkerIdle
    <2>3. CASE WorkerResume(w)
      BY <2>3 DEF WorkerResume, shared
    <2>4. CASE WorkerWake(w)
      BY <2>4 DEF WorkerWake
    <2>5. CASE WorkerReloop(w)
      BY <2>5 DEF WorkerReloop, shared
    <2>6. CASE WorkerFetch(w)
      BY <2>6, FetchCases DEF WorkerFetch
    <2>7. CASE WorkerRun(w)
      <3>1. uFreeThreads' \in 0 .. Modulus - 1
        BY <2>7, FreeThreadsType DEF WorkerRun
      <3> QED
        BY <2>7, <3>1 DEF WorkerRun
    <2>8. CASE WorkerSkip(w)
      BY <2>8 DEF WorkerSkip, shared
    <2>9. CASE WorkerFinish(w)
      BY <2>9 DEF WorkerFinish
    <2>10. CASE WorkerRefetch(w)
      BY <2>10, FetchCases DEF WorkerRefetch
    <2>11. CASE WorkerExit(w)
      BY <2>11, FreeThreadsType DEF WorkerExit
    <2> QED
      BY <1>2, <2>1, <2>2, <2>3, <2>4, <2>5, <2>6, <2>7, <2>8, <2>9, <2>10, <2>11
         DEF ThreadMain
  <1>3. CASE ClearStop
    BY <1>3, PoolAssumption, FS_CardinalityType DEF ClearStop, worker
  <1>4. CASE ClearDelete
    BY <1>4 DEF ClearDelete, worker
  <1>5. CASE UNCHANGED vars
    BY <1>5 DEF vars, shared, worker
  <1> QED
    BY <1>1, <1>2, <1>3, <1>4, <1>5 DEF Next, Clear

-----------------------------------------------------------------------------
(* Where the jobs are.                                                     *)

JobsInv == ListInv /\ HandInv /\ RanInv

\* A step that leaves the list, the hands, the runs and pc alone, and takes no
\* call back behind "queued".
LEMMA CallStep ==
    ASSUME WeakType, JobsInv, NEW j \in Jobs, NEW s \in CallStates,
           call' = [call EXCEPT ![j] = s], Entered(j) => s \in {"queued", "added"},
           UNCHANGED <<JobList, hand, ran, pc>>
    PROVE  JobsInv'
  <1>1. \A i \in 1 .. Len(JobList) : JobList[i] \in Jobs
    BY ElementOfSeq DEF WeakType
  <1>2. \A k \in Jobs : Entered(k) => Entered(k)'
    BY DEF Entered, WeakType
  <1>3. ListInv'
    BY <1>1, <1>2 DEF JobsInv, ListInv
  <1>4. HandInv'
    BY <1>2 DEF JobsInv, HandInv, WeakType
  <1>5. RanInv'
    BY <1>2 DEF JobsInv, RanInv
  <1> QED
    BY <1>3, <1>4, <1>5 DEF JobsInv

\* A worker with empty hands fetches.
LEMMA FetchStep ==
    ASSUME WeakType, JobsInv, NEW w \in Workers, Fetch(w), hand[w] = NoJob,
           NEW s \in {"loop", "got"}, pc' = [pc EXCEPT ![w] = s],
           UNCHANGED <<call, ran>>
    PROVE  JobsInv'
  <1>1. \A i \in 1 .. Len(JobList) : JobList[i] \in Jobs
    BY ElementOfSeq DEF WeakType
  <1>2. CASE JobList = <<>>
    <2>1. UNCHANGED <<JobList, hand>>
      BY <1>2 DEF Fetch, WeakType
    <2> QED
      BY <2>1 DEF JobsInv, ListInv, HandInv, RanInv, Entered, WeakType
  <1>3. CASE JobList # <<>>
    <2>1. /\ Len(JobList) \in Nat \ {0}
          /\ hand'[w] = JobList[1] /\ JobList[1] \in Jobs
          /\ Len(JobList') = Len(JobList) - 1
          /\ \A i \in 1 .. Len(JobList') : JobList'[i] = JobList[i + 1]
          /\ \A v \in Workers : v # w => hand'[v] = hand[v]
      BY <1>3, FetchCases
    <2>2. ListInv'
      <3> SUFFICES ASSUME NEW i \in 1 .. Len(JobList')
                   PROVE  /\ Entered(JobList[i + 1]) /\ ran[JobList[i + 1]] = 0
                          /\ \A v \in Workers : hand'[v] # JobList[i + 1]
                          /\ \A k \in 1 .. Len(JobList') :
                                JobList[i + 1] = JobList[k + 1] => i = k
        BY <2>1 DEF ListInv, Entered
      <3>1. i + 1 \in 1 .. Len(JobList) /\ 1 \in 1 .. Len(JobList) /\ i + 1 # 1
        BY <2>1
      <3>2. /\ Entered(JobList[i + 1]) /\ ran[JobList[i + 1]] = 0
            /\ JobList[i + 1] # JobList[1]
        BY <3>1 DEF JobsInv, ListInv
      <3>3. \A v \in Workers : hand'[v] # JobList[i + 1]
        BY <2>1, <3>1, <3>2 DEF JobsInv, ListInv
      <3>4. ASSUME NEW k \in 1 .. Len(JobList'), JobList[i + 1] = JobList[k + 1]
            PROVE  i = k
        <4>1. k + 1 \in 1 .. Len(JobList)
          BY <2>1
        <4>2. i + 1 = k + 1
          BY <3>1, <3>4, <4>1 DEF JobsInv, ListInv
        <4> QED
          BY <4>2, <2>1
      <3> QED
        BY <3>2, <3>3, <3>4
    <2>3. HandInv'
      <3> SUFFICES ASSUME NEW v \in Workers
                   PROVE  HandInv!(v)'
        BY DEF HandInv
      <3>1. CASE v = w
        <4>1. /\ Entered(JobList[1]) /\ ran[JobList[1]] = 0
              /\ \A u \in Workers : hand[u] # JobList[1]
          BY <2>1 DEF JobsInv, ListInv
        <4> QED
          BY <2>1, <3>1, <4>1 DEF Entered, WeakType
      <3>2. CASE v # w
        <4>1. hand'[v] = hand[v] /\ pc'[v] = pc[v]
          BY <2>1, <3>2 DEF WeakType
        <4>2. hand'[v] # NoJob => hand'[v] # hand'[w]
          BY <2>1, <4>1 DEF JobsInv, ListInv
        <4> QED
          BY <2>1, <4>1, <4>2 DEF JobsInv, HandInv, Entered
      <3> QED
        BY <3>1, <3>2
    <2>4. RanInv'
      BY DEF JobsInv, RanInv, Entered
    <2> QED
      BY <2>2, <2>3, <2>4 DEF JobsInv
  <1> QED
    BY <1>2, <1>3

\* A worker moves on without touching its hand.
LEMMA MoveStep ==
    ASSUME WeakType, JobsInv, NEW w \in Workers, NEW s \in PcStates,
           pc' = [pc EXCEPT ![w] = s],
           pc[w] # "running", s # "running",
           s \in {"start", "wait", "woken", "refetch"} => hand[w] = NoJob,
           UNCHANGED <<JobList, hand, ran, call>>
    PROVE  JobsInv'
  <1>1. ListInv' /\ RanInv'
    BY DEF JobsInv, ListInv, RanInv, Entered
  <1>2. HandInv'
    BY DEF JobsInv, HandInv, Entered, WeakType
  <1> QED
    BY <1>1, <1>2 DEF JobsInv

\* A pool that was just initialised holds no job and has run none.
LEMMA JobsInit == Init => JobsInv
  BY EmptySeq DEF Init, JobsInv, ListInv, HandInv, RanInv, Entered

\* Every step leaves each job in one place, run as often as its place says: the
\* list and the hands change hands under two locks, never in between.
LEMMA JobsStep == WeakType /\ JobsInv /\ [Next]_vars => JobsInv'
  <1> SUFFICES ASSUME WeakType, JobsInv, [Next]_vars PROVE JobsInv'
    OBVIOUS
  <1>1. ASSUME NEW j \in Jobs, AddJob(j) PROVE JobsInv'
    <2>1. CASE AddJobEnter(j)
      <3>1. PICK s \in CallStates : call' = [call EXCEPT ![j] = s]
        BY <2>1 DEF AddJobEnter, CountJob, CallStates
      <3> QED
        BY <2>1, <3>1, CallStep DEF AddJobEnter, Entered, worker
    <2>2. CASE AddJobWake(j)
      BY <2>2, CallStep DEF AddJobWake, Entered, worker, CallStates
    <2>3. CASE AddJobTimeout(j)
      BY <2>3, CallStep DEF AddJobTimeout, Entered, shared, worker, CallStates
    <2>4. CASE AddJobRetest(j)
      <3>1. PICK s \in CallStates : call' = [call EXCEPT ![j] = s]
        BY <2>4 DEF AddJobRetest, CountJob, CallStates
      <3> QED
        BY <2>4, <3>1, CallStep DEF AddJobRetest, Entered, worker
    <2>5. CASE AddJobEnqueue(j)
      <3>1. CASE UNCHANGED JobList
        <4>1. call' = [call EXCEPT ![j] = "nomem"]
          BY <2>5, <3>1, EnqueueType DEF AddJobEnqueue, WeakType
        <4> QED
          BY <2>5, <3>1, <4>1, CallStep DEF AddJobEnqueue, Entered, worker, CallStates
      <3>2. CASE JobList' = Append(JobList, j) /\ call' = [call EXCEPT ![j] = "queued"]
        <4>1. /\ Len(JobList') = Len(JobList) + 1 /\ Len(JobList) \in Nat
              /\ \A i \in 1 .. Len(JobList) : JobList'[i] = JobList[i]
              /\ JobList'[Len(JobList) + 1] = j
          BY <3>2, EnqueueType
        <4>2. \A i \in 1 .. Len(JobList) : JobList[i] \in Jobs
          BY ElementOfSeq DEF WeakType
        <4>3. /\ ~Entered(j) /\ ran[j] = 0
              /\ \A i \in 1 .. Len(JobList) : JobList[i] # j
              /\ \A w \in Workers : hand[w] # j
          BY <2>5, PoolAssumption
             DEF AddJobEnqueue, Entered, JobsInv, ListInv, HandInv, RanInv
        <4>4. \A k \in Jobs : Entered(k)' <=> Entered(k) \/ k = j
          BY <3>2 DEF Entered, WeakType
        <4>5. UNCHANGED <<hand, ran, pc>>
          BY <2>5 DEF AddJobEnqueue, worker
        <4>6. ListInv'
          <5> SUFFICES ASSUME NEW i \in 1 .. Len(JobList')
                       PROVE  ListInv!(i)'
            BY DEF ListInv
          <5>1. CASE i = Len(JobList) + 1
            BY <4>1, <4>3, <4>4, <4>5, <5>1
          <5>2. CASE i # Len(JobList) + 1
            <6>1. i \in 1 .. Len(JobList) /\ JobList'[i] = JobList[i]
              BY <4>1, <5>2
            <6> QED
              BY <4>1, <4>2, <4>3, <4>4, <4>5, <6>1 DEF JobsInv, ListInv
          <5> QED
            BY <5>1, <5>2
        <4>7. HandInv'
          BY <4>4, <4>5 DEF JobsInv, HandInv, WeakType
        <4>8. RanInv'
          BY <4>4, <4>5 DEF JobsInv, RanInv
        <4> QED
          BY <4>6, <4>7, <4>8 DEF JobsInv
      <3> QED
        BY <2>5, <3>1, <3>2 DEF AddJobEnqueue
    <2>6. CASE AddJobPost(j)
      BY <2>6, CallStep DEF AddJobPost, Entered, worker, CallStates
    <2> QED
      BY <1>1, <2>1, <2>2, <2>3, <2>4, <2>5, <2>6 DEF AddJob
  <1>2. ASSUME NEW w \in Workers, ThreadMain(w) PROVE JobsInv'
    <2> USE DEF PcStates
    <2>1. CASE WorkerStart(w)
      BY <2>1, FetchStep DEF WorkerStart, JobsInv, HandInv
    <2>2. CASE WorkerIdle(w)
      BY <2>2, MoveStep DEF WorkerIdle
    <2>3. CASE WorkerResume(w)
      BY <2>3, MoveStep DEF WorkerResume, shared
    <2>4. CASE WorkerWake(w)
      BY <2>4, MoveStep DEF WorkerWake, JobsInv, HandInv
    <2>5. CASE WorkerReloop(w)
      BY <2>5, MoveStep DEF WorkerReloop, shared
    <2>6. CASE WorkerFetch(w)
      BY <2>6, FetchStep DEF WorkerFetch, JobsInv, HandInv
    <2>7. CASE WorkerRun(w)
      <3>1. /\ pc[w] = "got" /\ hand[w] \in Jobs
            /\ ran' = [ran EXCEPT ![hand[w]] = @ + 1]
            /\ pc' = [pc EXCEPT ![w] = "running"]
            /\ UNCHANGED <<JobList, hand, call>>
        BY <2>7 DEF WorkerRun, WeakType
      <3>2. Entered(hand[w]) /\ ran[hand[w]] = 0 /\ hand[w] # NoJob
        BY <3>1, PoolAssumption DEF JobsInv, HandInv
      <3>3. ListInv'
        BY <3>1, ElementOfSeq DEF JobsInv, ListInv, Entered, WeakType
      <3>4. HandInv'
        <4> SUFFICES ASSUME NEW v \in Workers PROVE HandInv!(v)'
          BY DEF HandInv
        <4>1. CASE v = w
          BY <3>1, <3>2, <4>1 DEF JobsInv, HandInv, Entered, WeakType
        <4>2. CASE v # w
          <5>1. hand[v] # NoJob => hand[v] \in Jobs /\ hand[v] # hand[w]
            BY <3>2, <4>2 DEF JobsInv, HandInv, WeakType
          <5> QED
            BY <3>1, <4>2, <5>1 DEF JobsInv, HandInv, Entered, WeakType
        <4> QED
          BY <4>1, <4>2
      <3>5. RanInv'
        BY <3>1, <3>2 DEF JobsInv, RanInv, Entered, WeakType
      <3> QED
        BY <3>3, <3>4, <3>5 DEF JobsInv
    <2>8. CASE WorkerSkip(w)
      BY <2>8, MoveStep DEF WorkerSkip, shared
    <2>9. CASE WorkerFinish(w)
      <3>1. /\ hand' = [hand EXCEPT ![w] = NoJob]
            /\ pc' = [pc EXCEPT ![w] = "refetch"]
            /\ UNCHANGED <<JobList, call, ran>>
        BY <2>9 DEF WorkerFinish
      <3>2. ListInv'
        <4>1. \A i \in 1 .. Len(JobList) : JobList[i] # NoJob
          BY ElementOfSeq, PoolAssumption DEF WeakType
        <4> QED
          BY <3>1, <4>1 DEF JobsInv, ListInv, Entered, WeakType
      <3>3. HandInv'
        BY <3>1 DEF JobsInv, HandInv, Entered, WeakType
      <3>4. RanInv'
        BY <3>1 DEF JobsInv, RanInv, Entered
      <3> QED
        BY <3>2, <3>3, <3>4 DEF JobsInv
    <2>10. CASE WorkerRefetch(w)
      BY <2>10, FetchStep DEF WorkerRefetch, JobsInv, HandInv
    <2>11. CASE WorkerExit(w)
      BY <2>11, MoveStep DEF WorkerExit
    <2> QED
      BY <1>2, <2>1, <2>2, <2>3, <2>4, <2>5, <2>6, <2>7, <2>8, <2>9, <2>10, <2>11
         DEF ThreadMain
  <1>3. CASE ClearStop
    BY <1>3 DEF ClearStop, worker, JobsInv, ListInv, HandInv, RanInv, Entered
  <1>4. CASE ClearDelete
    <2>1. JobList' = <<>> /\ UNCHANGED <<call, hand, pc, ran>>
      BY <1>4 DEF ClearDelete, worker
    <2>2. ListInv'
      BY <2>1, EmptySeq DEF ListInv
    <2> QED
      BY <2>1, <2>2 DEF JobsInv, HandInv, RanInv, Entered
  <1>5. CASE UNCHANGED vars
    BY <1>5 DEF vars, shared, worker, JobsInv, ListInv, HandInv, RanInv, Entered
  <1> QED
    BY <1>1, <1>2, <1>3, <1>4, <1>5 DEF Next, Clear

-----------------------------------------------------------------------------
(* Stopping the pool.                                                      *)

\* Nobody has stopped a pool that was just initialised.
LEMMA ClearInit == Init => ClearInv
  <1> SUFFICES ASSUME Init PROVE ClearInv
    OBVIOUS
  <1>1. bStop = FALSE /\ clear = "none"
    BY DEF Init
  <1> QED
    BY <1>1, Zenon DEF ClearInv

\* Clear stops the pool when no AddJob call is inside it, and deletes the list
\* when every worker has left its loop; neither is undone by a later step.
LEMMA ClearStep == WeakType /\ ClearInv /\ [Next]_vars => ClearInv'
  <1> SUFFICES ASSUME WeakType, ClearInv, [Next]_vars PROVE ClearInv'
    OBVIOUS
  <1>1. ASSUME NEW j \in Jobs, AddJob(j) PROVE ClearInv'
    <2>1. clear = "none" /\ UNCHANGED <<bStop, clear>>
      BY <1>1 DEF ClearInv, InProgress, AddJob, AddJobEnter, AddJobWake, AddJobTimeout,
                  AddJobRetest, AddJobEnqueue, AddJobPost, shared, worker
    <2> QED
      BY <2>1 DEF ClearInv
  <1>2. ASSUME NEW w \in Workers, ThreadMain(w) PROVE ClearInv'
    <2>1. UNCHANGED <<bStop, clear, call>> /\ pc[w] # "exited"
      BY <1>2 DEF ThreadMain, WorkerStart, WorkerIdle, WorkerResume, WorkerWake, WorkerReloop,
                  WorkerFetch, WorkerRun, WorkerSkip, WorkerFinish, WorkerRefetch, WorkerExit,
                  shared
    <2>2. clear # "deleted"
      BY <2>1 DEF ClearInv
    <2> QED
      BY <2>1, <2>2 DEF ClearInv, InProgress
  <1>3. CASE ClearStop
    <2>1. InProgress' = {} /\ clear' = "joining" /\ bStop'
      BY <1>3 DEF ClearStop, InProgress
    <2> QED
      BY <2>1 DEF ClearInv
  <1>4. CASE ClearDelete
    BY <1>4 DEF ClearDelete, ClearInv, InProgress, worker
  <1>5. CASE UNCHANGED vars
    BY <1>5 DEF vars, shared, worker, ClearInv, InProgress
  <1> QED
    BY <1>1, <1>2, <1>3, <1>4, <1>5 DEF Next, Clear

-----------------------------------------------------------------------------
(* Counting the jobs.                                                      *)

\* The jobs of the pool, and those that AddJob lost after it had counted them.
Size     == Cardinality(Counted) + Len(JobList) + Cardinality(InHand)
LostSize == Cardinality(Lost)

\* The jobs of the pool can be counted: AddJob was called for finitely many, and
\* finitely many workers have hands.
LEMMA SizesType ==
    ASSUME WeakType
    PROVE  /\ IsFiniteSet(Counted) /\ IsFiniteSet(InHand) /\ IsFiniteSet(Lost)
           /\ Cardinality(Counted) \in Nat /\ Cardinality(InHand) \in Nat
           /\ Cardinality(Lost) \in Nat /\ Len(JobList) \in Nat
           /\ Size \in Nat /\ LostSize \in Nat
  <1>1. Counted \in SUBSET Jobs /\ InHand \in SUBSET Jobs /\ Lost \in SUBSET Jobs
    BY DEF Counted, InHand, Lost, WeakType
  <1>2. IsFiniteSet(Counted) /\ IsFiniteSet(InHand) /\ IsFiniteSet(Lost)
    BY <1>1, PoolAssumption, FS_Subset
  <1>3. Cardinality(Counted) \in Nat /\ Cardinality(InHand) \in Nat /\ Cardinality(Lost) \in Nat
    BY <1>2, FS_CardinalityType
  <1>4. Len(JobList) \in Nat
    BY LenProperties DEF WeakType
  <1> QED
    BY <1>2, <1>3, <1>4 DEF Size, LostSize

\* Neither counted nor lost before, neither after.
LEMMA CallKeepsSizes ==
    ASSUME WeakType, NEW j \in Jobs, NEW s \in CallStates,
           call' = [call EXCEPT ![j] = s],
           call[j] \notin {"counted", "nomem"}, s \notin {"counted", "nomem"},
           UNCHANGED <<JobList, hand>>
    PROVE  Size' = Size /\ LostSize' = LostSize
  <1>1. Counted' = Counted /\ Lost' = Lost
    BY DEF Counted, Lost, WeakType
  <1>2. InHand' = InHand
    BY DEF InHand
  <1> QED
    BY <1>1, <1>2 DEF Size, LostSize

\* A counted job makes one more, whether its allocation succeeds or fails.
LEMMA CountJobSizes ==
    ASSUME WeakType, NEW j \in Jobs, CountJob(j),
           call[j] \notin {"counted", "nomem"}, UNCHANGED <<JobList, hand>>
    PROVE  /\ Size' + LostSize' = Size + LostSize + 1
           /\ Size' \in Nat /\ Size' <= Size + 1
  <1>1. InHand' = InHand
    BY DEF InHand
  <1>2. j \notin Counted /\ j \notin Lost
    BY DEF Counted, Lost
  <1>3. CASE call' = [call EXCEPT ![j] = "counted"]
    <2>1. Counted' = Counted \union {j} /\ Lost' = Lost
      BY <1>3 DEF Counted, Lost, WeakType
    <2>2. Cardinality(Counted') = Cardinality(Counted) + 1
      BY <2>1, <1>2, SizesType, FS_AddElement
    <2> QED
      BY <1>1, <2>1, <2>2, SizesType, SMTT(20) DEF Size, LostSize
  <1>4. CASE call' = [call EXCEPT ![j] = "nomem"]
    <2>1. Counted' = Counted /\ Lost' = Lost \union {j}
      BY <1>4 DEF Counted, Lost, WeakType
    <2>2. Cardinality(Lost') = Cardinality(Lost) + 1
      BY <2>1, <1>2, SizesType, FS_AddElement
    <2> QED
      BY <1>1, <2>1, <2>2, SizesType DEF Size, LostSize
  <1> QED
    BY <1>3, <1>4 DEF CountJob

\* From counted to listed, or lost on the way.
LEMMA EnqueueSizes ==
    ASSUME WeakType, NEW j \in Jobs, AddJobEnqueue(j)
    PROVE  /\ Size' + LostSize' = Size + LostSize
           /\ Size' \in Nat /\ Size' <= Size
  <1>1. InHand' = InHand
    BY DEF InHand, AddJobEnqueue, worker
  <1>2. j \in Counted /\ j \notin Lost
    BY DEF AddJobEnqueue, Counted, Lost
  <1>3. Cardinality(Counted \ {j}) = Cardinality(Counted) - 1 /\ IsFiniteSet(Counted \ {j})
    BY <1>2, SizesType, FS_RemoveElement
  <1>4. Cardinality(Counted) - 1 \in Nat
    BY <1>3, FS_CardinalityType
  <1>5. CASE JobList' = Append(JobList, j) /\ call' = [call EXCEPT ![j] = "queued"]
    <2>1. Counted' = Counted \ {j} /\ Lost' = Lost
      BY <1>5 DEF Counted, Lost, AddJobEnqueue, WeakType
    <2>2. Len(JobList') = Len(JobList) + 1
      BY <1>5, EnqueueType
    <2> QED
      BY <1>1, <1>3, <1>4, <2>1, <2>2, SizesType DEF Size, LostSize
  <1>6. CASE call' = [call EXCEPT ![j] = "nomem"] /\ UNCHANGED JobList
    <2>1. Counted' = Counted \ {j} /\ Lost' = Lost \union {j}
      BY <1>6 DEF Counted, Lost, AddJobEnqueue, WeakType
    <2>2. Cardinality(Lost') = Cardinality(Lost) + 1
      BY <2>1, <1>2, SizesType, FS_AddElement
    <2>3. Cardinality(Counted') = Cardinality(Counted) - 1 /\ Len(JobList') = Len(JobList)
      BY <1>3, <1>6, <2>1
    <2> QED
      BY <1>1, <1>4, <2>2, <2>3, SizesType, SMTT(20) DEF Size, LostSize
  <1> QED
    BY <1>5, <1>6 DEF AddJobEnqueue

\* A fetched job goes from the list into a hand that was empty.
LEMMA FetchSizes ==
    ASSUME WeakType, JobsInv, NEW w \in Workers, Fetch(w), hand[w] = NoJob,
           UNCHANGED call
    PROVE  Size' = Size /\ LostSize' = LostSize
  <1>1. Counted' = Counted /\ Lost' = Lost
    BY DEF Counted, Lost
  <1>2. CASE JobList = <<>>
    <2>1. UNCHANGED <<JobList, hand>>
      BY <1>2 DEF Fetch, WeakType
    <2> QED
      BY <1>1, <2>1 DEF Size, LostSize, InHand
  <1>3. CASE JobList # <<>>
    <2>1. /\ Len(JobList) \in Nat \ {0}
          /\ hand'[w] = JobList[1] /\ JobList[1] \in Jobs
          /\ Len(JobList') = Len(JobList) - 1
          /\ \A v \in Workers : v # w => hand'[v] = hand[v]
      BY <1>3, FetchCases
    <2>2. JobList[1] \notin InHand
      BY <2>1 DEF JobsInv, ListInv, InHand
    <2>3. InHand' = InHand \union {JobList[1]}
      BY <2>1, PoolAssumption DEF InHand
    <2>4. Cardinality(InHand') = Cardinality(InHand) + 1
      BY <2>2, <2>3, SizesType, FS_AddElement
    <2> QED
      BY <1>1, <2>1, <2>4, SizesType DEF Size, LostSize
  <1> QED
    BY <1>2, <1>3

\* A finished job leaves the only hand that held it.
LEMMA FinishSizes ==
    ASSUME WeakType, JobsInv, NEW w \in Workers, WorkerFinish(w)
    PROVE  Size' = Size - 1 /\ Size' \in Nat /\ LostSize' = LostSize
  <1>1. Counted' = Counted /\ Lost' = Lost /\ UNCHANGED JobList
    BY DEF WorkerFinish, Counted, Lost
  <1>2. hand[w] \in InHand
    BY DEF WorkerFinish, JobsInv, HandInv, InHand
  <1>3. InHand' = InHand \ {hand[w]}
    BY DEF WorkerFinish, JobsInv, HandInv, InHand, WeakType
  <1>4. Cardinality(InHand') = Cardinality(InHand) - 1 /\ Cardinality(InHand') \in Nat
    BY <1>2, <1>3, SizesType, FS_RemoveElement, FS_CardinalityType
  <1> QED
    BY <1>1, <1>4, SizesType DEF Size, LostSize

\* CountInv in terms of the two sizes.
LEMMA CountInvMeaning ==
    CountInv <=> /\ clear # "deleted" => uNoOfJobs = Size + LostSize
                 /\ Size <= MaxJobs
                 /\ 0 <= uNoOfJobs /\ uNoOfJobs <= MaxJobs
  BY DEF CountInv, JobCountExact, CapacityRespected, Size, LostSize

\* The same of the next state, where both are read off the primed variables.
LEMMA CountInvNext ==
    CountInv' <=> /\ clear' # "deleted" => uNoOfJobs' = Size' + LostSize'
                  /\ Size' <= MaxJobs
                  /\ 0 <= uNoOfJobs' /\ uNoOfJobs' <= MaxJobs
  BY DEF CountInv, JobCountExact, CapacityRespected, Size, LostSize

\* What the arithmetic of the steps below needs to know of its numbers.
LEMMA NumberTypes ==
    ASSUME WeakType
    PROVE  Size \in Nat /\ LostSize \in Nat /\ uNoOfJobs \in Int /\ MaxJobs \in Nat
  BY SizesType, PoolAssumption DEF WeakType

\* Steps that count nothing.
LEMMA SameCount ==
    ASSUME WeakType, WeakType', CountInv, Size' = Size, LostSize' = LostSize,
           UNCHANGED uNoOfJobs, clear' = "deleted" \/ clear # "deleted" \/ UNCHANGED clear
    PROVE  CountInv'
  BY CountInvMeaning, CountInvNext

\* One job more, below the limit.
LEMMA OneMore ==
    ASSUME WeakType, CountInv, clear # "deleted", UNCHANGED clear,
           uNoOfJobs < MaxJobs, uNoOfJobs' = uNoOfJobs + 1,
           Size' + LostSize' = Size + LostSize + 1, Size' \in Nat, Size' <= Size + 1
    PROVE  CountInv'
  BY CountInvMeaning, CountInvNext, NumberTypes

\* An empty pool counts no jobs.
LEMMA CountInit == Init => CountInv
  <1> SUFFICES ASSUME Init PROVE CountInv
    OBVIOUS
  <1>1. Counted = {} /\ Lost = {} /\ InHand = {}
    BY DEF Init, Counted, Lost, InHand
  <1>2. Len(JobList) = 0
    BY EmptySeq DEF Init
  <1>3. Size = 0 /\ LostSize = 0
    BY <1>1, <1>2, FS_EmptySet DEF Size, LostSize
  <1>4. uNoOfJobs = 0
    BY DEF Init
  <1> QED
    BY <1>3, <1>4, CountInvMeaning, PoolAssumption

\* Every step moves uNoOfJobs with the number of jobs it stands for: up when a
\* call enters, and stays below the limit, down when pFunction has returned.
LEMMA CountStep ==
    WeakType /\ WeakType' /\ JobsInv /\ ClearInv /\ CountInv /\ [Next]_vars => CountInv'
  <1> SUFFICES ASSUME WeakType, WeakType', JobsInv, ClearInv, CountInv, [Next]_vars
               PROVE  CountInv'
    OBVIOUS
  <1>1. ASSUME NEW j \in Jobs, AddJob(j) PROVE CountInv'
    <2>1. clear = "none" /\ UNCHANGED <<clear, hand>>
      BY <1>1 DEF ClearInv, InProgress, AddJob, AddJobEnter, AddJobWake, AddJobTimeout,
                  AddJobRetest, AddJobEnqueue, AddJobPost, shared, worker
    <2>2. ASSUME call[j] \in {"idle", "retest"}, uNoOfJobs < MaxJobs, CountJob(j), UNCHANGED JobList
          PROVE  CountInv'
      BY <2>1, <2>2, CountJobSizes, OneMore DEF CountJob
    <2>3. ASSUME NEW s \in {"blocked", "wouldblock", "retest", "timeout", "added"},
                 call' = [call EXCEPT ![j] = s], call[j] \notin {"counted", "nomem"},
                 UNCHANGED <<JobList, uNoOfJobs>>
          PROVE  CountInv'
      BY <2>1, <2>3, CallKeepsSizes, SameCount DEF CallStates
    <2>4. CASE AddJobEnter(j)
      BY <2>2, <2>3, <2>4 DEF AddJobEnter
    <2>5. CASE AddJobWake(j)
      BY <2>3, <2>5 DEF AddJobWake
    <2>6. CASE AddJobTimeout(j)
      BY <2>3, <2>6 DEF AddJobTimeout, shared
    <2>7. CASE AddJobRetest(j)
      BY <2>2, <2>3, <2>7 DEF AddJobRetest
    <2>8. CASE AddJobEnqueue(j)
      <3>1. /\ Size' + LostSize' = Size + LostSize /\ Size' \in Nat /\ Size' <= Size
            /\ UNCHANGED uNoOfJobs
        BY <2>8, EnqueueSizes DEF AddJobEnqueue
      <3> QED
        BY <2>1, <3>1, CountInvMeaning, CountInvNext, NumberTypes
    <2>9. CASE AddJobPost(j)
      BY <2>3, <2>9 DEF AddJobPost
    <2> QED
      BY <1>1, <2>4, <2>5, <2>6, <2>7, <2>8, <2>9 DEF AddJob
  <1>2. ASSUME NEW w \in Workers, ThreadMain(w) PROVE CountInv'
    <2>1. UNCHANGED <<clear, call>>
      BY <1>2 DEF ThreadMain, WorkerStart, WorkerIdle, WorkerResume, WorkerWake, WorkerReloop,
                  WorkerFetch, WorkerRun, WorkerSkip, WorkerFinish, WorkerRefetch, WorkerExit
    <2>2. ASSUME UNCHANGED <<JobList, hand, uNoOfJobs>> PROVE CountInv'
      <3>1. Size' = Size /\ LostSize' = LostSize
        BY <2>1, <2>2 DEF Size, LostSize, Counted, InHand, Lost
      <3> QED
        BY <2>1, <2>2, <3>1, SameCount
    <2>3. ASSUME Fetch(w), hand[w] = NoJob, UNCHANGED uNoOfJobs PROVE CountInv'
      BY <2>1, <2>3, FetchSizes, SameCount
    <2>4. CASE WorkerFinish(w)
      <3>1. clear # "deleted" /\ uNoOfJobs' = uNoOfJobs - 1
        BY <2>4 DEF WorkerFinish, ClearInv
      <3>2. Size' = Size - 1 /\ Size' \in Nat /\ LostSize' = LostSize
        BY <2>4, FinishSizes
      <3> QED
        BY <2>1, <3>1, <3>2, CountInvMeaning, CountInvNext, NumberTypes
    <2>5. CASE WorkerStart(w) \/ WorkerFetch(w) \/ WorkerRefetch(w)
      BY <2>3, <2>5 DEF WorkerStart, WorkerFetch, WorkerRefetch, JobsInv, HandInv
    <2> QED
      BY <1>2, <2>2, <2>4, <2>5
         DEF ThreadMain, WorkerIdle, WorkerResume, WorkerWake, WorkerReloop,
             WorkerRun, WorkerSkip, WorkerExit, shared
  <1>3. CASE ClearStop
    <2>1. Size' = Size /\ LostSize' = LostSize
      BY <1>3 DEF ClearStop, Size, LostSize, Counted, InHand, Lost, worker
    <2> QED
      BY <1>3, <2>1, SameCount DEF ClearStop
  <1>4. CASE ClearDelete
    <2>2. clear' = "deleted" /\ UNCHANGED uNoOfJobs /\ JobList' = <<>>
      BY <1>4 DEF ClearDelete
    <2>3. Counted' = Counted /\ InHand' = InHand
      BY <1>4 DEF ClearDelete, Counted, InHand, worker
    <2>4. Len(JobList') = 0
      BY <2>2, EmptySeq
    <2>5. Size' <= Size /\ Size' \in Nat
      BY <2>3, <2>4, SizesType DEF Size
    <2> QED
      BY <2>2, <2>5, CountInvMeaning, CountInvNext, NumberTypes
  <1>5. CASE UNCHANGED vars
    <2>1. Size' = Size /\ LostSize' = LostSize
      BY <1>5 DEF vars, shared, worker, Size, LostSize, Counted, InHand, Lost
    <2> QED
      BY <1>5, <2>1, SameCount DEF vars, shared
  <1> QED
    BY <1>1, <1>2, <1>3, <1>4, <1>5 DEF Next, Clear

-----------------------------------------------------------------------------
(* No job is left behind.                                                  *)

\* Worker w will look at the list before it waits.
OnItsWay(w) == \/ pc[w] \in {"start", "woken", "got", "running", "refetch"}
               \/ pc[w] = "loop" /\ hand[w] # NoJob

\* Only a fetch ends a worker's way to the list, and then the worker holds the
\* job it took or has found the list empty.
LEMMA StrandedStep == WeakType /\ WeakType' /\ NoJobStranded /\ [Next]_vars => NoJobStranded'
  <1> SUFFICES ASSUME WeakType, WeakType', NoJobStranded, [Next]_vars,
                      JobList' # <<>>, ~bStop'
               PROVE  \/ hJobAdded' > 0
                      \/ \E j \in Jobs : call'[j] = "queued"
                      \/ \E w \in Workers : OnItsWay(w)'
    BY DEF NoJobStranded, OnItsWay
  <1> DEFINE Cared == \/ hJobAdded > 0
                      \/ \E j \in Jobs : call[j] = "queued"
                      \/ \E w \in Workers : OnItsWay(w)
  <1>1. JobList # <<>> /\ ~bStop => Cared
    BY DEF NoJobStranded, OnItsWay
  <1>2. ASSUME NEW j \in Jobs, AddJob(j) PROVE Cared'
    <2>1. CASE AddJobEnqueue(j) /\ call' = [call EXCEPT ![j] = "queued"]
      BY <2>1 DEF WeakType
    <2>2. CASE AddJobPost(j)
      BY <2>2 DEF AddJobPost, WeakType
    <2>3. CASE ~AddJobPost(j) /\ ~(AddJobEnqueue(j) /\ call' = [call EXCEPT ![j] = "queued"])
      <3>1. /\ UNCHANGED <<JobList, bStop, hJobAdded, pc, hand>> /\ call[j] # "queued"
            /\ \A k \in Jobs : k # j => call'[k] = call[k]
        BY <1>2, <2>3 DEF AddJob, AddJobEnter, AddJobWake, AddJobTimeout, AddJobRetest,
                          AddJobEnqueue, CountJob, shared, worker, WeakType
      <3> QED
        BY <1>1, <3>1 DEF OnItsWay
    <2> QED
      BY <2>1, <2>2, <2>3
  <1>3. ASSUME NEW w \in Workers, ThreadMain(w) PROVE Cared'
    <2>1. UNCHANGED <<call, bStop>> /\ \A v \in Workers : v # w => pc'[v] = pc[v] /\ hand'[v] = hand[v]
      BY <1>3, FetchCases
         DEF ThreadMain, WorkerStart, WorkerIdle, WorkerResume, WorkerWake, WorkerReloop,
             WorkerFetch, WorkerRun, WorkerSkip, WorkerFinish, WorkerRefetch, WorkerExit,
             shared, WeakType
    <2>2. CASE WorkerStart(w) \/ WorkerRefetch(w)
      <3>1. Fetch(w) /\ pc'[w] = "loop"
        BY <2>2 DEF WorkerStart, WorkerRefetch, WeakType
      <3>2. hand'[w] # NoJob
        BY <3>1, FetchCases, PoolAssumption
      <3> QED
        BY <3>1, <3>2 DEF OnItsWay
    <2>3. CASE WorkerIdle(w) \/ WorkerReloop(w)
      <3>1. UNCHANGED <<JobList, hJobAdded, hand>> /\ ~OnItsWay(w)
        BY <2>3 DEF WorkerIdle, WorkerReloop, shared, OnItsWay
      <3> QED
        BY <1>1, <2>1, <3>1 DEF OnItsWay
    <2>4. CASE WorkerExit(w)
      BY <2>1, <2>4 DEF WorkerExit
    <2>5. CASE \/ WorkerResume(w) \/ WorkerWake(w) \/ WorkerFetch(w) \/ WorkerRun(w)
               \/ WorkerSkip(w) \/ WorkerFinish(w)
      <3>1. pc'[w] \in {"got", "woken", "running", "refetch"}
        BY <2>5 DEF WorkerResume, WorkerWake, WorkerFetch, WorkerRun, WorkerSkip,
                    WorkerFinish, WeakType
      <3> QED
        BY <3>1 DEF OnItsWay
    <2> QED
      BY <1>3, <2>2, <2>3, <2>4, <2>5 DEF ThreadMain
  <1>4. CASE Clear
    BY <1>4 DEF Clear, ClearStop, ClearDelete
  <1>5. CASE UNCHANGED vars
    BY <1>1, <1>5 DEF vars, shared, worker, OnItsWay
  <1> QED
    BY <1>2, <1>3, <1>4, <1>5 DEF Next

-----------------------------------------------------------------------------
(* The theorems.                                                           *)

\* PoolInv is an invariant: every part is kept by every step, given the others.
THEOREM PoolInvariant == Spec => []PoolInv
  <1>1. Init => PoolInv
    <2>1. Init => NoJobStranded
      BY DEF Init, NoJobStranded
    <2> QED
      BY <2>1, WeakTypeInit, JobsInit, ClearInit, CountInit DEF PoolInv, JobsInv
  <1>2. PoolInv /\ [Next]_vars => PoolInv'
    BY WeakTypeStep, JobsStep, ClearStep, CountStep, StrandedStep DEF PoolInv, JobsInv
  <1> QED
    BY <1>1, <1>2, PTL DEF Spec

\* Every variable keeps its type; in particular the unsigned counter uNoOfJobs,
\* which every finished job counts down, does not wrap below zero.
THEOREM TypeCorrect == Spec => []TypeOK
  <1>1. PoolInv => TypeOK
    BY DEF PoolInv, WeakType, CountInv, TypeOK
  <1> QED
    BY <1>1, PoolInvariant, PTL

\* The pool never holds more jobs than uNoOfJobsMax.
THEOREM CapacityHolds == Spec => []CapacityRespected
  <1>1. PoolInv => CapacityRespected
    BY DEF PoolInv, CountInv
  <1> QED
    BY <1>1, PoolInvariant, PTL

\* uNoOfJobs counts the jobs of the pool and those AddJob lost, no others.
THEOREM JobCountHolds == Spec => []JobCountExact
  <1>1. PoolInv => JobCountExact
    BY DEF PoolInv, CountInv
  <1> QED
    BY <1>1, PoolInvariant, PTL

\* A job is in one place at a time.
THEOREM OnePlaceHolds == Spec => []OnePlace
  <1>1. PoolInv => OnePlace
    BY DEF PoolInv, ListInv, HandInv, OnePlace, Queued, InHand
  <1> QED
    BY <1>1, PoolInvariant, PTL

\* A job is executed at most once, and only if it was put into the list.
THEOREM RunsAtMostOnceHolds == Spec => []RunsAtMostOnce
  <1>1. PoolInv => RunsAtMostOnce
    BY DEF PoolInv, WeakType, RanInv, RunsAtMostOnce, Entered
  <1> QED
    BY <1>1, PoolInvariant, PTL

\* A listed job is always on its way to a worker.
THEOREM NoJobStrandedHolds == Spec => []NoJobStranded
  <1>1. PoolInv => NoJobStranded
    BY DEF PoolInv
  <1> QED
    BY <1>1, PoolInvariant, PTL

-----------------------------------------------------------------------------
(* The pool is a service.                                                  *)

\* JobService counts as the pool does.
LEMMA SameCardinality == ASSUME NEW S PROVE Service!Cardinality(S) = Cardinality(S)
  BY DEF Service!Cardinality, Cardinality

\* The jobs of the service that threads have in their hands are those in the hands
\* of the workers, as long as there is a pool.
LEMMA InProcessIsInHand ==
    ASSUME WeakType, JobsInv, clear # "deleted"
    PROVE  Service!InProcess = InHand
  <1>1. InHand \subseteq Jobs
    BY DEF InHand, WeakType
  <1>2. ASSUME NEW j \in Jobs
        PROVE  Progress[j] \in {"taken", "running"} <=> j \in InHand
    <2>1. Progress[j] = Phase(j)
      BY DEF Progress
    <2>2. CASE j \in InHand
      <3>1. PICK w \in Workers : hand[w] = j /\ hand[w] # NoJob
        BY <2>2 DEF InHand
      <3>2. Entered(j)
        BY <3>1 DEF JobsInv, HandInv
      <3> QED
        BY <2>1, <2>2, <3>2, <1>2 DEF Phase, Entered
    <2>3. CASE j \notin InHand
      BY <2>1, <2>3 DEF Phase
    <2> QED
      BY <2>2, <2>3
  <1> QED
    BY <1>1, <1>2 DEF Service!InProcess

\* A worker with an empty hand is one that can take a job.
LEMMA HandsFree ==
    ASSUME WeakType, JobsInv, NEW w \in Workers, hand[w] = NoJob
    PROVE  Cardinality(InHand) < Cardinality(Workers)
  <1> DEFINE others == Workers \ {w}
             holder == [j \in InHand |-> CHOOSE v \in Workers : hand[v] = j]
  <1>1. \A j \in InHand : holder[j] \in others /\ hand[holder[j]] = j
    BY DEF InHand
  <1>2. holder \in Injection(InHand, others)
    BY <1>1 DEF Injection, IsInjective
  <1>3. IsFiniteSet(others) /\ Cardinality(others) = Cardinality(Workers) - 1
    BY PoolAssumption, FS_RemoveElement
  <1>4. Cardinality(InHand) <= Cardinality(others)
    <2> HIDE DEF holder, others
    <2> QED
      BY <1>2, <1>3, FS_Injection
  <1>5. Cardinality(InHand) \in Nat /\ Cardinality(Workers) \in Nat
    BY SizesType, PoolAssumption, FS_CardinalityType
  <1> HIDE DEF others
  <1> QED
    BY <1>3, <1>4, <1>5

\* A call that goes on without putting its job into the list is still about to, or
\* has been refused.
LEMMA CallIsRefuse ==
    ASSUME WeakType, NEW j \in Jobs, NEW s \in CallStates, clear = "none",
           call[j] \in {"idle", "blocked", "retest", "counted"},
           s \notin {"queued", "added"}, call' = [call EXCEPT ![j] = s],
           UNCHANGED <<JobList, hand, ran, clear>>
    PROVE  Service!Refuse(j) \/ UNCHANGED Service!vars
  <1>1. /\ Confirmed' = Confirmed /\ Stage' = Stage /\ Stage = "open"
    BY DEF Confirmed, Stage, WeakType
  <1>2. \A k \in Jobs : k # j => Phase(k)' = Phase(k)
    BY DEF Phase, InHand, Queued, WeakType
  <1>3. Phase(j) = "new" /\ Phase(j)' \in {"new", "refused"}
    BY DEF Phase, WeakType, CallStates
  <1>4. Progress' = [Progress EXCEPT ![j] = Phase(j)']
    BY <1>2 DEF Progress
  <1>5. Progress[j] = "new"
    BY <1>3 DEF Progress
  <1>6. CASE Phase(j)' = "refused"
    BY <1>1, <1>4, <1>5, <1>6 DEF Service!Refuse
  <1>7. CASE Phase(j)' = "new"
    <2>1. Progress' = Progress
      BY <1>4, <1>5, <1>7 DEF Progress
    <2> QED
      BY <1>1, <2>1 DEF Service!vars
  <1> QED
    BY <1>3, <1>6, <1>7

\* The job that enters the list is accepted, and the service has a slot for it: its
\* call counted it.
LEMMA EnqueueIsAccept ==
    ASSUME PoolInv, NEW j \in Jobs, call[j] = "counted",
           JobList' = Append(JobList, j), call' = [call EXCEPT ![j] = "queued"],
           UNCHANGED <<hand, ran, clear>>
    PROVE  Service!Accept(j)
  <1> USE DEF PoolInv
  <1>1. JobsInv
    BY DEF JobsInv
  <1>2. clear = "none"
    BY DEF ClearInv, InProgress
  <1>3. Confirmed' = Confirmed /\ Stage' = Stage /\ Stage = "open"
    BY <1>2 DEF Confirmed, Stage, WeakType
  <1>4. Queued' = Queued \union {j} /\ InHand' = InHand /\ j \notin InHand /\ ran[j] = 0
    <2>1. Queued' = Queued \union {j}
      BY EnqueueType DEF Queued
    <2>2. j \notin InHand /\ ran[j] = 0
      BY DEF InHand, HandInv, RanInv, Entered
    <2> QED
      BY <2>1, <2>2 DEF InHand
  <1>5. \A k \in Jobs : k # j => Phase(k)' = Phase(k)
    BY <1>4 DEF Phase, WeakType
  <1>6. Phase(j) = "new" /\ Phase(j)' = "waiting"
    BY <1>2, <1>4 DEF Phase, WeakType
  <1>7. Progress' = [Progress EXCEPT ![j] = "waiting"] /\ Progress[j] = "new"
    BY <1>5, <1>6 DEF Progress
  <1>8. Len(JobList) + Cardinality(Service!InProcess) < MaxJobs
    <2>1. Service!InProcess = InHand
      BY <1>1, <1>2, InProcessIsInHand
    <2>2. j \in Counted
      BY DEF Counted
    <2>3. Cardinality(Counted) > 0
      BY <2>2, SizesType, FS_EmptySet
    <2> QED
      BY <2>1, <2>3, SizesType, PoolAssumption DEF CountInv, CapacityRespected
  <1> QED
    BY <1>3, <1>7, <1>8, SameCardinality DEF Service!Accept

\* A call that has posted for its job returns with success.
LEMMA PostIsConfirm ==
    ASSUME WeakType, NEW j \in Jobs, AddJobPost(j)
    PROVE  Service!Confirm(j)
  <1>1. call[j] = "queued" /\ call' = [call EXCEPT ![j] = "added"]
        /\ UNCHANGED <<JobList, hand, ran, clear>>
    BY DEF AddJobPost, worker
  <1>2. \A k \in Jobs : Phase(k)' = Phase(k)
    BY <1>1 DEF Phase, InHand, Queued, WeakType
  <1>3. Progress' = Progress /\ Stage' = Stage
    BY <1>1, <1>2 DEF Progress, Stage
  <1>4. Progress[j] \notin {"new", "refused"}
    BY <1>1 DEF Progress, Phase
  <1>5. j \notin Confirmed /\ Confirmed' = Confirmed \union {j}
    BY <1>1 DEF Confirmed, WeakType
  <1> QED
    BY <1>1, <1>3, <1>4, <1>5 DEF Service!Confirm

\* A worker that fetches takes the first job of the line, if there is one.
LEMMA FetchIsTake ==
    ASSUME PoolInv, NEW w \in Workers, Fetch(w), hand[w] = NoJob, clear # "deleted",
           UNCHANGED <<call, ran, clear>>
    PROVE  Service!Take \/ UNCHANGED Service!vars
  <1> USE DEF PoolInv
  <1>1. JobsInv
    BY DEF JobsInv
  <1>2. Confirmed' = Confirmed /\ Stage' = Stage /\ Stage # "closed"
    BY DEF Confirmed, Stage, WeakType
  <1>3. CASE JobList = <<>>
    <2>1. UNCHANGED <<JobList, hand>>
      BY <1>3 DEF Fetch, WeakType
    <2> QED
      BY <1>2, <2>1 DEF Service!vars, Progress, Phase, InHand, Queued
  <1>4. CASE JobList # <<>>
    <2>1. PICK j \in Jobs :
          /\ JobList' = Tail(JobList) /\ Len(JobList) \in Nat \ {0}
          /\ hand'[w] = j /\ j = JobList[1]
          /\ Len(JobList') = Len(JobList) - 1
          /\ \A i \in 1 .. Len(JobList') : JobList'[i] = JobList[i + 1]
          /\ \A v \in Workers : v # w => hand'[v] = hand[v]
      BY <1>4, FetchCases DEF Fetch
    <2>2. InHand' = InHand \union {j} /\ j # NoJob
      <3>1. j # NoJob
        BY PoolAssumption
      <3>2. /\ \A v \in Workers : hand'[v] # NoJob => hand'[v] \in InHand \union {j}
            /\ \A v \in Workers : hand[v] # NoJob => hand[v] \in InHand'
        BY <2>1, <3>1 DEF InHand
      <3> QED
        BY <2>1, <3>1, <3>2 DEF InHand
    <2>3. Queued = Queued' \union {j}
      <3>1. \A i \in 1 .. Len(JobList) : i = 1 \/ (i - 1 \in 1 .. Len(JobList') /\ JobList'[i - 1] = JobList[i])
        BY <2>1
      <3>2. \A i \in 1 .. Len(JobList') : i + 1 \in 1 .. Len(JobList)
        BY <2>1
      <3>3. 1 \in 1 .. Len(JobList)
        BY <2>1
      <3> QED
        BY <2>1, <3>1, <3>2, <3>3 DEF Queued
    <2>4. Entered(j) /\ ran[j] = 0 /\ j \notin InHand
      BY <2>1 DEF ListInv, InHand
    <2>5. \A k \in Jobs : k # j => Phase(k)' = Phase(k)
      BY <2>2, <2>3 DEF Phase
    <2>6. Phase(j)' = "taken"
      BY <2>2, <2>4 DEF Phase, Entered
    <2>7. Progress' = [Progress EXCEPT ![j] = "taken"]
      BY <2>1, <2>5, <2>6 DEF Progress
    <2>8. Cardinality(Service!InProcess) < Cardinality(Workers)
      BY <1>1, InProcessIsInHand, HandsFree
    <2> QED
      BY <1>2, <1>4, <2>1, <2>7, <2>8, SameCardinality DEF Service!Take
  <1> QED
    BY <1>3, <1>4

\* A worker that enters pFunction starts the job in its hand ...
LEMMA RunIsStart ==
    ASSUME PoolInv, NEW w \in Workers, WorkerRun(w), clear # "deleted",
           NEW j \in Jobs, j = hand[w]
    PROVE  Service!Start(j)
  <1> USE DEF PoolInv
  <1>1. /\ j # NoJob /\ pc[w] = "got" /\ ran' = [ran EXCEPT ![j] = @ + 1]
        /\ UNCHANGED <<JobList, hand, call, clear>>
    BY DEF WorkerRun, WeakType
  <1>2. Confirmed' = Confirmed /\ Stage' = Stage /\ Stage # "closed"
    BY <1>1 DEF Confirmed, Stage, WeakType
  <1>3. Entered(j) /\ ran[j] = 0 /\ j \in InHand /\ InHand' = InHand /\ Queued' = Queued
    BY <1>1 DEF HandInv, InHand, Queued
  <1>4. \A k \in Jobs : k # j => Phase(k)' = Phase(k)
    BY <1>1, <1>3 DEF Phase, WeakType
  <1>5. Phase(j) = "taken" /\ Phase(j)' = "running"
    BY <1>1, <1>3 DEF Phase, Entered, WeakType
  <1>6. Progress' = [Progress EXCEPT ![j] = "running"] /\ Progress[j] = "taken"
    BY <1>1, <1>4, <1>5 DEF Progress
  <1> QED
    BY <1>1, <1>2, <1>6 DEF Service!Start

\* ... and finishes it when pFunction has returned.
LEMMA FinishIsFinish ==
    ASSUME PoolInv, NEW w \in Workers, WorkerFinish(w), clear # "deleted",
           NEW j \in Jobs, j = hand[w]
    PROVE  Service!Finish(j)
  <1> USE DEF PoolInv
  <1>1. /\ pc[w] = "running" /\ hand' = [hand EXCEPT ![w] = NoJob]
        /\ UNCHANGED <<JobList, ran, call, clear>>
    BY DEF WorkerFinish
  <1>2. /\ j # NoJob /\ Entered(j) /\ ran[j] = 1
        /\ \A v \in Workers : hand[v] = j => v = w
    BY <1>1, PoolAssumption DEF HandInv, WeakType
  <1>3. Confirmed' = Confirmed /\ Stage' = Stage /\ Stage # "closed"
    BY <1>1 DEF Confirmed, Stage, WeakType
  <1>4. j \in InHand /\ InHand' = InHand \ {j} /\ Queued' = Queued
    BY <1>1, <1>2 DEF InHand, Queued, WeakType
  <1>5. \A k \in Jobs : k # j => Phase(k)' = Phase(k)
    BY <1>1, <1>4 DEF Phase
  <1>6. Phase(j) = "running" /\ Phase(j)' = "done"
    BY <1>1, <1>2, <1>4 DEF Phase, Entered
  <1>7. Progress' = [Progress EXCEPT ![j] = "done"] /\ Progress[j] = "running"
    BY <1>2, <1>5, <1>6 DEF Progress
  <1> QED
    BY <1>1, <1>3, <1>7 DEF Service!Finish

\* Clear closes the service when no call is in progress ...
LEMMA StopIsClose ==
    ASSUME PoolInv, ClearStop
    PROVE  Service!Close
  <1> USE DEF PoolInv
  <1>1. /\ clear = "none" /\ InProgress = {} /\ clear' = "joining"
        /\ UNCHANGED <<JobList, hand, call, ran>>
    BY DEF ClearStop, worker
  <1>2. \A k \in Jobs : Phase(k)' = Phase(k)
    BY <1>1 DEF Phase, InHand, Queued
  <1>3. Progress' = Progress /\ Confirmed' = Confirmed
    BY <1>1, <1>2 DEF Progress, Confirmed
  <1>4. \A j \in Jobs : Progress[j] \notin {"new", "refused"} => j \in Confirmed
    BY <1>1 DEF Progress, Phase, Confirmed, InProgress
  <1> QED
    BY <1>1, <1>3, <1>4 DEF Service!Close, Stage

\* ... and has closed it when every worker has left its loop, none of them with a
\* job it is executing.
LEMMA DeleteIsClosed ==
    ASSUME PoolInv, ClearDelete
    PROVE  Service!Closed
  <1> USE DEF PoolInv
  <1>1. /\ clear = "joining" /\ clear' = "deleted" /\ \A w \in Workers : pc[w] = "exited"
        /\ JobList' = <<>>
        /\ UNCHANGED <<hand, call, ran>>
    BY DEF ClearDelete, worker
  <1>2. \A j \in InHand : Entered(j) /\ ran[j] = 0
    BY <1>1 DEF InHand, HandInv
  <1>3. ASSUME NEW j \in Jobs
        PROVE  /\ Phase(j) # "running"
               /\ Phase(j)' = IF Phase(j) \in {"waiting", "taken"} THEN "dropped" ELSE Phase(j)
    <2>1. InHand' = InHand
      BY <1>1 DEF InHand
    <2> QED
      BY <1>1, <1>2, <2>1 DEF Phase
  <1>4. /\ \A j \in Jobs : Progress[j] # "running"
        /\ Progress' = [j \in Jobs |-> IF Progress[j] \in {"waiting", "taken"}
                                         THEN "dropped" ELSE Progress[j]]
    BY <1>3 DEF Progress
  <1>5. Confirmed' = Confirmed
    BY <1>1 DEF Confirmed
  <1> QED
    BY <1>1, <1>4, <1>5 DEF Service!Closed, Stage

\* What the service does not see.
LEMMA UnseenStutters ==
    ASSUME UNCHANGED <<JobList, hand, call, ran, clear>>
    PROVE  UNCHANGED Service!vars
  BY DEF Service!vars, Progress, Phase, InHand, Queued, Confirmed, Stage

\* A pool that was initialised is a service nobody has used.
LEMMA InitIsService == Init => Service!Init
  <1> SUFFICES ASSUME Init PROVE Service!Init
    OBVIOUS
  <1>1. \A j \in Jobs : Phase(j) = "new"
    BY DEF Init, Phase
  <1> QED
    BY <1>1 DEF Init, Service!Init, Progress, Confirmed, Stage

\* A step of a caller, a worker or Clear is a step of the service or a stutter.
LEMMA StepIsService == PoolInv /\ [Next]_vars => [Service!Next]_(Service!vars)
  <1> SUFFICES ASSUME PoolInv, [Next]_vars
               PROVE  Service!Next \/ UNCHANGED Service!vars
    OBVIOUS
  <1>1. WeakType /\ JobsInv /\ ClearInv
    BY DEF PoolInv, JobsInv
  <1>2. ASSUME NEW j \in Jobs, AddJob(j)
        PROVE  Service!Next \/ UNCHANGED Service!vars
    <2>1. clear = "none"
      BY <1>1, <1>2 DEF ClearInv, InProgress, AddJob, AddJobEnter, AddJobWake, AddJobTimeout,
                  AddJobRetest, AddJobEnqueue, AddJobPost
    <2>2. CASE AddJobPost(j)
      BY <1>1, <2>2, PostIsConfirm DEF Service!Next
    <2>3. CASE AddJobEnqueue(j) /\ call'[j] = "queued"
      <3>1. /\ call[j] = "counted" /\ JobList' = Append(JobList, j)
            /\ call' = [call EXCEPT ![j] = "queued"] /\ UNCHANGED <<hand, ran, clear>>
        BY <1>1, <2>3 DEF AddJobEnqueue, worker, WeakType
      <3> QED
        BY <3>1, EnqueueIsAccept DEF Service!Next
    <2>4. CASE ~AddJobPost(j) /\ ~(AddJobEnqueue(j) /\ call'[j] = "queued")
      <3>1. PICK s \in CallStates :
                /\ call[j] \in {"idle", "blocked", "retest", "counted"}
                /\ s \notin {"queued", "added"} /\ call' = [call EXCEPT ![j] = s]
                /\ UNCHANGED <<JobList, hand, ran, clear>>
        <4>1. CASE AddJobEnter(j)
          BY <4>1 DEF AddJobEnter, CountJob, CallStates, worker
        <4>2. CASE AddJobWake(j)
          BY <4>2 DEF AddJobWake, CallStates, worker
        <4>3. CASE AddJobTimeout(j)
          BY <4>3 DEF AddJobTimeout, CallStates, worker, shared
        <4>4. CASE AddJobRetest(j)
          BY <4>4 DEF AddJobRetest, CountJob, CallStates, worker
        <4>5. CASE AddJobEnqueue(j)
          BY <1>1, <2>4, <4>5 DEF AddJobEnqueue, CallStates, worker, WeakType
        <4> QED
          BY <1>2, <2>4, <4>1, <4>2, <4>3, <4>4, <4>5 DEF AddJob
      <3> QED
        BY <1>1, <2>1, <3>1, CallIsRefuse DEF Service!Next
    <2> QED
      BY <2>2, <2>3, <2>4
  <1>3. ASSUME NEW w \in Workers, ThreadMain(w)
        PROVE  Service!Next \/ UNCHANGED Service!vars
    <2>1. pc[w] # "exited" /\ clear # "deleted"
      <3>1. pc[w] # "exited"
        BY <1>3 DEF ThreadMain, WorkerStart, WorkerIdle, WorkerResume, WorkerWake, WorkerReloop,
                    WorkerFetch, WorkerRun, WorkerSkip, WorkerFinish, WorkerRefetch, WorkerExit
      <3> QED
        BY <1>1, <3>1 DEF ClearInv
    <2>2. CASE WorkerStart(w) \/ WorkerFetch(w) \/ WorkerRefetch(w)
      <3>1. Fetch(w) /\ hand[w] = NoJob /\ UNCHANGED <<call, ran, clear>>
        BY <1>1, <2>2 DEF WorkerStart, WorkerFetch, WorkerRefetch, JobsInv, HandInv
      <3> QED
        BY <2>1, <3>1, FetchIsTake DEF Service!Next
    <2>3. CASE WorkerRun(w)
      <3>1. hand[w] \in Jobs
        BY <1>1, <2>3 DEF WorkerRun, WeakType
      <3> QED
        BY <2>1, <2>3, <3>1, RunIsStart DEF Service!Next
    <2>4. CASE WorkerFinish(w)
      <3>1. hand[w] \in Jobs
        BY <1>1, <2>4 DEF WorkerFinish, JobsInv, HandInv, WeakType
      <3> QED
        BY <2>1, <2>4, <3>1, FinishIsFinish DEF Service!Next
    <2>5. CASE WorkerIdle(w) \/ WorkerResume(w) \/ WorkerWake(w) \/ WorkerReloop(w)
                 \/ WorkerSkip(w) \/ WorkerExit(w)
      <3>1. UNCHANGED <<JobList, hand, call, ran, clear>>
        BY <2>5 DEF WorkerIdle, WorkerResume, WorkerWake, WorkerReloop, WorkerSkip, WorkerExit,
                    shared
      <3> QED
        BY <3>1, UnseenStutters
    <2> QED
      BY <1>3, <2>2, <2>3, <2>4, <2>5 DEF ThreadMain
  <1>4. CASE Clear
    BY <1>4, StopIsClose, DeleteIsClosed DEF Clear, Service!Next
  <1>5. CASE UNCHANGED vars
    BY <1>5, UnseenStutters DEF vars, shared, worker
  <1> QED
    BY <1>2, <1>3, <1>4, <1>5 DEF Next

\* The pool implements JobService, for every number of workers, jobs and slots: every
\* call is answered truthfully, the jobs are taken in order, and each runs once.
THEOREM ServiceImplemented == Spec => ImplementsService
  BY InitIsService, StepIsService, PoolInvariant, PTL DEF Spec, ImplementsService, Service!Spec
=============================================================================
