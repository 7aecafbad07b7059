------------------------- MODULE WorkerBuildQueue -------------------------
(***************************************************************************)
(* The scheduler's in-memory build queue, pkg/builder/worker_build_queue.  *)
(* Clients call Execute and WaitExecution and receive a stream of          *)
(* operations; workers call GetWork and are handed jobs over a             *)
(* bidirectional stream.  One mutex (jobsLock) protects everything, one    *)
(* condition variable (jobsPendingInsertionWakeup) wakes up workers, and   *)
(* every job has a condition variable (executeTransitionWakeup) that wakes *)
(* up the clients waiting for it.                                          *)
(*                                                                         *)
(* A job is identified by its position in jobsNameMap: jobs are never      *)
(* purged from that map, so the position stands both for the job's random  *)
(* name and for its insertionOrder (nextInsertionOrder is the length).     *)
(* GetCapabilities returns a constant and is not a step.                   *)
(***************************************************************************)
EXTENDS Integers, Sequences, FiniteSets

CONSTANTS
    Keys,            \* deduplication keys: action digests with their instance
    Priorities,      \* values of ExecutionPolicy.Priority (0 when absent)
    Clients,         \* goroutines serving Execute or WaitExecution calls
    Workers,         \* goroutines serving GetWork streams
    Responses,       \* what a worker that ran the action may answer
    ErrorResponse,   \* convertErrorToExecuteResponse of a Send or Recv error
    NoResponse,      \* executeResponse == nil
    NoOne,           \* holder of an unlocked jobsLock
    jobsPendingMax,  \* -jobs-pending-max
    MaxJobs,         \* bound: jobs created
    MaxStreamFaults  \* bound: GetWork streams cancelled or half-closed

ASSUME QueueAssumption ==
    /\ Priorities \subseteq Int
    /\ jobsPendingMax \in Nat /\ MaxJobs \in Nat /\ MaxStreamFaults \in Nat
    /\ Clients \cap Workers = {}
    /\ NoOne \notin Clients \cup Workers
    /\ NoResponse \notin Responses \cup {ErrorResponse}
    /\ IsFiniteSet(Workers)

VARIABLES
    jobsNameMap,           \* every job ever created, in insertion order
    jobsDeduplicationMap,  \* key -> job that new requests for it will join
    jobsPending,           \* the heap of jobs that wait for a worker
    jobsLock,              \* the goroutine that holds the mutex
    clientState,           \* where the goroutine of each client call is
    clientJob,             \* the job that call has looked up
    received,              \* operations sent on the call's stream so far
    clientStatus,          \* "none" while the call runs, then what it returned
    workerState,           \* where the goroutine of each GetWork call is
    workerJob,             \* the job that goroutine has popped
    workerResult,          \* what executeOnWorker returned for that job
    stream,                \* the GetWork stream: open, half-closed, cancelled
    faults                 \* streams cancelled or half-closed so far

queueVars  == <<jobsNameMap, jobsDeduplicationMap, jobsPending>>
clientVars == <<clientState, clientJob, received, clientStatus>>
workerVars == <<workerState, workerJob, workerResult, stream, faults>>
vars == <<queueVars, jobsLock, clientVars, workerVars>>

Stages == {"QUEUED", "EXECUTING", "COMPLETED"}
Statuses == {"none", "OK", "InvalidArgument", "Unavailable", "NotFound", "SendError"}
NoJob == 0
Outcomes == Responses \cup {ErrorResponse}

Job == [key : Keys, priority : Priorities, stage : Stages,
        executeResponse : Outcomes \cup {NoResponse}]

Operation == [stage : Stages, response : Outcomes \cup {NoResponse}]

JobIds == 1 .. Len(jobsNameMap)

\* Mutation of Less: the newest of the jobs of equal priority first.
LessNewestFirst(i, j) ==
    \/ jobsNameMap[i].priority < jobsNameMap[j].priority
    \/ /\ jobsNameMap[i].priority = jobsNameMap[j].priority
       /\ i > j

\* The order in which workers extract jobs: priority, then insertion order.
Less(i, j) ==
    \/ jobsNameMap[i].priority < jobsNameMap[j].priority
    \/ /\ jobsNameMap[i].priority = jobsNameMap[j].priority
       /\ i < j

\* Mutation of Signal: nobody is woken up.
SignalNobody(ws) == {ws}

\* sync.Cond.Signal on jobsPendingInsertionWakeup: the worker states that may
\* result from ws, with one sleeping goroutine (if any) made runnable.
Signal(ws) ==
    LET sleeping == {v \in Workers : ws[v] = "sleeping"}
    IN  IF sleeping = {} THEN {ws}
        ELSE {[ws EXCEPT ![v] = "loop"] : v \in sleeping}

\* Mutations of Broadcast: nobody is woken up; calls for other jobs are, too.
BroadcastNobody(j) == clientState
BroadcastEverybody(j) ==
    [c \in Clients |-> IF clientState[c] = "waiting" THEN "woken" ELSE clientState[c]]

\* sync.Cond.Broadcast on job j's executeTransitionWakeup.
Broadcast(j) ==
    [c \in Clients |-> IF clientState[c] = "waiting" /\ clientJob[c] = j
                       THEN "woken" ELSE clientState[c]]

\* The job that a request for key k joins.
JobFor(k) == jobsDeduplicationMap[k]

\* Mutation of TooManyPending: jobs in execution count as well.
TooManyLive == Cardinality({j \in JobIds : jobsNameMap[j].stage # "COMPLETED"}) >= jobsPendingMax

\* Execute creates no more jobs.
TooManyPending == Cardinality(jobsPending) >= jobsPendingMax

\* jobsNameMap with a new job for key k and priority p.
WithJob(k, p) ==
    Append(jobsNameMap, [key |-> k, priority |-> p, stage |-> "QUEUED",
                         executeResponse |-> NoResponse])

\* Mutation of Executing: the stage is not set.
ExecutingForgotten(j) == jobsNameMap

\* jobsNameMap with job j handed to a worker, and with j completed.
Executing(j) == [jobsNameMap EXCEPT ![j].stage = "EXECUTING"]
Completed(j, r) ==
    [jobsNameMap EXCEPT ![j].stage = "COMPLETED", ![j].executeResponse = r]

\* Mutation of WithoutKeyOf: the deduplication entry is kept.
WithoutKeyOfForgotten(j) == jobsDeduplicationMap

\* jobsDeduplicationMap without the entry for job j's key.
WithoutKeyOf(j) == [jobsDeduplicationMap EXCEPT ![jobsNameMap[j].key] = NoJob]

Init ==
    /\ jobsNameMap = <<>>
    /\ jobsDeduplicationMap = [k \in Keys |-> NoJob]
    /\ jobsPending = {}
    /\ jobsLock = NoOne
    /\ clientState = [c \in Clients |-> "idle"]
    /\ clientJob = [c \in Clients |-> NoJob]
    /\ received = [c \in Clients |-> <<>>]
    /\ clientStatus = [c \in Clients |-> "none"]
    /\ workerState = [w \in Workers |-> "idle"]
    /\ workerJob = [w \in Workers |-> NoJob]
    /\ workerResult = [w \in Workers |-> NoResponse]
    /\ stream = [w \in Workers |-> "open"]
    /\ faults = 0

---------------------------------------------------------------------------
\* Client side: Execute, WaitExecution and waitExecution.

\* A new call on c may look at the queue.
CallStarts(c) == clientState[c] = "idle" /\ jobsLock = NoOne

\* The call enters waitExecution for job j, still holding jobsLock.
EnterWait(c, j) ==
    /\ jobsLock' = c
    /\ clientState' = [clientState EXCEPT ![c] = "sending"]
    /\ clientJob' = [clientJob EXCEPT ![c] = j]
    /\ received' = [received EXCEPT ![c] = <<>>]
    /\ clientStatus' = [clientStatus EXCEPT ![c] = "none"]

\* The call returns an error without having sent anything.
Refuse(c, status) ==
    /\ clientJob' = [clientJob EXCEPT ![c] = NoJob]
    /\ received' = [received EXCEPT ![c] = <<>>]
    /\ clientStatus' = [clientStatus EXCEPT ![c] = status]
    /\ UNCHANGED <<queueVars, jobsLock, clientState, workerVars>>

\* Execute: NewDigest fails on a malformed digest, before jobsLock is taken.
ExecuteInvalid(c) ==
    /\ clientState[c] = "idle"
    /\ Refuse(c, "InvalidArgument")

\* Execute: no job to join, and too many jobs pending to create one.
ExecuteRefused(c, k) ==
    /\ CallStarts(c)
    /\ JobFor(k) = NoJob
    /\ TooManyPending
    /\ Refuse(c, "Unavailable")

\* Execute finds a job with the same deduplication key and joins it.
ExecuteJoin(c, k) ==
    /\ CallStarts(c)
    /\ JobFor(k) # NoJob
    /\ EnterWait(c, JobFor(k))
    /\ UNCHANGED <<queueVars, workerVars>>

\* Execute creates a job and wakes up one worker.
ExecuteCreate(c, k, p) ==
    /\ CallStarts(c)
    /\ JobFor(k) = NoJob
    /\ ~TooManyPending
    /\ Len(jobsNameMap) < MaxJobs
    /\ LET j == Len(jobsNameMap) + 1
       IN  /\ jobsNameMap' = WithJob(k, p)
           /\ jobsDeduplicationMap' = [jobsDeduplicationMap EXCEPT ![k] = j]
           /\ jobsPending' = jobsPending \cup {j}
           /\ EnterWait(c, j)
    /\ workerState' \in Signal(workerState)
    /\ UNCHANGED <<workerJob, workerResult, stream, faults>>

\* WaitExecution looks the job up by its name.
WaitExecution(c, j) ==
    /\ CallStarts(c)
    /\ \/ /\ j \in JobIds
          /\ EnterWait(c, j)
          /\ UNCHANGED <<queueVars, workerVars>>
       \/ /\ j \notin JobIds
          /\ Refuse(c, "NotFound")

\* waitExecution: out.Send of the job's current state, with jobsLock held; then
\* return if the job has its response, else executeTransitionWakeup.Wait().
SendOperation(c) ==
    /\ clientState[c] = "sending"
    /\ LET job == jobsNameMap[clientJob[c]]
       IN  /\ received' = [received EXCEPT ![c] = Append(@,
                 [stage |-> job.stage, response |-> job.executeResponse])]
           /\ clientState' = [clientState EXCEPT ![c] =
                 IF job.executeResponse # NoResponse THEN "idle" ELSE "waiting"]
           /\ clientStatus' = [clientStatus EXCEPT ![c] =
                 IF job.executeResponse # NoResponse THEN "OK" ELSE @]
    /\ jobsLock' = NoOne
    /\ UNCHANGED <<queueVars, clientJob, workerVars>>

\* out.Send fails because the client is gone: the call returns.
SendFails(c) ==
    /\ clientState[c] = "sending"
    /\ clientState' = [clientState EXCEPT ![c] = "idle"]
    /\ clientStatus' = [clientStatus EXCEPT ![c] = "SendError"]
    /\ jobsLock' = NoOne
    /\ UNCHANGED <<queueVars, clientJob, received, workerVars>>

\* Wait() returns once the woken goroutine has the mutex again.
WaitReturns(c) ==
    /\ clientState[c] = "woken" /\ jobsLock = NoOne
    /\ clientState' = [clientState EXCEPT ![c] = "sending"]
    /\ jobsLock' = c
    /\ UNCHANGED <<queueVars, clientJob, received, clientStatus, workerVars>>

---------------------------------------------------------------------------
\* Worker side: GetWork and executeOnWorker.

\* A worker calls GetWork; the goroutine is about to take jobsLock.
GetWork(w) ==
    /\ workerState[w] = "idle"
    /\ workerState' = [workerState EXCEPT ![w] = "loop"]
    /\ stream' = [stream EXCEPT ![w] = "open"]
    /\ UNCHANGED <<queueVars, jobsLock, clientVars, workerJob, workerResult, faults>>

\* w runs the loop of GetWork: it has kept jobsLock from marking completion, or
\* takes it now (on entry, or on return from Wait()).
InLoop(w) == workerState[w] = "loop" /\ jobsLock \in {NoOne, w}

\* No jobs: jobsPendingInsertionWakeup.Wait().
WaitForJobs(w) ==
    /\ InLoop(w)
    /\ jobsPending = {}
    /\ workerState' = [workerState EXCEPT ![w] = "sleeping"]
    /\ jobsLock' = NoOne
    /\ UNCHANGED <<queueVars, clientVars, workerJob, workerResult, stream, faults>>

\* There are jobs, but the stream's context is cancelled: pass the wakeup on
\* to another worker and return.
LeaveGetWork(w) ==
    /\ InLoop(w)
    /\ jobsPending # {}
    /\ stream[w] = "cancelled"
    /\ workerState' \in Signal([workerState EXCEPT ![w] = "idle"])
    /\ jobsLock' = NoOne
    /\ UNCHANGED <<queueVars, clientVars, workerJob, workerResult, stream, faults>>

\* Extract the first job; unlock; stream.Send it to the worker.  Clients are
\* not woken up for the transition to EXECUTING.
ExtractJob(w) ==
    /\ InLoop(w)
    /\ stream[w] # "cancelled"
    /\ \E j \in jobsPending :
          /\ \A i \in jobsPending \ {j} : Less(j, i)
          /\ jobsPending' = jobsPending \ {j}
          /\ jobsNameMap' = Executing(j)
          /\ workerJob' = [workerJob EXCEPT ![w] = j]
    /\ workerState' = [workerState EXCEPT ![w] = "executing"]
    /\ jobsLock' = NoOne
    /\ UNCHANGED <<jobsDeduplicationMap, clientVars, workerResult, stream, faults>>

\* executeOnWorker returns, without the lock: the worker's response while its
\* side of the stream is open, the converted error once it no longer is.
ExecuteOnWorker(w, r) ==
    /\ workerState[w] = "executing"
    /\ r \in IF stream[w] = "open" THEN Responses ELSE {ErrorResponse}
    /\ workerState' = [workerState EXCEPT ![w] = "completing"]
    /\ workerResult' = [workerResult EXCEPT ![w] = r]
    /\ UNCHANGED <<queueVars, jobsLock, clientVars, workerJob, stream, faults>>

\* Mark completion, under jobsLock, and go round the loop without unlocking.
MarkCompletion(w) ==
    /\ workerState[w] = "completing" /\ jobsLock = NoOne
    /\ LET j == workerJob[w]
       IN  /\ jobsDeduplicationMap' = WithoutKeyOf(j)
           /\ jobsNameMap' = Completed(j, workerResult[w])
           /\ clientState' = Broadcast(j)
    /\ workerState' = [workerState EXCEPT ![w] = "loop"]
    /\ workerJob' = [workerJob EXCEPT ![w] = NoJob]
    /\ workerResult' = [workerResult EXCEPT ![w] = NoResponse]
    /\ jobsLock' = w
    /\ UNCHANGED <<jobsPending, clientJob, received, clientStatus, stream, faults>>

\* The worker, its connection or its process goes away: the context of the
\* stream is cancelled.
CancelStream(w) ==
    /\ workerState[w] # "idle" /\ stream[w] # "cancelled"
    /\ faults < MaxStreamFaults
    /\ stream' = [stream EXCEPT ![w] = "cancelled"]
    /\ faults' = faults + 1
    /\ UNCHANGED <<queueVars, jobsLock, clientVars, workerState, workerJob, workerResult>>

\* subscribeAndExecute in bbb_worker returns without executing the request it
\* received: CloseSend ends the worker's side of the stream, while the context
\* of the stream, made from context.Background(), stays alive.
HalfCloseStream(w) ==
    /\ workerState[w] = "executing" /\ stream[w] = "open"
    /\ faults < MaxStreamFaults
    /\ stream' = [stream EXCEPT ![w] = "halfclosed"]
    /\ faults' = faults + 1
    /\ UNCHANGED <<queueVars, jobsLock, clientVars, workerState, workerJob, workerResult>>

---------------------------------------------------------------------------
ClientNext(c) ==
    \/ ExecuteInvalid(c)
    \/ \E k \in Keys : ExecuteRefused(c, k)
    \/ \E k \in Keys : ExecuteJoin(c, k)
    \/ \E k \in Keys, p \in Priorities : ExecuteCreate(c, k, p)
    \/ \E j \in 1 .. MaxJobs : WaitExecution(c, j)
    \/ SendOperation(c)
    \/ SendFails(c)
    \/ WaitReturns(c)

WorkerNext(w) ==
    \/ GetWork(w)
    \/ WaitForJobs(w)
    \/ LeaveGetWork(w)
    \/ ExtractJob(w)
    \/ \E r \in Outcomes : ExecuteOnWorker(w, r)
    \/ MarkCompletion(w)
    \/ CancelStream(w)
    \/ HalfCloseStream(w)

Next ==
    \/ \E c \in Clients : ClientNext(c)
    \/ \E w \in Workers : WorkerNext(w)

Spec == Init /\ [][Next]_vars

\* Goroutines that can run do run.  A goroutine that waits for jobsLock gets it
\* in the end even if others keep taking it: Go's mutex hands itself over to a
\* waiter it has starved.  Sends to clients return and workers answer or lose
\* their stream, for nothing in the scheduler times out; a worker whose call
\* ended calls GetWork again.  Nothing forces a client to call.
Fairness ==
    /\ \A c \in Clients :
          /\ WF_vars(SendOperation(c) \/ SendFails(c))
          /\ SF_vars(WaitReturns(c))
    /\ \A w \in Workers :
          /\ WF_vars(GetWork(w))
          /\ WF_vars(\E r \in Outcomes : ExecuteOnWorker(w, r))
          /\ SF_vars(WaitForJobs(w) \/ LeaveGetWork(w) \/ ExtractJob(w))
          /\ SF_vars(MarkCompletion(w))

FairSpec == Spec /\ Fairness
---------------------------------------------------------------------------
\* Properties.

\* Type invariant of the queue, its clients and its workers.
TypeOK ==
    /\ jobsNameMap \in Seq(Job) /\ Len(jobsNameMap) <= MaxJobs
    /\ jobsDeduplicationMap \in [Keys -> 0 .. Len(jobsNameMap)]
    /\ jobsPending \in SUBSET JobIds
    /\ jobsLock \in Clients \cup Workers \cup {NoOne}
    /\ clientState \in [Clients -> {"idle", "sending", "waiting", "woken"}]
    /\ clientJob \in [Clients -> 0 .. Len(jobsNameMap)]
    /\ received \in [Clients -> Seq(Operation)]
    /\ clientStatus \in [Clients -> Statuses]
    /\ workerState \in [Workers -> {"idle", "loop", "sleeping", "executing", "completing"}]
    /\ workerJob \in [Workers -> 0 .. Len(jobsNameMap)]
    /\ workerResult \in [Workers -> Outcomes \cup {NoResponse}]
    /\ stream \in [Workers -> {"open", "halfclosed", "cancelled"}]
    /\ faults \in 0 .. MaxStreamFaults

\* The deduplication map holds exactly the jobs without a response (Execute
\* adds, GetWork deletes by key): a request never joins a job that is over, no
\* job is lost from the map, and so no two live jobs ever share a key.
DeduplicationExact ==
    \A k \in Keys : \A j \in JobIds :
        jobsDeduplicationMap[k] = j <=>
            jobsNameMap[j].key = k /\ jobsNameMap[j].stage # "COMPLETED"

\* Every job is in exactly one place: QUEUED jobs are in the heap, an EXECUTING
\* job is in the hands of one GetWork goroutine, a COMPLETED one of none.  No
\* job is dropped when a stream breaks, and none is handed out twice.
JobsConserved ==
    /\ jobsPending = {j \in JobIds : jobsNameMap[j].stage = "QUEUED"}
    /\ \A j \in JobIds : jobsNameMap[j].stage = "EXECUTING" <=>
          \E w \in Workers :
             /\ workerJob[w] = j
             /\ \A v \in Workers \ {w} : workerJob[v] # j

\* No wakeup of a worker is lost: while some goroutine sleeps in
\* jobsPendingInsertionWakeup.Wait(), every pending job has a goroutine of its
\* own that is on its way to the heap.  (Execute and the cancelled stream of
\* GetWork signal one worker each; a job nobody is coming for would wait for
\* the next Execute while workers sleep.)
NoLostWakeup ==
    LET sleeping == {w \in Workers : workerState[w] = "sleeping"}
        coming   == {w \in Workers : workerState[w] = "loop"}
    IN  sleeping # {} => Cardinality(jobsPending) <= Cardinality(coming)

\* No wakeup of a client is lost: a call that sleeps in waitExecution sleeps on
\* a job whose completion is still to be broadcast.
NoLostBroadcast ==
    \A c \in Clients : clientState[c] = "waiting" =>
        /\ clientJob[c] \in JobIds
        /\ jobsNameMap[clientJob[c]].executeResponse = NoResponse
        /\ jobsNameMap[clientJob[c]].stage # "COMPLETED"

\* The heap never overtakes: a job that has left the queue cannot have been
\* preferred to one that is still there although it was inserted earlier and
\* has no worse priority.
NoOvertaking ==
    \A i, j \in JobIds :
        /\ i < j
        /\ jobsNameMap[i].priority <= jobsNameMap[j].priority
        /\ jobsNameMap[i].stage = "QUEUED"
        => jobsNameMap[j].stage = "QUEUED"

StageRank(s) == CASE s = "QUEUED" -> 0 [] s = "EXECUTING" -> 1 [] s = "COMPLETED" -> 2

\* A call's stream tells the truth and every operation on it is news: stages
\* strictly increase, only the last operation is COMPLETED, it alone carries a
\* response, that of the job; and a call that returned OK has sent it.
OperationsAreNews ==
    \A c \in Clients :
        LET ops == received[c] IN
        /\ \A i \in 1 .. Len(ops) - 1 : StageRank(ops[i].stage) < StageRank(ops[i + 1].stage)
        /\ \A i \in 1 .. Len(ops) :
              /\ ops[i].stage = "COMPLETED" <=> ops[i].response # NoResponse
              /\ ops[i].stage = "COMPLETED" =>
                    ops[i].response = jobsNameMap[clientJob[c]].executeResponse
        /\ clientStatus[c] = "OK" => Len(ops) > 0 /\ ops[Len(ops)].stage = "COMPLETED"

\* The refinement mapping: what is left of the queue without its lock, heap, map
\* of keys, wakeups and workers.
Service == INSTANCE JobService WITH
    Limit <- jobsPendingMax,
    jobs <- jobsNameMap,
    follows <- [c \in Clients |-> IF clientState[c] = "idle" THEN NoJob ELSE clientJob[c]],
    reported <- received,
    result <- clientStatus

\* The queue implements the job service: jobs only advance, each is started once
\* and in its turn, a new one is created exactly when no live job has its key and
\* fewer than jobsPendingMax wait (Unavailable is returned for no other reason),
\* and calls report nothing but the current state of the job they follow, up to
\* its completion.
ImplementsService == Service!Spec

\* A worker never gets a job whose key another worker is executing: two
\* requests for one action run once, whatever the interleaving of Execute,
\* GetWork and broken streams.
ExecutionsDistinct ==
    \A v, w \in Workers :
        /\ v # w
        /\ workerState[v] \in {"executing", "completing"}
        /\ workerState[w] \in {"executing", "completing"}
        => jobsNameMap[workerJob[v]].key # jobsNameMap[workerJob[w]].key

\* Every call is answered: one that entered waitExecution returns in the end,
\* although workers and their streams come and go.
CallsReturn ==
    \A c \in Clients : clientState[c] # "idle" ~> clientState[c] = "idle"

\* No job stays in the scheduler for ever.
JobsComplete ==
    \A j \in 1 .. MaxJobs : j \in JobIds ~> (j \in JobIds /\ jobsNameMap[j].stage = "COMPLETED")
===========================================================================
