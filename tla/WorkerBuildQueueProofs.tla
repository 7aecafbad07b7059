---------------------- MODULE WorkerBuildQueueProofs ----------------------
(***************************************************************************)
(* Proofs about the scheduler's build queue, for any number of clients,    *)
(* workers, keys and jobs.                                                 *)
(***************************************************************************)
EXTENDS WorkerBuildQueue, TLAPS, FiniteSetTheorems

---------------------------------------------------------------------------
\* What the three updates of jobsNameMap do.

\* Handing job j to a worker changes its stage and nothing else.
LEMMA ExecutingFacts ==
    ASSUME jobsNameMap \in Seq(Job), NEW j \in JobIds
    PROVE  /\ Executing(j) \in Seq(Job)
           /\ Len(Executing(j)) = Len(jobsNameMap)
           /\ \A i \in JobIds : i # j => Executing(j)[i] = jobsNameMap[i]
           /\ Executing(j)[j].key = jobsNameMap[j].key
           /\ Executing(j)[j].priority = jobsNameMap[j].priority
           /\ Executing(j)[j].executeResponse = jobsNameMap[j].executeResponse
           /\ Executing(j)[j].stage = "EXECUTING"
<1>1. jobsNameMap[j] \in Job
    BY DEF JobIds
<1> DEFINE new == [jobsNameMap[j] EXCEPT !.stage = "EXECUTING"]
<1>2. new \in Job /\ new.key = jobsNameMap[j].key /\ new.priority = jobsNameMap[j].priority
      /\ new.executeResponse = jobsNameMap[j].executeResponse /\ new.stage = "EXECUTING"
    BY <1>1 DEF Job, Stages
<1>3. Executing(j) = [jobsNameMap EXCEPT ![j] = new]
    BY DEF Executing
<1> HIDE DEF new
<1> QED
    BY <1>2, <1>3 DEF JobIds

\* Completing job j sets its stage and its response and nothing else.
LEMMA CompletedFacts ==
    ASSUME jobsNameMap \in Seq(Job), NEW j \in JobIds, NEW r \in Outcomes
    PROVE  /\ Completed(j, r) \in Seq(Job)
           /\ Len(Completed(j, r)) = Len(jobsNameMap)
           /\ \A i \in JobIds : i # j => Completed(j, r)[i] = jobsNameMap[i]
           /\ Completed(j, r)[j].key = jobsNameMap[j].key
           /\ Completed(j, r)[j].priority = jobsNameMap[j].priority
           /\ Completed(j, r)[j].executeResponse = r
           /\ Completed(j, r)[j].stage = "COMPLETED"
<1>1. jobsNameMap[j] \in Job
    BY DEF JobIds
<1> DEFINE new == [jobsNameMap[j] EXCEPT !.stage = "COMPLETED", !.executeResponse = r]
<1>2. new \in Job /\ new.key = jobsNameMap[j].key /\ new.priority = jobsNameMap[j].priority
      /\ new.executeResponse = r /\ new.stage = "COMPLETED"
    BY <1>1 DEF Job, Stages
<1>3. Completed(j, r) = [jobsNameMap EXCEPT ![j] = new]
    BY DEF Completed, JobIds
<1> HIDE DEF new
<1> QED
    BY <1>2, <1>3 DEF JobIds

\* A new job comes after all others, which it leaves alone.
LEMMA WithJobFacts ==
    ASSUME jobsNameMap \in Seq(Job), NEW k \in Keys, NEW p \in Priorities
    PROVE  LET n == Len(jobsNameMap) + 1 IN
           /\ WithJob(k, p) \in Seq(Job)
           /\ Len(WithJob(k, p)) = n
           /\ \A i \in JobIds : WithJob(k, p)[i] = jobsNameMap[i]
           /\ WithJob(k, p)[n].key = k
           /\ WithJob(k, p)[n].priority = p
           /\ WithJob(k, p)[n].executeResponse = NoResponse
           /\ WithJob(k, p)[n].stage = "QUEUED"
<1> DEFINE new == [key |-> k, priority |-> p, stage |-> "QUEUED", executeResponse |-> NoResponse]
<1>1. new \in Job /\ new.key = k /\ new.priority = p
      /\ new.executeResponse = NoResponse /\ new.stage = "QUEUED"
    BY DEF Job, Stages
<1>2. WithJob(k, p) = Append(jobsNameMap, new)
    BY DEF WithJob
<1> HIDE DEF new
<1> QED
    BY <1>1, <1>2 DEF JobIds

WorkerStates == {"idle", "loop", "sleeping", "executing", "completing"}

\* A signal wakes up sleeping workers and touches no other.
LEMMA SignalFacts ==
    ASSUME NEW ws \in [Workers -> WorkerStates], NEW new \in Signal(ws)
    PROVE  /\ new \in [Workers -> WorkerStates]
           /\ \A v \in Workers : new[v] = ws[v] \/ (ws[v] = "sleeping" /\ new[v] = "loop")
BY DEF Signal, WorkerStates

---------------------------------------------------------------------------
\* The inductive invariant: the properties, and what connects the position of
\* the goroutines to the state of the queue.

\* A call holds jobsLock exactly while it sends, a GetWork goroutine between two
\* actions only at the top of its loop.
LockDiscipline ==
    /\ \A c \in Clients : clientState[c] = "sending" <=> jobsLock = c
    /\ \A w \in Workers : jobsLock = w => workerState[w] = "loop"

\* A call in waitExecution has looked up a job.
ClientsHaveJobs == \A c \in Clients : clientState[c] # "idle" => clientJob[c] # NoJob

\* Only completed jobs have a response.
ResponsesMarkCompletion ==
    \A j \in JobIds :
        jobsNameMap[j].stage = "COMPLETED" <=> jobsNameMap[j].executeResponse # NoResponse

\* A GetWork goroutine has a job, EXECUTING and no other goroutine's, from
\* extracting it to marking it completed.
WorkersHaveJobs ==
    /\ \A w \in Workers : workerJob[w] # NoJob <=> workerState[w] \in {"executing", "completing"}
    /\ \A w \in Workers : workerState[w] = "completing" => workerResult[w] \in Outcomes
    /\ \A w \in Workers : workerJob[w] # NoJob => jobsNameMap[workerJob[w]].stage = "EXECUTING"
    /\ \A v, w \in Workers : v # w /\ workerJob[v] = workerJob[w] => workerJob[v] = NoJob

QueueInvariant ==
    /\ TypeOK
    /\ LockDiscipline
    /\ ClientsHaveJobs
    /\ ResponsesMarkCompletion
    /\ WorkersHaveJobs
    /\ JobsConserved
    /\ DeduplicationExact
    /\ NoLostBroadcast

---------------------------------------------------------------------------
\* Preservation of the invariant, action by action.

\* Steps that change nothing but the calls: the queue and the workers are as
\* they were, and so are the parts of the invariant about them.
LEMMA QueueUntouched ==
    ASSUME QueueInvariant, UNCHANGED <<jobsNameMap, jobsDeduplicationMap, jobsPending, workerJob>>
    PROVE  ResponsesMarkCompletion' /\ JobsConserved' /\ DeduplicationExact'
<1> USE DEF QueueInvariant
<1>1. JobIds' = JobIds
    BY DEF JobIds
<1>2. ResponsesMarkCompletion'
    BY <1>1 DEF ResponsesMarkCompletion
<1>3. JobsConserved'
    BY <1>1 DEF JobsConserved
<1>4. DeduplicationExact'
    BY <1>1 DEF DeduplicationExact
<1> QED
    BY <1>2, <1>3, <1>4

\* A call that is refused.
LEMMA RefuseStep ==
    ASSUME QueueInvariant, NEW c \in Clients, clientState[c] = "idle",
           NEW status \in Statuses, Refuse(c, status)
    PROVE  QueueInvariant'
<1> USE DEF QueueInvariant, queueVars, workerVars, Refuse
<1>1. TypeOK'
    BY DEF TypeOK, JobIds, NoJob
<1>2. LockDiscipline'
    BY DEF LockDiscipline
<1>3. ClientsHaveJobs'
    BY DEF ClientsHaveJobs, TypeOK
<1>4. WorkersHaveJobs'
    BY DEF WorkersHaveJobs
<1>5. NoLostBroadcast'
    BY DEF NoLostBroadcast, TypeOK, JobIds
<1> QED
    BY <1>1, <1>2, <1>3, <1>4, <1>5, QueueUntouched

\* A call that joins or looks up a job.
LEMMA JoinStep ==
    ASSUME QueueInvariant, NEW c \in Clients, CallStarts(c),
           NEW j \in JobIds, EnterWait(c, j), UNCHANGED <<queueVars, workerVars>>
    PROVE  QueueInvariant'
<1> USE DEF QueueInvariant, queueVars, workerVars, EnterWait, CallStarts
<1>1. TypeOK'
    BY DEF TypeOK, JobIds, Statuses
<1>2. LockDiscipline'
    BY QueueAssumption DEF LockDiscipline, TypeOK
<1>3. ClientsHaveJobs'
    BY DEF ClientsHaveJobs, TypeOK, JobIds, NoJob
<1>4. WorkersHaveJobs'
    BY DEF WorkersHaveJobs
<1>5. NoLostBroadcast'
    BY DEF NoLostBroadcast, TypeOK, JobIds
<1> QED
    BY <1>1, <1>2, <1>3, <1>4, <1>5, QueueUntouched

\* A call that sends an operation, then returns or goes to sleep: it sleeps only
\* if it has seen, under the lock, that there is no response.
LEMMA SendOperationStep ==
    ASSUME QueueInvariant, NEW c \in Clients, SendOperation(c)
    PROVE  QueueInvariant'
<1> DEFINE job == jobsNameMap[clientJob[c]]
<1> USE DEF QueueInvariant, queueVars, workerVars, SendOperation
<1>1. clientJob[c] \in JobIds /\ job \in Job
    BY DEF ClientsHaveJobs, TypeOK, JobIds, NoJob
<1>2. [stage |-> job.stage, response |-> job.executeResponse] \in Operation
    BY <1>1 DEF Operation, Job
<1>3. received' \in [Clients -> Seq(Operation)]
    BY <1>2 DEF TypeOK
<1>4. TypeOK'
    BY <1>3 DEF TypeOK, JobIds, Statuses
<1>5. LockDiscipline'
    BY QueueAssumption DEF LockDiscipline, TypeOK
<1>6. ClientsHaveJobs'
    BY DEF ClientsHaveJobs, TypeOK
<1>7. WorkersHaveJobs'
    BY DEF WorkersHaveJobs
<1>8. NoLostBroadcast'
    BY <1>1 DEF NoLostBroadcast, ResponsesMarkCompletion, TypeOK, JobIds
<1> QED
    BY <1>4, <1>5, <1>6, <1>7, <1>8, QueueUntouched

\* A call whose client is gone.
LEMMA SendFailsStep ==
    ASSUME QueueInvariant, NEW c \in Clients, SendFails(c)
    PROVE  QueueInvariant'
<1> USE DEF QueueInvariant, queueVars, workerVars, SendFails
<1>1. TypeOK'
    BY DEF TypeOK, JobIds, Statuses
<1>2. LockDiscipline'
    BY QueueAssumption DEF LockDiscipline, TypeOK
<1>3. ClientsHaveJobs'
    BY DEF ClientsHaveJobs, TypeOK
<1>4. WorkersHaveJobs'
    BY DEF WorkersHaveJobs
<1>5. NoLostBroadcast'
    BY DEF NoLostBroadcast, TypeOK, JobIds
<1> QED
    BY <1>1, <1>2, <1>3, <1>4, <1>5, QueueUntouched

\* A call that has been woken up and takes the lock.
LEMMA WaitReturnsStep ==
    ASSUME QueueInvariant, NEW c \in Clients, WaitReturns(c)
    PROVE  QueueInvariant'
<1> USE DEF QueueInvariant, queueVars, workerVars, WaitReturns
<1>1. TypeOK'
    BY DEF TypeOK, JobIds
<1>2. LockDiscipline'
    BY QueueAssumption DEF LockDiscipline, TypeOK
<1>3. ClientsHaveJobs'
    BY DEF ClientsHaveJobs, TypeOK
<1>4. WorkersHaveJobs'
    BY DEF WorkersHaveJobs
<1>5. NoLostBroadcast'
    BY DEF NoLostBroadcast, TypeOK, JobIds
<1> QED
    BY <1>1, <1>2, <1>3, <1>4, <1>5, QueueUntouched

\* Steps of a GetWork goroutine that neither take nor finish a job.
IdleWorkerStep(w) ==
    GetWork(w) \/ WaitForJobs(w) \/ LeaveGetWork(w) \/ CancelStream(w) \/ HalfCloseStream(w)

\* Such a step leaves the queue, the calls and the jobs that workers have alone.
LEMMA IdleWorkerSteps ==
    ASSUME QueueInvariant, NEW w \in Workers, IdleWorkerStep(w)
    PROVE  QueueInvariant'
<1> USE DEF QueueInvariant, queueVars, clientVars
<1>1. UNCHANGED <<queueVars, clientVars, workerJob, workerResult>>
    BY DEF IdleWorkerStep, GetWork, WaitForJobs, LeaveGetWork, CancelStream, HalfCloseStream
<1>2. /\ workerState' \in [Workers -> WorkerStates]
      /\ \A v \in Workers :
            \/ workerState'[v] = workerState[v]
            \/ /\ workerState[v] \in {"idle", "loop", "sleeping"}
               /\ workerState'[v] \in {"idle", "loop", "sleeping"}
    <2>1. CASE LeaveGetWork(w)
        <3> DEFINE ws == [workerState EXCEPT ![w] = "idle"]
        <3>1. ws \in [Workers -> WorkerStates] /\ workerState[w] = "loop"
              /\ \A v \in Workers : ws[v] = IF v = w THEN "idle" ELSE workerState[v]
            BY <2>1 DEF LeaveGetWork, InLoop, TypeOK, WorkerStates
        <3>2. workerState' \in Signal(ws)
            BY <2>1 DEF LeaveGetWork
        <3> HIDE DEF ws
        <3> QED
            BY <3>1, <3>2, SignalFacts
    <2>2. CASE ~LeaveGetWork(w)
        BY <2>2 DEF IdleWorkerStep, GetWork, WaitForJobs, CancelStream, HalfCloseStream, InLoop,
                    TypeOK, WorkerStates
    <2> QED
        BY <2>1, <2>2
<1>3. /\ jobsLock' \in {jobsLock, NoOne}
      /\ jobsLock' = jobsLock => \A v \in Workers : jobsLock = v => workerState'[v] = "loop"
      /\ jobsLock \in Clients => jobsLock' = jobsLock
    <2>1. CASE GetWork(w)
        BY <2>1 DEF GetWork, LockDiscipline, TypeOK
    <2>2. CASE WaitForJobs(w)
        BY <2>2, QueueAssumption DEF WaitForJobs, InLoop
    <2>3. CASE LeaveGetWork(w)
        BY <2>3, QueueAssumption DEF LeaveGetWork, InLoop
    <2>4. CASE CancelStream(w) \/ HalfCloseStream(w)
        BY <2>4 DEF CancelStream, HalfCloseStream, LockDiscipline
    <2> QED
        BY <2>1, <2>2, <2>3, <2>4 DEF IdleWorkerStep
<1>4. stream' \in [Workers -> {"open", "halfclosed", "cancelled"}] /\ faults' \in 0 .. MaxStreamFaults
    <2>1. CASE GetWork(w)
        BY <2>1 DEF GetWork, TypeOK
    <2>2. CASE WaitForJobs(w) \/ LeaveGetWork(w)
        BY <2>2 DEF WaitForJobs, LeaveGetWork, TypeOK
    <2>3. CASE CancelStream(w) \/ HalfCloseStream(w)
        <3>1. stream' \in [Workers -> {"open", "halfclosed", "cancelled"}]
            BY <2>3 DEF CancelStream, HalfCloseStream, TypeOK
        <3>2. faults \in 0 .. MaxStreamFaults /\ faults < MaxStreamFaults /\ faults' = faults + 1
            BY <2>3 DEF CancelStream, HalfCloseStream, TypeOK
        <3> QED
            BY <3>1, <3>2, QueueAssumption
    <2> QED
        BY <2>1, <2>2, <2>3 DEF IdleWorkerStep
<1>5. TypeOK'
    BY <1>1, <1>2, <1>3, <1>4 DEF TypeOK, JobIds, WorkerStates
<1>6. LockDiscipline'
    BY <1>1, <1>3, QueueAssumption DEF LockDiscipline
<1>7. ClientsHaveJobs'
    BY <1>1 DEF ClientsHaveJobs
<1>8. WorkersHaveJobs'
    BY <1>1, <1>2 DEF WorkersHaveJobs
<1>9. NoLostBroadcast'
    BY <1>1 DEF NoLostBroadcast, JobIds
<1> QED
    BY <1>1, <1>5, <1>6, <1>7, <1>8, <1>9, QueueUntouched

\* The worker answers, or its stream breaks.
LEMMA ExecuteOnWorkerStep ==
    ASSUME QueueInvariant, NEW w \in Workers, NEW r \in Outcomes, ExecuteOnWorker(w, r)
    PROVE  QueueInvariant'
<1> USE DEF QueueInvariant, queueVars, clientVars, ExecuteOnWorker
<1>1. TypeOK'
    BY DEF TypeOK, JobIds
<1>2. LockDiscipline'
    BY DEF LockDiscipline, TypeOK
<1>3. ClientsHaveJobs'
    BY DEF ClientsHaveJobs
<1>4. WorkersHaveJobs'
    BY DEF WorkersHaveJobs, TypeOK
<1>5. NoLostBroadcast'
    BY DEF NoLostBroadcast, JobIds
<1> QED
    BY <1>1, <1>2, <1>3, <1>4, <1>5, QueueUntouched

\* A new job is queued, and nobody has it yet.
LEMMA ExecuteCreateStep ==
    ASSUME QueueInvariant, NEW c \in Clients, NEW k \in Keys, NEW p \in Priorities,
           ExecuteCreate(c, k, p)
    PROVE  QueueInvariant'
<1> DEFINE n == Len(jobsNameMap) + 1
<1> USE DEF QueueInvariant
<1>1. jobsNameMap \in Seq(Job) /\ Len(jobsNameMap) \in Nat
    BY DEF TypeOK
<1>2. /\ jobsNameMap' \in Seq(Job)
      /\ Len(jobsNameMap') = n
      /\ \A i \in JobIds : jobsNameMap'[i] = jobsNameMap[i]
      /\ jobsNameMap'[n].key = k
      /\ jobsNameMap'[n].executeResponse = NoResponse
      /\ jobsNameMap'[n].stage = "QUEUED"
    BY <1>1, WithJobFacts DEF ExecuteCreate
<1>3. JobIds' = JobIds \cup {n} /\ n \notin JobIds /\ n # NoJob
    BY <1>1, <1>2 DEF JobIds, NoJob
<1>4. /\ workerState' \in [Workers -> WorkerStates]
      /\ \A v \in Workers : \/ workerState'[v] = workerState[v]
                            \/ workerState[v] = "sleeping" /\ workerState'[v] = "loop"
    BY SignalFacts DEF ExecuteCreate, TypeOK, WorkerStates
<1> USE DEF ExecuteCreate, EnterWait, CallStarts
<1>5. TypeOK'
    <2>1. /\ Len(jobsNameMap') <= MaxJobs
          /\ 0 .. Len(jobsNameMap) \subseteq 0 .. Len(jobsNameMap')
          /\ n \in 0 .. Len(jobsNameMap')
        BY <1>1, <1>2, QueueAssumption
    <2>2. jobsDeduplicationMap' \in [Keys -> 0 .. Len(jobsNameMap')]
        BY <2>1 DEF TypeOK
    <2>3. jobsPending' \in SUBSET JobIds'
        BY <1>3 DEF TypeOK
    <2>4. jobsLock' \in Clients \cup Workers \cup {NoOne}
        OBVIOUS
    <2>5. clientState' \in [Clients -> {"idle", "sending", "waiting", "woken"}]
          /\ received' \in [Clients -> Seq(Operation)] /\ clientStatus' \in [Clients -> Statuses]
        BY DEF TypeOK, Statuses
    <2>6. clientJob' \in [Clients -> 0 .. Len(jobsNameMap')]
        BY <2>1 DEF TypeOK
    <2>7. workerJob' \in [Workers -> 0 .. Len(jobsNameMap')]
        BY <2>1 DEF TypeOK
    <2> QED
        BY <1>2, <1>4, <2>1, <2>2, <2>3, <2>4, <2>5, <2>6, <2>7 DEF TypeOK, WorkerStates
<1>6. LockDiscipline'
    BY <1>4, QueueAssumption DEF LockDiscipline, TypeOK
<1>7. ClientsHaveJobs'
    BY <1>3 DEF ClientsHaveJobs, TypeOK
<1>8. ResponsesMarkCompletion'
    BY <1>2, <1>3 DEF ResponsesMarkCompletion
<1>9. \A w \in Workers : workerJob[w] # NoJob => workerJob[w] \in JobIds
    BY DEF TypeOK, JobIds, NoJob
<1>10. WorkersHaveJobs'
    BY <1>2, <1>3, <1>4, <1>9 DEF WorkersHaveJobs
<1>11. JobsConserved'
    <2>1. jobsPending' = {j \in JobIds' : jobsNameMap'[j].stage = "QUEUED"}
        BY <1>2, <1>3 DEF JobsConserved
    <2>2. \A w \in Workers : workerJob[w] # n
        BY <1>3, <1>9
    <2>3. \A j \in JobIds' : jobsNameMap'[j].stage = "EXECUTING" <=>
             \E w \in Workers : workerJob'[w] = j /\ \A v \in Workers \ {w} : workerJob'[v] # j
        BY <1>2, <1>3, <2>2 DEF JobsConserved
    <2> QED
        BY <2>1, <2>3 DEF JobsConserved
<1>12. DeduplicationExact'
    <2>1. SUFFICES ASSUME NEW l \in Keys, NEW j \in JobIds'
                   PROVE  jobsDeduplicationMap'[l] = j <=>
                            jobsNameMap'[j].key = l /\ jobsNameMap'[j].stage # "COMPLETED"
        BY DEF DeduplicationExact
    <2>2. jobsDeduplicationMap' = [jobsDeduplicationMap EXCEPT ![k] = n]
        OBVIOUS
    <2>3. jobsDeduplicationMap[k] = NoJob
        BY DEF JobFor
    <2>4. NoJob \notin JobIds
        BY DEF JobIds, NoJob
    <2>5. jobsDeduplicationMap \in [Keys -> JobIds \cup {NoJob}]
        BY <1>1 DEF TypeOK, JobIds, NoJob
    <2>6. CASE j = n
        BY <1>2, <1>3, <2>2, <2>5, <2>6
    <2>7. CASE j \in JobIds /\ l = k
        BY <1>2, <1>3, <2>2, <2>3, <2>4, <2>5, <2>7 DEF DeduplicationExact
    <2>8. CASE j \in JobIds /\ l # k
        BY <1>2, <2>2, <2>5, <2>8 DEF DeduplicationExact
    <2> QED
        BY <1>3, <2>6, <2>7, <2>8
<1>13. NoLostBroadcast'
    <2>1. \A d \in Clients \ {c} : clientState'[d] = clientState[d] /\ clientJob'[d] = clientJob[d]
        BY DEF TypeOK
    <2>2. clientState'[c] = "sending"
        BY DEF TypeOK
    <2> QED
        BY <1>2, <1>3, <2>1, <2>2 DEF NoLostBroadcast
<1> QED
    BY <1>5, <1>6, <1>7, <1>8, <1>10, <1>11, <1>12, <1>13

\* A job leaves the heap for one goroutine.
LEMMA ExtractJobStep ==
    ASSUME QueueInvariant, NEW w \in Workers, ExtractJob(w)
    PROVE  QueueInvariant'
<1> USE DEF QueueInvariant
<1>1. PICK j \in jobsPending :
         /\ jobsPending' = jobsPending \ {j}
         /\ jobsNameMap' = Executing(j)
         /\ workerJob' = [workerJob EXCEPT ![w] = j]
    BY DEF ExtractJob
<1>2. j \in JobIds /\ jobsNameMap[j].stage = "QUEUED" /\ j # NoJob /\ jobsNameMap \in Seq(Job)
    BY DEF JobsConserved, TypeOK, JobIds, NoJob
<1>3. /\ jobsNameMap' \in Seq(Job)
      /\ Len(jobsNameMap') = Len(jobsNameMap)
      /\ \A i \in JobIds : i # j => jobsNameMap'[i] = jobsNameMap[i]
      /\ jobsNameMap'[j].key = jobsNameMap[j].key
      /\ jobsNameMap'[j].executeResponse = jobsNameMap[j].executeResponse
      /\ jobsNameMap'[j].stage = "EXECUTING"
    BY <1>1, <1>2, ExecutingFacts
<1>4. JobIds' = JobIds
    BY <1>3 DEF JobIds
<1>5. workerJob[w] = NoJob
    BY DEF ExtractJob, InLoop, WorkersHaveJobs
<1>6. \A v \in Workers : workerJob[v] # j
    BY <1>2 DEF WorkersHaveJobs
<1>7. workerJob \in [Workers -> 0 .. Len(jobsNameMap)] /\ workerState \in [Workers -> WorkerStates]
    BY DEF TypeOK, WorkerStates
<1> USE DEF ExtractJob, InLoop, clientVars
<1>8. TypeOK'
    BY <1>1, <1>2, <1>3, <1>4 DEF TypeOK, JobIds
<1>9. LockDiscipline'
    BY QueueAssumption DEF LockDiscipline, TypeOK
<1>10. ClientsHaveJobs'
    BY DEF ClientsHaveJobs
<1>11. ResponsesMarkCompletion'
    BY <1>2, <1>3, <1>4 DEF ResponsesMarkCompletion
<1>12. WorkersHaveJobs'
    <2>1. workerJob'[w] = j /\ workerState'[w] = "executing"
          /\ \A v \in Workers \ {w} : workerJob'[v] = workerJob[v] /\ workerState'[v] = workerState[v]
        BY <1>1, <1>7
    <2>2. \A v \in Workers : workerJob[v] # NoJob => workerJob[v] \in JobIds
        BY <1>7 DEF JobIds, NoJob
    <2>3. \A v \in Workers : workerJob'[v] # NoJob => jobsNameMap'[workerJob'[v]].stage = "EXECUTING"
        BY <1>3, <1>6, <2>1, <2>2 DEF WorkersHaveJobs
    <2> QED
        BY <1>2, <1>6, <2>1, <2>3 DEF WorkersHaveJobs
<1>13. JobsConserved'
    <2>1. jobsPending' = {i \in JobIds' : jobsNameMap'[i].stage = "QUEUED"}
        BY <1>1, <1>2, <1>3, <1>4 DEF JobsConserved
    <2>2. \A i \in JobIds' : jobsNameMap'[i].stage = "EXECUTING" <=>
             \E u \in Workers : workerJob'[u] = i /\ \A v \in Workers \ {u} : workerJob'[v] # i
        <3>1. SUFFICES ASSUME NEW i \in JobIds
                       PROVE  jobsNameMap'[i].stage = "EXECUTING" <=>
                                \E u \in Workers : workerJob'[u] = i /\ \A v \in Workers \ {u} : workerJob'[v] # i
            BY <1>4
        <3>2. CASE i = j
            BY <1>1, <1>3, <1>6, <1>7, <3>2
        <3>3. CASE i # j
            <4>1. \A u \in Workers : workerJob'[u] = i <=> workerJob[u] = i
                BY <1>1, <1>5, <1>7, <3>3 DEF JobIds, NoJob
            <4> QED
                BY <1>3, <3>3, <4>1 DEF JobsConserved
        <3> QED
            BY <3>2, <3>3
    <2> QED
        BY <2>1, <2>2 DEF JobsConserved
<1>14. DeduplicationExact'
    BY <1>2, <1>3, <1>4 DEF DeduplicationExact
<1>15. NoLostBroadcast'
    BY <1>2, <1>3, <1>4 DEF NoLostBroadcast
<1> QED
    BY <1>8, <1>9, <1>10, <1>11, <1>12, <1>13, <1>14, <1>15

\* A job is completed, its key is free again and its waiting calls are woken up.
LEMMA MarkCompletionStep ==
    ASSUME QueueInvariant, NEW w \in Workers, MarkCompletion(w)
    PROVE  QueueInvariant'
<1> DEFINE j == workerJob[w]
<1> USE DEF QueueInvariant
<1>1. workerState[w] = "completing" /\ workerResult[w] \in Outcomes /\ j # NoJob
      /\ jobsNameMap[j].stage = "EXECUTING"
    BY DEF MarkCompletion, WorkersHaveJobs
<1>2. j \in JobIds /\ jobsNameMap \in Seq(Job) /\ NoJob \notin JobIds
    BY <1>1 DEF TypeOK, JobIds, NoJob
<1>3. /\ jobsNameMap' \in Seq(Job)
      /\ Len(jobsNameMap') = Len(jobsNameMap)
      /\ \A i \in JobIds : i # j => jobsNameMap'[i] = jobsNameMap[i]
      /\ jobsNameMap'[j].key = jobsNameMap[j].key
      /\ jobsNameMap'[j].executeResponse = workerResult[w]
      /\ jobsNameMap'[j].stage = "COMPLETED"
    BY <1>1, <1>2, CompletedFacts DEF MarkCompletion
<1>4. JobIds' = JobIds
    BY <1>3 DEF JobIds
<1>5. jobsNameMap[j] \in Job /\ jobsNameMap[j].key \in Keys
    <2>1. jobsNameMap[j] \in Job
        BY <1>2 DEF JobIds
    <2> QED
        BY <2>1 DEF Job
<1>6. \A d \in Clients : clientState'[d] =
         IF clientState[d] = "waiting" /\ clientJob[d] = j THEN "woken" ELSE clientState[d]
    BY DEF MarkCompletion, Broadcast
<1>7. workerJob'[w] = NoJob /\ workerState'[w] = "loop"
      /\ \A v \in Workers \ {w} : workerJob'[v] = workerJob[v] /\ workerState'[v] = workerState[v]
                                  /\ workerResult'[v] = workerResult[v]
    BY DEF MarkCompletion, TypeOK
<1>8. TypeOK'
    <2>1. jobsDeduplicationMap' \in [Keys -> 0 .. Len(jobsNameMap')]
        BY <1>2, <1>3, <1>5 DEF MarkCompletion, WithoutKeyOf, TypeOK, JobIds, NoJob
    <2>2. clientState' \in [Clients -> {"idle", "sending", "waiting", "woken"}]
        BY DEF MarkCompletion, Broadcast, TypeOK
    <2>3. workerState' \in [Workers -> WorkerStates] /\ workerResult' \in [Workers -> Outcomes \cup {NoResponse}]
        BY DEF MarkCompletion, TypeOK, WorkerStates
    <2>4. workerJob' \in [Workers -> 0 .. Len(jobsNameMap')] /\ clientJob' \in [Clients -> 0 .. Len(jobsNameMap')]
        BY <1>2, <1>3 DEF MarkCompletion, TypeOK, NoJob
    <2>5. jobsPending' \in SUBSET JobIds' /\ Len(jobsNameMap') <= MaxJobs
        BY <1>3, <1>4 DEF MarkCompletion, TypeOK
    <2> QED
        BY <1>3, <2>1, <2>2, <2>3, <2>4, <2>5 DEF MarkCompletion, TypeOK, WorkerStates
<1>9. LockDiscipline'
    <2>1. jobsLock = NoOne /\ jobsLock' = w
        BY DEF MarkCompletion
    <2>2. \A d \in Clients : clientState[d] # "sending" /\ jobsLock' # d
        BY <2>1, QueueAssumption DEF LockDiscipline
    <2> QED
        BY <1>6, <1>7, <2>1, <2>2 DEF LockDiscipline
<1>10. ClientsHaveJobs'
    BY <1>6 DEF MarkCompletion, ClientsHaveJobs
<1>11. ResponsesMarkCompletion'
    BY <1>1, <1>3, <1>4, QueueAssumption DEF ResponsesMarkCompletion, Outcomes
<1>12. WorkersHaveJobs'
    <2>1. \A v \in Workers \ {w} : workerJob[v] # j
        BY <1>1 DEF WorkersHaveJobs
    <2>2. \A v \in Workers : workerJob[v] # NoJob => workerJob[v] \in JobIds
        BY DEF TypeOK, JobIds, NoJob
    <2>3. \A v \in Workers : workerJob'[v] # NoJob => jobsNameMap'[workerJob'[v]].stage = "EXECUTING"
        BY <1>3, <1>7, <2>1, <2>2 DEF WorkersHaveJobs
    <2> QED
        BY <1>7, <2>3 DEF WorkersHaveJobs
<1>13. JobsConserved'
    <2>1. jobsPending' = {i \in JobIds' : jobsNameMap'[i].stage = "QUEUED"}
        BY <1>1, <1>2, <1>3, <1>4 DEF MarkCompletion, JobsConserved
    <2>2. SUFFICES ASSUME NEW i \in JobIds
                   PROVE  jobsNameMap'[i].stage = "EXECUTING" <=>
                            \E u \in Workers : workerJob'[u] = i /\ \A v \in Workers \ {u} : workerJob'[v] # i
        BY <1>4, <2>1 DEF JobsConserved
    <2>3. CASE i = j
        <3>1. \A v \in Workers \ {w} : workerJob[v] # j
            BY <1>1 DEF WorkersHaveJobs
        <3> QED
            BY <1>1, <1>3, <1>7, <2>3, <3>1
    <2>4. CASE i # j
        <3>1. \A u \in Workers : workerJob'[u] = i <=> workerJob[u] = i
            BY <1>2, <1>7, <2>4
        <3> QED
            BY <1>3, <2>4, <3>1 DEF JobsConserved
    <2> QED
        BY <2>3, <2>4
<1>14. DeduplicationExact'
    <2> DEFINE k == jobsNameMap[j].key
    <2>1. jobsDeduplicationMap' = [jobsDeduplicationMap EXCEPT ![k] = NoJob]
          /\ jobsDeduplicationMap \in [Keys -> 0 .. Len(jobsNameMap)] /\ k \in Keys
        BY <1>5 DEF MarkCompletion, WithoutKeyOf, TypeOK
    <2>2. jobsDeduplicationMap[k] = j
        BY <1>1, <1>2, <1>5 DEF DeduplicationExact
    <2>3. SUFFICES ASSUME NEW l \in Keys, NEW i \in JobIds
                   PROVE  jobsDeduplicationMap'[l] = i <=>
                            jobsNameMap'[i].key = l /\ jobsNameMap'[i].stage # "COMPLETED"
        BY <1>4 DEF DeduplicationExact
    <2> HIDE DEF k
    <2>4. CASE i = j
        BY <1>2, <1>3, <2>1, <2>2, <2>4 DEF DeduplicationExact, k
    <2>5. CASE i # j /\ l = k
        BY <1>2, <1>3, <2>1, <2>2, <2>5 DEF DeduplicationExact
    <2>6. CASE i # j /\ l # k
        BY <1>3, <2>1, <2>6 DEF DeduplicationExact
    <2> QED
        BY <2>4, <2>5, <2>6
<1>15. NoLostBroadcast'
    BY <1>3, <1>4, <1>6 DEF MarkCompletion, NoLostBroadcast
<1> QED
    BY <1>8, <1>9, <1>10, <1>11, <1>12, <1>13, <1>14, <1>15

---------------------------------------------------------------------------
\* A scheduler that has just been started satisfies the invariant.
LEMMA QueueInvariantInit ==
    Init => QueueInvariant
<1> SUFFICES ASSUME Init PROVE QueueInvariant
    OBVIOUS
<1> USE DEF Init
<1>1. JobIds = {} /\ Len(jobsNameMap) = 0 /\ jobsNameMap \in Seq(Job)
    BY DEF JobIds
<1>2. TypeOK
    BY <1>1, QueueAssumption DEF TypeOK, Statuses, NoJob
<1>3. LockDiscipline
    BY QueueAssumption DEF LockDiscipline
<1>4. ClientsHaveJobs /\ NoLostBroadcast
    BY DEF ClientsHaveJobs, NoLostBroadcast
<1>5. ResponsesMarkCompletion /\ JobsConserved /\ DeduplicationExact
    BY <1>1 DEF ResponsesMarkCompletion, JobsConserved, DeduplicationExact
<1>6. WorkersHaveJobs
    BY DEF WorkersHaveJobs
<1> QED
    BY <1>2, <1>3, <1>4, <1>5, <1>6 DEF QueueInvariant

\* Every step preserves the invariant.
LEMMA QueueInvariantNext ==
    QueueInvariant /\ [Next]_vars => QueueInvariant'
<1> SUFFICES ASSUME QueueInvariant, [Next]_vars PROVE QueueInvariant'
    OBVIOUS
<1>1. CASE UNCHANGED vars
    BY <1>1 DEF vars, queueVars, clientVars, workerVars, QueueInvariant, TypeOK, LockDiscipline,
       ClientsHaveJobs, ResponsesMarkCompletion, WorkersHaveJobs, JobsConserved, DeduplicationExact,
       NoLostBroadcast, JobIds
<1>2. CASE \E c \in Clients : ClientNext(c)
    <2>1. PICK c \in Clients : ClientNext(c)
        BY <1>2
    <2>2. CASE ExecuteInvalid(c)
        BY <2>2, RefuseStep DEF ExecuteInvalid, Statuses
    <2>3. CASE \E k \in Keys : ExecuteRefused(c, k)
        BY <2>3, RefuseStep DEF ExecuteRefused, CallStarts, Statuses
    <2>4. ASSUME NEW k \in Keys, ExecuteJoin(c, k)
          PROVE  QueueInvariant'
        <3>1. JobFor(k) \in JobIds
            BY <2>4 DEF ExecuteJoin, JobFor, QueueInvariant, TypeOK, JobIds, NoJob
        <3> QED
            BY <2>4, <3>1, JoinStep DEF ExecuteJoin
    <2>5. CASE \E k \in Keys, p \in Priorities : ExecuteCreate(c, k, p)
        BY <2>5, ExecuteCreateStep
    <2>6. ASSUME NEW j \in 1 .. MaxJobs, WaitExecution(c, j)
          PROVE  QueueInvariant'
        <3>1. CASE j \in JobIds
            BY <2>6, <3>1, JoinStep DEF WaitExecution
        <3>2. CASE j \notin JobIds
            BY <2>6, <3>2, RefuseStep DEF WaitExecution, CallStarts, Statuses
        <3> QED
            BY <3>1, <3>2
    <2>7. CASE SendOperation(c) \/ SendFails(c) \/ WaitReturns(c)
        BY <2>7, SendOperationStep, SendFailsStep, WaitReturnsStep
    <2> QED
        BY <2>1, <2>2, <2>3, <2>4, <2>5, <2>6, <2>7 DEF ClientNext
<1>3. CASE \E w \in Workers : WorkerNext(w)
    <2>1. PICK w \in Workers : WorkerNext(w)
        BY <1>3
    <2>2. CASE IdleWorkerStep(w)
        BY <2>2, IdleWorkerSteps
    <2>3. CASE ExtractJob(w)
        BY <2>3, ExtractJobStep
    <2>4. CASE \E r \in Outcomes : ExecuteOnWorker(w, r)
        BY <2>4, ExecuteOnWorkerStep
    <2>5. CASE MarkCompletion(w)
        BY <2>5, MarkCompletionStep
    <2> QED
        BY <2>1, <2>2, <2>3, <2>4, <2>5 DEF WorkerNext, IdleWorkerStep
<1> QED
    BY <1>1, <1>2, <1>3 DEF Next

\* The invariant holds in every reachable state of the scheduler.
THEOREM QueueInvariantHolds ==
    Spec => []QueueInvariant
<1> QED
    BY QueueInvariantInit, QueueInvariantNext, PTL DEF Spec

\* Type correctness.
THEOREM TypeCorrect ==
    Spec => []TypeOK
<1>1. QueueInvariant => TypeOK
    BY DEF QueueInvariant
<1> QED
    BY <1>1, QueueInvariantHolds, PTL

\* The deduplication map holds exactly the jobs that are not over.
THEOREM DeduplicationIsExact ==
    Spec => []DeduplicationExact
<1>1. QueueInvariant => DeduplicationExact
    BY DEF QueueInvariant
<1> QED
    BY <1>1, QueueInvariantHolds, PTL

\* No job is lost and none is handed to two workers, however many streams break.
THEOREM JobsAreConserved ==
    Spec => []JobsConserved
<1>1. QueueInvariant => JobsConserved
    BY DEF QueueInvariant
<1> QED
    BY <1>1, QueueInvariantHolds, PTL

\* A call never sleeps on a job whose completion has been broadcast already.
THEOREM NoBroadcastIsLost ==
    Spec => []NoLostBroadcast
<1>1. QueueInvariant => NoLostBroadcast
    BY DEF QueueInvariant
<1> QED
    BY <1>1, QueueInvariantHolds, PTL

\* Two workers never execute the same action at the same time: both jobs would
\* be the one that the deduplication map has for their key.
THEOREM ExecutionsAreDistinct ==
    Spec => []ExecutionsDistinct
<1>1. QueueInvariant => ExecutionsDistinct
    <2>1. SUFFICES ASSUME QueueInvariant, NEW v \in Workers, NEW w \in Workers, v # w,
                          workerState[v] \in {"executing", "completing"},
                          workerState[w] \in {"executing", "completing"},
                          jobsNameMap[workerJob[v]].key = jobsNameMap[workerJob[w]].key
                   PROVE  FALSE
        BY DEF ExecutionsDistinct
    <2> DEFINE k == jobsNameMap[workerJob[v]].key
    <2>2. workerJob[v] # NoJob /\ workerJob[w] # NoJob /\ workerJob[v] # workerJob[w]
          /\ jobsNameMap[workerJob[v]].stage = "EXECUTING" /\ jobsNameMap[workerJob[w]].stage = "EXECUTING"
        BY <2>1 DEF QueueInvariant, WorkersHaveJobs
    <2>3. workerJob[v] \in JobIds /\ workerJob[w] \in JobIds
        BY <2>1, <2>2 DEF QueueInvariant, TypeOK, JobIds, NoJob
    <2>4. jobsNameMap[workerJob[v]] \in Job
        BY <2>1, <2>3 DEF QueueInvariant, TypeOK, JobIds
    <2>5. k \in Keys
        BY <2>4 DEF Job
    <2>6. jobsDeduplicationMap[k] = workerJob[v] /\ jobsDeduplicationMap[k] = workerJob[w]
        BY <2>1, <2>2, <2>3, <2>5 DEF QueueInvariant, DeduplicationExact
    <2> QED
        BY <2>2, <2>6
<1> QED
    BY <1>1, QueueInvariantHolds, PTL

---------------------------------------------------------------------------
\* No lost wakeup of a worker.

Sleeping(ws) == {v \in Workers : ws[v] = "sleeping"}
Coming(ws) == {v \in Workers : ws[v] = "loop"}

\* NoLostWakeup in terms of a given heap and given worker states.
Covered(pending, ws) == Sleeping(ws) # {} => Cardinality(pending) <= Cardinality(Coming(ws))

\* The heap and the sets of goroutines are finite.
LEMMA Finiteness ==
    ASSUME TypeOK, NEW ws
    PROVE  /\ IsFiniteSet(jobsPending) /\ Cardinality(jobsPending) \in Nat
           /\ IsFiniteSet(Coming(ws)) /\ Cardinality(Coming(ws)) \in Nat
<1>1. IsFiniteSet(JobIds)
    BY FS_Interval DEF TypeOK, JobIds
<1>2. IsFiniteSet(jobsPending)
    BY <1>1, FS_Subset DEF TypeOK
<1>3. IsFiniteSet(Coming(ws))
    BY QueueAssumption, FS_Subset DEF Coming
<1> QED
    BY <1>2, <1>3, FS_CardinalityType

\* If anybody sleeps, a signal brings one more goroutine on its way.
LEMMA SignalCounts ==
    ASSUME NEW ws \in [Workers -> WorkerStates], NEW new \in Signal(ws)
    PROVE  \/ Sleeping(ws) = {} /\ new = ws
           \/ /\ Sleeping(ws) # {}
              /\ IsFiniteSet(Coming(ws))
              /\ Cardinality(Coming(new)) = Cardinality(Coming(ws)) + 1
<1>1. CASE Sleeping(ws) = {}
    BY <1>1 DEF Signal, Sleeping
<1>2. CASE Sleeping(ws) # {}
    <2>1. PICK v \in Sleeping(ws) : new = [ws EXCEPT ![v] = "loop"]
        BY <1>2 DEF Signal, Sleeping
    <2>2. Coming(new) = Coming(ws) \cup {v} /\ v \notin Coming(ws)
        BY <2>1 DEF Coming, Sleeping
    <2>3. IsFiniteSet(Coming(ws))
        BY QueueAssumption, FS_Subset DEF Coming
    <2> QED
        BY <1>2, <2>2, <2>3, FS_AddElement
<1> QED
    BY <1>1, <1>2

\* Every step keeps the pending jobs covered.
LEMMA CoveredStep ==
    ASSUME QueueInvariant, [Next]_vars, Covered(jobsPending, workerState)
    PROVE  Covered(jobsPending, workerState)'
<1> DEFINE pending == jobsPending
           ws == workerState
<1>1. ws \in [Workers -> WorkerStates]
    BY DEF QueueInvariant, TypeOK, WorkerStates
<1>2. /\ IsFiniteSet(pending) /\ Cardinality(pending) \in Nat
      /\ IsFiniteSet(Coming(ws)) /\ Cardinality(Coming(ws)) \in Nat
    BY Finiteness DEF QueueInvariant
<1>3. CASE UNCHANGED <<jobsPending, workerState>>
    BY <1>3 DEF Covered, Sleeping, Coming
<1>4. ASSUME NEW c \in Clients, NEW k \in Keys, NEW p \in Priorities, ExecuteCreate(c, k, p)
      PROVE  Covered(jobsPending, workerState)'
    <2>1. jobsPending' = pending \cup {Len(jobsNameMap) + 1} /\ workerState' \in Signal(ws)
        BY <1>4 DEF ExecuteCreate
    <2>2. Cardinality(jobsPending') = Cardinality(pending) + 1
        <3>1. Len(jobsNameMap) + 1 \notin pending
            BY DEF QueueInvariant, TypeOK, JobIds
        <3> QED
            BY <1>2, <2>1, <3>1, FS_AddElement
    <2>3. CASE Sleeping(ws) = {} /\ workerState' = ws
        BY <2>3 DEF Covered, Sleeping
    <2>4. CASE Sleeping(ws) # {} /\ Cardinality(Coming(workerState')) = Cardinality(Coming(ws)) + 1
        <3>1. Cardinality(pending) <= Cardinality(Coming(ws))
            BY <2>4 DEF Covered
        <3>2. Cardinality(jobsPending') <= Cardinality(Coming(workerState'))
            BY <1>2, <2>2, <2>4, <3>1
        <3> QED
            BY <3>2 DEF Covered, Coming
    <2> QED
        BY <1>1, <2>1, <2>3, <2>4, SignalCounts
<1>5. ASSUME NEW w \in Workers, GetWork(w) \/ MarkCompletion(w)
      PROVE  Covered(jobsPending, workerState)'
    <2>1. jobsPending' = pending /\ ws[w] \notin {"loop", "sleeping"}
          /\ workerState' = [ws EXCEPT ![w] = "loop"]
        BY <1>5 DEF GetWork, MarkCompletion, queueVars
    <2>2. Coming(workerState') = Coming(ws) \cup {w} /\ w \notin Coming(ws)
          /\ Sleeping(workerState') = Sleeping(ws)
        BY <1>1, <2>1 DEF Coming, Sleeping
    <2>3. Cardinality(Coming(workerState')) = Cardinality(Coming(ws)) + 1
        BY <1>2, <2>2, FS_AddElement
    <2>4. Sleeping(workerState') # {} => Cardinality(jobsPending') <= Cardinality(Coming(workerState'))
        <3>1. jobsPending' = pending
            BY <2>1
        <3>2. Sleeping(ws) # {} => Cardinality(pending) <= Cardinality(Coming(ws))
            BY DEF Covered
        <3> HIDE DEF pending, ws
        <3> QED
            BY <1>2, <2>2, <2>3, <3>1, <3>2
    <2> QED
        BY <2>4 DEF Covered, Coming, Sleeping
<1>6. ASSUME NEW w \in Workers, WaitForJobs(w)
      PROVE  Covered(jobsPending, workerState)'
    <2>1. Cardinality(jobsPending') = 0
        BY <1>6, FS_EmptySet DEF WaitForJobs, queueVars
    <2>2. Cardinality(Coming(workerState')) \in Nat
        BY Finiteness DEF QueueInvariant
    <2> QED
        BY <2>1, <2>2 DEF Covered, Coming
<1>7. ASSUME NEW w \in Workers, LeaveGetWork(w)
      PROVE  Covered(jobsPending, workerState)'
    <2> DEFINE left == [ws EXCEPT ![w] = "idle"]
    <2>1. ws[w] = "loop" /\ workerState' \in Signal(left) /\ jobsPending' = pending
        BY <1>7 DEF LeaveGetWork, InLoop, queueVars
    <2>2. left \in [Workers -> WorkerStates]
          /\ Coming(left) = Coming(ws) \ {w} /\ w \in Coming(ws) /\ Sleeping(left) = Sleeping(ws)
        BY <1>1, <2>1 DEF Coming, Sleeping, WorkerStates
    <2>3. Cardinality(Coming(left)) = Cardinality(Coming(ws)) - 1
        BY <1>2, <2>2, FS_RemoveElement
    <2> HIDE DEF left
    <2>4. CASE Sleeping(left) = {} /\ workerState' = left
        BY <2>4 DEF Covered, Sleeping
    <2>5. CASE Sleeping(left) # {} /\ Cardinality(Coming(workerState')) = Cardinality(Coming(left)) + 1
        <3>1. Cardinality(jobsPending') <= Cardinality(Coming(workerState'))
            BY <1>2, <2>1, <2>2, <2>3, <2>5 DEF Covered
        <3> QED
            BY <3>1 DEF Covered, Coming
    <2> QED
        BY <2>1, <2>2, <2>4, <2>5, SignalCounts
<1>8. ASSUME NEW w \in Workers, ExtractJob(w)
      PROVE  Covered(jobsPending, workerState)'
    <2>1. PICK j \in pending : jobsPending' = pending \ {j}
        BY <1>8 DEF ExtractJob
    <2>2. ws[w] = "loop" /\ workerState' = [ws EXCEPT ![w] = "executing"]
        BY <1>8 DEF ExtractJob, InLoop
    <2>3. Coming(workerState') = Coming(ws) \ {w} /\ w \in Coming(ws) /\ Sleeping(workerState') = Sleeping(ws)
        BY <1>1, <2>2 DEF Coming, Sleeping
    <2>4. Cardinality(jobsPending') = Cardinality(pending) - 1
          /\ Cardinality(Coming(workerState')) = Cardinality(Coming(ws)) - 1
        BY <1>2, <2>1, <2>3, FS_RemoveElement
    <2>5. Sleeping(workerState') # {} => Cardinality(jobsPending') <= Cardinality(Coming(workerState'))
        BY <1>2, <2>3, <2>4 DEF Covered
    <2> QED
        BY <2>5 DEF Covered, Coming, Sleeping
<1>9. ASSUME NEW w \in Workers, NEW r \in Outcomes, ExecuteOnWorker(w, r)
      PROVE  Covered(jobsPending, workerState)'
    <2>1. jobsPending' = pending /\ ws[w] = "executing" /\ workerState' = [ws EXCEPT ![w] = "completing"]
        BY <1>9 DEF ExecuteOnWorker, queueVars
    <2>2. Coming(workerState') = Coming(ws) /\ Sleeping(workerState') = Sleeping(ws)
        BY <1>1, <2>1 DEF Coming, Sleeping
    <2>3. Sleeping(workerState') # {} => Cardinality(jobsPending') <= Cardinality(Coming(workerState'))
        BY <2>1, <2>2 DEF Covered
    <2> QED
        BY <2>3 DEF Covered, Coming, Sleeping
<1>10. \/ UNCHANGED <<jobsPending, workerState>>
       \/ \E c \in Clients, k \in Keys, p \in Priorities : ExecuteCreate(c, k, p)
       \/ \E w \in Workers : \/ GetWork(w) \/ MarkCompletion(w) \/ WaitForJobs(w)
                             \/ LeaveGetWork(w) \/ ExtractJob(w)
                             \/ \E r \in Outcomes : ExecuteOnWorker(w, r)
    BY DEF Next, vars, queueVars, workerVars, ClientNext, WorkerNext, ExecuteInvalid, ExecuteRefused,
       Refuse, ExecuteJoin, WaitExecution, SendOperation, SendFails, WaitReturns, CancelStream,
       HalfCloseStream
<1> QED
    BY <1>3, <1>4, <1>5, <1>6, <1>7, <1>8, <1>9, <1>10

\* While a worker sleeps, every pending job has a goroutine coming for it: the
\* signals of Execute and of a cancelled GetWork are never one too few.
THEOREM NoWakeupIsLost ==
    Spec => []NoLostWakeup
<1>1. Init => Covered(jobsPending, workerState)
    BY DEF Init, Covered, Sleeping
<1>2. QueueInvariant /\ Covered(jobsPending, workerState) /\ [Next]_vars => Covered(jobsPending, workerState)'
    BY CoveredStep
<1>3. Covered(jobsPending, workerState) => NoLostWakeup
    BY DEF Covered, NoLostWakeup, Sleeping, Coming
<1> QED
    BY <1>1, <1>2, <1>3, QueueInvariantHolds, PTL DEF Spec

---------------------------------------------------------------------------
\* The queue implements the job service.

\* The job that a call follows, as the refinement mapping has it.
Followed == [c \in Clients |-> IF clientState[c] = "idle" THEN NoJob ELSE clientJob[c]]

\* The two modules count alike.
LEMMA SameCardinality ==
    ASSUME NEW S
    PROVE  Service!Cardinality(S) = Cardinality(S)
BY DEF Service!Cardinality, Cardinality

\* The service sees the waiting jobs in the heap, and the key of a live job in
\* the deduplication map.
LEMMA ServiceView ==
    ASSUME QueueInvariant
    PROVE  /\ Service!Ids = JobIds
           /\ Service!Waiting = jobsPending
           /\ \A k \in Keys : jobsDeduplicationMap[k] = NoJob => ~Service!InService(k)
<1> USE DEF QueueInvariant
<1>1. Service!Ids = JobIds
    BY DEF Service!Ids, JobIds
<1>2. Service!Waiting = jobsPending
    BY <1>1 DEF Service!Waiting, JobsConserved
<1>3. ASSUME NEW k \in Keys, jobsDeduplicationMap[k] = NoJob, NEW j \in JobIds,
             jobsNameMap[j].key = k, jobsNameMap[j].stage # "COMPLETED"
      PROVE  FALSE
    <2>1. jobsDeduplicationMap[k] = j
        BY <1>3 DEF DeduplicationExact
    <2> QED
        BY <1>3, <2>1 DEF JobIds, NoJob
<1> QED
    BY <1>1, <1>2, <1>3 DEF Service!InService, Service!Live

\* A refused call is declined.
LEMMA RefuseDeclines ==
    ASSUME QueueInvariant, NEW c \in Clients, clientState[c] = "idle",
           NEW code \in {"InvalidArgument", "NotFound", "Unavailable"}, Refuse(c, code),
           code = "Unavailable" => TooManyPending /\ \E k \in Keys : JobFor(k) = NoJob
    PROVE  Service!Decline(c, code)
<1>1. Followed[c] = 0 /\ Followed' = Followed
    BY DEF Followed, NoJob, Refuse, QueueInvariant, TypeOK
<1>2. code = "Unavailable" =>
         Service!Cardinality(Service!Waiting) >= jobsPendingMax /\ \E k \in Keys : ~Service!InService(k)
    BY ServiceView, SameCardinality DEF TooManyPending, JobFor
<1> QED
    BY <1>1, <1>2 DEF Service!Decline, Followed, Refuse, queueVars

\* A call that enters waitExecution follows its job.
LEMMA EnterWaitFollows ==
    ASSUME QueueInvariant, NEW c \in Clients, clientState[c] = "idle", NEW j \in Nat, EnterWait(c, j)
    PROVE  Service!Follow(c, j)
<1>1. Followed[c] = 0 /\ Followed' = [Followed EXCEPT ![c] = j]
    BY DEF Followed, NoJob, EnterWait, QueueInvariant, TypeOK
<1> QED
    BY <1>1 DEF Service!Follow, Followed, EnterWait

\* An operation that is sent is a report.
LEMMA SendOperationReports ==
    ASSUME QueueInvariant, NEW c \in Clients, SendOperation(c)
    PROVE  Service!Report(c)
<1> DEFINE j == clientJob[c]
<1> USE DEF QueueInvariant
<1>1. clientState[c] = "sending" /\ j # NoJob /\ j \in JobIds
    BY DEF SendOperation, ClientsHaveJobs, TypeOK, JobIds, NoJob
<1>2. Followed[c] = j /\ Followed[c] # 0
    BY <1>1 DEF Followed, NoJob
<1>3. jobsNameMap[j].executeResponse # NoResponse <=> ~Service!Live(j)
    BY <1>1 DEF ResponsesMarkCompletion, Service!Live
<1>4. Followed' = [Followed EXCEPT ![c] = IF ~Service!Live(j) THEN 0 ELSE @]
    <2>1. clientState' = [clientState EXCEPT ![c] = IF ~Service!Live(j) THEN "idle" ELSE "waiting"]
          /\ clientJob' = clientJob
        BY <1>3 DEF SendOperation
    <2> QED
        BY <1>1, <2>1 DEF Followed, NoJob, TypeOK
<1>5. clientStatus' = [clientStatus EXCEPT ![c] = IF ~Service!Live(j) THEN "OK" ELSE @]
    BY <1>3 DEF SendOperation
<1>6. received' = [received EXCEPT ![c] = Append(@,
          [stage |-> jobsNameMap[j].stage, response |-> jobsNameMap[j].executeResponse])]
      /\ jobsNameMap' = jobsNameMap
    BY DEF SendOperation, queueVars
<1> QED
    BY <1>2, <1>4, <1>5, <1>6 DEF Service!Report, Followed

\* Work on a job starts when its turn has come, and ends once.
LEMMA ExtractJobStarts ==
    ASSUME QueueInvariant, NEW w \in Workers, ExtractJob(w)
    PROVE  \E j \in Service!Ids : Service!Start(j)
<1>1. PICK j \in jobsPending : (\A i \in jobsPending \ {j} : Less(j, i)) /\ jobsNameMap' = Executing(j)
    BY DEF ExtractJob
<1>2. j \in Service!Ids /\ j \in Service!Waiting /\ \A i \in Service!Waiting \ {j} : Service!Before(j, i)
    BY <1>1, ServiceView DEF QueueInvariant, TypeOK, Less, Service!Before
<1>3. Service!Start(j)
    BY <1>1, <1>2 DEF Service!Start, Executing, ExtractJob, clientVars
<1> QED
    BY <1>2, <1>3

LEMMA MarkCompletionFinishes ==
    ASSUME QueueInvariant, NEW w \in Workers, MarkCompletion(w)
    PROVE  \E j \in Service!Ids : \E r \in Outcomes : Service!Finish(j, r)
<1> DEFINE j == workerJob[w]
<1> DEFINE r == workerResult[w]
<1> USE DEF QueueInvariant
<1>1. j # NoJob /\ r \in Outcomes /\ jobsNameMap[j].stage = "EXECUTING" /\ j \in JobIds
    BY DEF MarkCompletion, WorkersHaveJobs, TypeOK, JobIds, NoJob
<1>2. Followed' = Followed
    BY DEF Followed, MarkCompletion, Broadcast, TypeOK
<1>3. Service!Finish(j, r)
    BY <1>1, <1>2, ServiceView DEF Service!Finish, Followed, MarkCompletion, Completed
<1> QED
    BY <1>1, <1>3, ServiceView

\* Steps that the service does not see.
LEMMA Unseen ==
    ASSUME UNCHANGED <<jobsNameMap, received, clientStatus>>, Followed' = Followed
    PROVE  UNCHANGED Service!vars
BY DEF Service!vars, Followed

\* Every step of the queue is one of the job service, or none.
LEMMA ServiceStep ==
    ASSUME QueueInvariant, [Next]_vars
    PROVE  [Service!Next]_(Service!vars)
<1> USE DEF QueueInvariant
<1>1. CASE UNCHANGED vars
    BY <1>1, Unseen DEF vars, queueVars, clientVars, Followed
<1>2. ASSUME NEW c \in Clients, ClientNext(c)
      PROVE  [Service!Next]_(Service!vars)
    <2>1. CASE ExecuteInvalid(c)
        BY <2>1, RefuseDeclines DEF ExecuteInvalid, Service!Next
    <2>2. CASE \E k \in Keys : ExecuteRefused(c, k)
        <3>1. Service!Decline(c, "Unavailable")
            BY <2>2, RefuseDeclines DEF ExecuteRefused, CallStarts
        <3> QED
            BY <3>1 DEF Service!Next
    <2>3. ASSUME NEW k \in Keys, ExecuteJoin(c, k)
          PROVE  Service!Next
        <3>1. JobFor(k) \in JobIds /\ JobFor(k) \in Nat
            BY <2>3 DEF ExecuteJoin, JobFor, TypeOK, JobIds, NoJob
        <3>2. PICK j \in Nat : j = JobFor(k)
            BY <3>1
        <3>3. EnterWait(c, j) /\ clientState[c] = "idle" /\ jobsNameMap' = jobsNameMap
            BY <2>3, <3>2 DEF ExecuteJoin, CallStarts, queueVars
        <3>4. Service!Attach(c, j) /\ j \in Service!Ids
            BY <3>1, <3>2, <3>3, EnterWaitFollows, ServiceView DEF Service!Attach
        <3> QED
            BY <3>4 DEF Service!Next
    <2>4. ASSUME NEW k \in Keys, NEW p \in Priorities, ExecuteCreate(c, k, p)
          PROVE  Service!Next
        <3>1. jobsNameMap \in Seq(Job) /\ Len(jobsNameMap) + 1 \in Nat
            BY DEF TypeOK
        <3>2. Service!Follow(c, Len(jobsNameMap) + 1)
            <4>1. PICK j \in Nat : j = Len(jobsNameMap) + 1
                BY <3>1
            <4>2. EnterWait(c, j) /\ clientState[c] = "idle"
                BY <2>4, <4>1 DEF ExecuteCreate, CallStarts
            <4>3. Service!Follow(c, j)
                BY <4>2, EnterWaitFollows
            <4> QED
                BY <4>1, <4>3 DEF Service!Follow
        <3>3. ~Service!InService(k)
            BY <2>4, ServiceView DEF ExecuteCreate, JobFor
        <3>4. Service!Cardinality(Service!Waiting) < jobsPendingMax
            BY <2>4, ServiceView, SameCardinality, Finiteness, QueueAssumption DEF ExecuteCreate, TooManyPending
        <3>5. Service!Submit(c, k, p)
            BY <2>4, <3>2, <3>3, <3>4 DEF Service!Submit, ExecuteCreate, WithJob
        <3> QED
            BY <3>5 DEF Service!Next
    <2>5. ASSUME NEW j \in 1 .. MaxJobs, WaitExecution(c, j)
          PROVE  Service!Next
        <3>1. CASE j \in JobIds
            <4>1. j \in Nat
                OBVIOUS
            <4>2. Service!Attach(c, j)
                BY <2>5, <3>1, <4>1, EnterWaitFollows, ServiceView
                DEF WaitExecution, CallStarts, Service!Attach, queueVars
            <4> QED
                BY <3>1, <4>2, ServiceView DEF Service!Next
        <3>2. CASE j \notin JobIds
            BY <2>5, <3>2, RefuseDeclines DEF WaitExecution, CallStarts, Service!Next
        <3> QED
            BY <3>1, <3>2
    <2>6. CASE SendOperation(c)
        BY <2>6, SendOperationReports DEF Service!Next
    <2>7. CASE SendFails(c)
        <3>1. Followed[c] # 0 /\ Followed' = [Followed EXCEPT ![c] = 0]
            BY <2>7 DEF Followed, SendFails, ClientsHaveJobs, TypeOK, NoJob
        <3>2. Service!Abandon(c)
            BY <2>7, <3>1 DEF Service!Abandon, Followed, SendFails, queueVars
        <3> QED
            BY <3>2 DEF Service!Next
    <2>8. CASE WaitReturns(c)
        <3>1. Followed' = Followed
            BY <2>8 DEF Followed, WaitReturns, TypeOK
        <3> QED
            BY <2>8, <3>1, Unseen DEF WaitReturns, queueVars
    <2> QED
        BY <1>2, <2>1, <2>2, <2>3, <2>4, <2>5, <2>6, <2>7, <2>8 DEF ClientNext
<1>3. ASSUME NEW w \in Workers, WorkerNext(w)
      PROVE  [Service!Next]_(Service!vars)
    <2>1. CASE ExtractJob(w)
        BY <2>1, ExtractJobStarts DEF Service!Next
    <2>2. CASE MarkCompletion(w)
        BY <2>2, MarkCompletionFinishes DEF Service!Next
    <2>3. CASE \/ GetWork(w) \/ WaitForJobs(w) \/ LeaveGetWork(w) \/ CancelStream(w) \/ HalfCloseStream(w)
               \/ \E r \in Outcomes : ExecuteOnWorker(w, r)
        <3>1. UNCHANGED <<queueVars, clientVars>>
            BY <2>3 DEF GetWork, WaitForJobs, LeaveGetWork, CancelStream, HalfCloseStream, ExecuteOnWorker
        <3> QED
            BY <3>1, Unseen DEF queueVars, clientVars, Followed
    <2> QED
        BY <1>3, <2>1, <2>2, <2>3 DEF WorkerNext
<1> QED
    BY <1>1, <1>2, <1>3 DEF Next

\* The queue, with its lock, heap, deduplication map and condition variables,
\* implements the job service: for any number of clients, workers and keys.
THEOREM QueueImplementsService ==
    Spec => ImplementsService
<1>1. Init => Service!Init
    BY DEF Init, Service!Init, NoJob
<1>2. QueueInvariant /\ [Next]_vars => [Service!Next]_(Service!vars)
    BY ServiceStep
<1> QED
    BY <1>1, <1>2, QueueInvariantHolds, PTL DEF Spec, ImplementsService, Service!Spec

---------------------------------------------------------------------------
\* The order of the heap.

\* A step leaves the stages alone, adds a queued job, or moves one job on that
\* was the first of the heap or had left it already.
LEMMA NoOvertakingStep ==
    ASSUME QueueInvariant, NoOvertaking, [Next]_vars
    PROVE  NoOvertaking'
<1> USE DEF QueueInvariant
<1>1. jobsNameMap \in Seq(Job)
    BY DEF TypeOK
<1>2. CASE jobsNameMap' = jobsNameMap
    BY <1>2 DEF NoOvertaking, JobIds
<1>3. ASSUME NEW c \in Clients, NEW k \in Keys, NEW p \in Priorities, ExecuteCreate(c, k, p)
      PROVE  NoOvertaking'
    <2>1. jobsNameMap' = WithJob(k, p)
        BY <1>3 DEF ExecuteCreate
    <2> QED
        BY <1>1, <2>1, WithJobFacts DEF NoOvertaking, JobIds
<1>4. ASSUME NEW w \in Workers, ExtractJob(w)
      PROVE  NoOvertaking'
    <2>1. PICK x \in jobsPending : /\ \A i \in jobsPending \ {x} : Less(x, i)
                                   /\ jobsNameMap' = Executing(x)
        BY <1>4 DEF ExtractJob
    <2>2. x \in JobIds
        BY <2>1 DEF TypeOK
    <2>3. /\ Len(jobsNameMap') = Len(jobsNameMap)
          /\ \A i \in JobIds : i # x => jobsNameMap'[i] = jobsNameMap[i]
          /\ jobsNameMap'[x].priority = jobsNameMap[x].priority
          /\ jobsNameMap'[x].stage = "EXECUTING"
        BY <1>1, <2>1, <2>2, ExecutingFacts
    <2>4. ASSUME NEW i \in JobIds
          PROVE  jobsNameMap[i].priority \in Int
        <3>1. jobsNameMap[i] \in Job
            BY <1>1 DEF JobIds
        <3> QED
            BY <3>1, QueueAssumption DEF Job
    <2>5. \A i \in JobIds : i < x /\ jobsNameMap[i].priority <= jobsNameMap[x].priority
                            => jobsNameMap[i].stage # "QUEUED"
        BY <2>1, <2>2, <2>4 DEF Less, JobsConserved, JobIds
    <2> QED
        BY <2>2, <2>3, <2>5 DEF NoOvertaking, JobIds
<1>5. ASSUME NEW w \in Workers, MarkCompletion(w)
      PROVE  NoOvertaking'
    <2>1. PICK x \in JobIds : x = workerJob[w] /\ jobsNameMap[x].stage = "EXECUTING"
        <3>1. workerJob[w] # NoJob /\ jobsNameMap[workerJob[w]].stage = "EXECUTING"
            BY <1>5 DEF MarkCompletion, WorkersHaveJobs
        <3>2. workerJob[w] \in JobIds
            BY <3>1 DEF TypeOK, JobIds, NoJob
        <3> QED
            BY <3>1, <3>2
    <2>2. workerResult[w] \in Outcomes /\ jobsNameMap' = Completed(x, workerResult[w])
        BY <1>5, <2>1 DEF MarkCompletion, WorkersHaveJobs
    <2>3. /\ Len(jobsNameMap') = Len(jobsNameMap)
          /\ \A i \in JobIds : i # x => jobsNameMap'[i] = jobsNameMap[i]
          /\ jobsNameMap'[x].priority = jobsNameMap[x].priority
          /\ jobsNameMap'[x].stage = "COMPLETED"
        BY <1>1, <2>1, <2>2, CompletedFacts
    <2> QED
        BY <2>1, <2>3 DEF NoOvertaking, JobIds
<1>6. ASSUME NEW c \in Clients, ClientNext(c)
      PROVE  jobsNameMap' = jobsNameMap \/ \E k \in Keys, p \in Priorities : ExecuteCreate(c, k, p)
    BY <1>6 DEF ClientNext, ExecuteInvalid, ExecuteRefused, ExecuteJoin, WaitExecution, Refuse,
        SendOperation, SendFails, WaitReturns, queueVars
<1>7. ASSUME NEW w \in Workers, WorkerNext(w)
      PROVE  jobsNameMap' = jobsNameMap \/ ExtractJob(w) \/ MarkCompletion(w)
    BY <1>7 DEF WorkerNext, GetWork, WaitForJobs, LeaveGetWork, ExecuteOnWorker, CancelStream,
        HalfCloseStream, queueVars
<1>8. CASE UNCHANGED vars
    BY <1>2, <1>8 DEF vars, queueVars
<1> QED
    BY <1>2, <1>3, <1>4, <1>5, <1>6, <1>7, <1>8 DEF Next

\* Workers take the jobs in order of priority and, within a priority, of
\* insertion: no job leaves the queue of the scheduler before an older one that
\* is at least as urgent.
THEOREM NobodyIsOvertaken ==
    Spec => []NoOvertaking
<1>1. Init => NoOvertaking
    BY DEF Init, NoOvertaking, JobIds
<1>2. QueueInvariant /\ NoOvertaking /\ [Next]_vars => NoOvertaking'
    BY NoOvertakingStep
<1> QED
    BY <1>1, <1>2, QueueInvariantHolds, PTL DEF Spec

---------------------------------------------------------------------------
\* What clients see.

\* OperationsAreNews for one call, and why the next operation will be news: a
\* call that has sent something and is about to send again does so because its
\* job was completed meanwhile.
News(c) ==
    LET ops == received[c] IN
    /\ \A i \in 1 .. Len(ops) - 1 : StageRank(ops[i].stage) < StageRank(ops[i + 1].stage)
    /\ \A i \in 1 .. Len(ops) :
          /\ ops[i].stage = "COMPLETED" <=> ops[i].response # NoResponse
          /\ ops[i].stage = "COMPLETED" =>
                /\ clientJob[c] \in JobIds
                /\ jobsNameMap[clientJob[c]].stage = "COMPLETED"
                /\ ops[i].response = jobsNameMap[clientJob[c]].executeResponse
    /\ clientStatus[c] = "OK" => Len(ops) > 0 /\ ops[Len(ops)].stage = "COMPLETED"
    /\ clientState[c] # "idle" =>
          clientStatus[c] # "OK" /\ \A i \in 1 .. Len(ops) : ops[i].stage # "COMPLETED"
    /\ clientState[c] \in {"sending", "woken"} /\ Len(ops) > 0 =>
          jobsNameMap[clientJob[c]].stage = "COMPLETED"

\* Jobs stay, and completed ones are never touched again.
CompletedStay ==
    \A j \in JobIds :
        /\ j \in 1 .. Len(jobsNameMap')
        /\ jobsNameMap[j].stage = "COMPLETED" => jobsNameMap'[j] = jobsNameMap[j]

\* No action of the queue changes a completed job.
LEMMA CompletedStayStep ==
    ASSUME QueueInvariant, [Next]_vars
    PROVE  CompletedStay
<1> USE DEF QueueInvariant
<1>1. jobsNameMap \in Seq(Job)
    BY DEF TypeOK
<1>2. CASE jobsNameMap' = jobsNameMap
    BY <1>2 DEF CompletedStay, JobIds
<1>3. ASSUME NEW c \in Clients, NEW k \in Keys, NEW p \in Priorities, ExecuteCreate(c, k, p)
      PROVE  CompletedStay
    <2>1. jobsNameMap' = WithJob(k, p)
        BY <1>3 DEF ExecuteCreate
    <2> QED
        BY <1>1, <2>1, WithJobFacts DEF CompletedStay, JobIds
<1>4. ASSUME NEW w \in Workers, ExtractJob(w)
      PROVE  CompletedStay
    <2>1. PICK x \in jobsPending : jobsNameMap' = Executing(x)
        BY <1>4 DEF ExtractJob
    <2>2. x \in JobIds /\ jobsNameMap[x].stage = "QUEUED"
        BY <2>1 DEF JobsConserved
    <2> QED
        BY <1>1, <2>1, <2>2, ExecutingFacts DEF CompletedStay, JobIds
<1>5. ASSUME NEW w \in Workers, MarkCompletion(w)
      PROVE  CompletedStay
    <2>1. workerJob[w] # NoJob /\ jobsNameMap[workerJob[w]].stage = "EXECUTING" /\ workerResult[w] \in Outcomes
        BY <1>5 DEF MarkCompletion, WorkersHaveJobs
    <2>2. workerJob[w] \in JobIds
        BY <2>1 DEF TypeOK, JobIds, NoJob
    <2>3. jobsNameMap' = Completed(workerJob[w], workerResult[w])
        BY <1>5 DEF MarkCompletion
    <2> QED
        BY <1>1, <2>1, <2>2, <2>3, CompletedFacts DEF CompletedStay, JobIds
<1>6. ASSUME NEW c \in Clients, ClientNext(c)
      PROVE  jobsNameMap' = jobsNameMap \/ \E k \in Keys, p \in Priorities : ExecuteCreate(c, k, p)
    BY <1>6 DEF ClientNext, ExecuteInvalid, ExecuteRefused, ExecuteJoin, WaitExecution, Refuse,
        SendOperation, SendFails, WaitReturns, queueVars
<1>7. ASSUME NEW w \in Workers, WorkerNext(w)
      PROVE  jobsNameMap' = jobsNameMap \/ ExtractJob(w) \/ MarkCompletion(w)
    BY <1>7 DEF WorkerNext, GetWork, WaitForJobs, LeaveGetWork, ExecuteOnWorker, CancelStream,
        HalfCloseStream, queueVars
<1>8. CASE UNCHANGED vars
    BY <1>2, <1>8 DEF vars, queueVars
<1> QED
    BY <1>2, <1>3, <1>4, <1>5, <1>6, <1>7, <1>8 DEF Next

\* A call that sends nothing keeps its news: it stays as it is, is woken up
\* because its job is completed, gets the lock back, or leaves with an error.
LEMMA QuietNews ==
    ASSUME QueueInvariant, NEW c \in Clients, News(c), CompletedStay,
           received'[c] = received[c], clientJob'[c] = clientJob[c],
           \/ clientState'[c] = clientState[c] /\ clientStatus'[c] = clientStatus[c]
           \/ /\ clientState[c] = "waiting" /\ clientState'[c] = "woken"
              /\ clientStatus'[c] = clientStatus[c]
              /\ jobsNameMap'[clientJob[c]].stage = "COMPLETED"
           \/ /\ clientState[c] = "woken" /\ clientState'[c] = "sending"
              /\ clientStatus'[c] = clientStatus[c]
           \/ clientState'[c] = "idle" /\ clientStatus'[c] = "SendError"
    PROVE  News(c)'
<1>1. clientState[c] # "idle" => clientJob[c] \in JobIds
    BY DEF QueueInvariant, ClientsHaveJobs, TypeOK, JobIds, NoJob
<1>2. \A j \in JobIds : j \in JobIds' /\ (jobsNameMap[j].stage = "COMPLETED" => jobsNameMap'[j] = jobsNameMap[j])
    BY DEF CompletedStay, JobIds
<1> QED
    BY <1>1, <1>2 DEF News

\* A call that begins, or is refused, has sent nothing.
LEMMA FreshNews ==
    ASSUME NEW c \in Clients, received'[c] = <<>>, clientStatus'[c] # "OK"
    PROVE  News(c)'
BY DEF News

\* What waitExecution sends is further than all before it, and the last if it
\* is the end.
LEMMA SendOperationNews ==
    ASSUME QueueInvariant, NEW c \in Clients, News(c), SendOperation(c)
    PROVE  News(c)'
<1> DEFINE job == jobsNameMap[clientJob[c]]
           op == [stage |-> job.stage, response |-> job.executeResponse]
<1>1. clientState[c] = "sending" /\ clientJob[c] \in JobIds
    BY DEF QueueInvariant, SendOperation, ClientsHaveJobs, TypeOK, JobIds, NoJob
<1>2. received[c] \in Seq(Operation)
    BY DEF QueueInvariant, TypeOK
<1>3. job \in Job
    BY <1>1 DEF QueueInvariant, TypeOK, JobIds
<1>4. job.stage = "COMPLETED" <=> job.executeResponse # NoResponse
    BY <1>1 DEF QueueInvariant, ResponsesMarkCompletion
<1>5. /\ received'[c] = Append(received[c], op)
      /\ jobsNameMap' = jobsNameMap /\ clientJob' = clientJob /\ JobIds' = JobIds
      /\ clientState'[c] = IF job.executeResponse # NoResponse THEN "idle" ELSE "waiting"
      /\ clientStatus'[c] = IF job.executeResponse # NoResponse THEN "OK" ELSE clientStatus[c]
    BY DEF QueueInvariant, TypeOK, SendOperation, queueVars, JobIds
<1>6. op.stage = job.stage /\ op.response = job.executeResponse /\ op \in Operation
    BY <1>3 DEF Job, Operation
<1> DEFINE ops == received[c]
           n == Len(ops)
<1>7. /\ n \in Nat /\ Len(received'[c]) = n + 1 /\ received'[c][n + 1] = op
      /\ \A i \in 1 .. n : received'[c][i] = ops[i] /\ ops[i] \in Operation
    BY <1>2, <1>5, <1>6
<1>8. n > 0 => StageRank(ops[n].stage) < StageRank(op.stage)
    <2>1. n > 0 => ops[n].stage \in {"QUEUED", "EXECUTING"} /\ op.stage = "COMPLETED"
        <3>1. n > 0 => ops[n] \in Operation /\ ops[n].stage # "COMPLETED"
            BY <1>1, <1>7 DEF News
        <3>2. n > 0 => job.stage = "COMPLETED"
            BY <1>1 DEF News
        <3> QED
            BY <1>6, <3>1, <3>2 DEF Operation, Stages
    <2> QED
        BY <2>1 DEF StageRank
<1> HIDE DEF op, ops, n
<1>9. \A i \in 1 .. n : StageRank(ops[i].stage) < StageRank(ops[i + 1].stage) \/ i = n
    BY <1>7 DEF News, ops, n
<1> HIDE DEF job
<1>10. \A i \in 1 .. Len(received'[c]) - 1 :
          StageRank(received'[c][i].stage) < StageRank(received'[c][i + 1].stage)
    <2> SUFFICES ASSUME NEW i \in 1 .. n
                 PROVE  StageRank(received'[c][i].stage) < StageRank(received'[c][i + 1].stage)
        BY <1>7
    <2>1. CASE i = n
        BY <1>7, <1>8, <2>1
    <2>2. CASE i # n
        BY <1>7, <1>9, <2>2
    <2> QED
        BY <2>1, <2>2
<1>11. \A i \in 1 .. n :
          /\ ops[i].stage = "COMPLETED" <=> ops[i].response # NoResponse
          /\ ops[i].stage # "COMPLETED"
    BY <1>1 DEF News, ops, n
<1>12. clientStatus[c] # "OK"
    BY <1>1 DEF News
<1> QED
    BY <1>1, <1>4, <1>5, <1>6, <1>7, <1>10, <1>11, <1>12 DEF News, job

\* Every step of the scheduler keeps the streams of all calls truthful.
LEMMA NewsStep ==
    ASSUME QueueInvariant, \A c \in Clients : News(c), [Next]_vars
    PROVE  (\A c \in Clients : News(c))'
<1> SUFFICES ASSUME NEW c \in Clients
             PROVE  News(c)'
    OBVIOUS
<1>1. CompletedStay
    BY CompletedStayStep
<1>2. CASE UNCHANGED clientVars
    BY <1>1, <1>2, QuietNews DEF clientVars
<1>3. ASSUME NEW d \in Clients, ClientNext(d), d # c
      PROVE  News(c)'
    <2>1. /\ received'[c] = received[c] /\ clientJob'[c] = clientJob[c]
          /\ clientState'[c] = clientState[c] /\ clientStatus'[c] = clientStatus[c]
        BY <1>3 DEF QueueInvariant, TypeOK, ClientNext, ExecuteInvalid, ExecuteRefused, ExecuteJoin,
            ExecuteCreate, WaitExecution, Refuse, EnterWait, SendOperation, SendFails, WaitReturns
    <2> QED
        BY <1>1, <2>1, QuietNews
<1>4. CASE ClientNext(c)
    <2> USE DEF QueueInvariant, TypeOK
    <2>1. CASE ExecuteInvalid(c) \/ \E k \in Keys : ExecuteRefused(c, k)
        BY <2>1, FreshNews DEF ExecuteInvalid, ExecuteRefused, Refuse
    <2>2. CASE \/ \E k \in Keys : ExecuteJoin(c, k)
               \/ \E k \in Keys, p \in Priorities : ExecuteCreate(c, k, p)
        BY <2>2, FreshNews DEF ExecuteJoin, ExecuteCreate, EnterWait
    <2>3. CASE \E j \in 1 .. MaxJobs : WaitExecution(c, j)
        BY <2>3, FreshNews DEF WaitExecution, Refuse, EnterWait
    <2>4. CASE SendOperation(c)
        BY <2>4, SendOperationNews
    <2>5. CASE SendFails(c)
        BY <1>1, <2>5, QuietNews DEF SendFails
    <2>6. CASE WaitReturns(c)
        BY <1>1, <2>6, QuietNews DEF WaitReturns
    <2> QED
        BY <1>4, <2>1, <2>2, <2>3, <2>4, <2>5, <2>6 DEF ClientNext
<1>5. ASSUME NEW w \in Workers, MarkCompletion(w)
      PROVE  News(c)'
    <2>1. workerJob[w] # NoJob /\ workerResult[w] \in Outcomes
        BY <1>5 DEF QueueInvariant, MarkCompletion, WorkersHaveJobs
    <2>2. workerJob[w] \in JobIds /\ jobsNameMap \in Seq(Job)
        BY <2>1 DEF QueueInvariant, TypeOK, JobIds, NoJob
    <2>3. jobsNameMap'[workerJob[w]].stage = "COMPLETED"
        BY <1>5, <2>1, <2>2, CompletedFacts DEF MarkCompletion
    <2>4. /\ received' = received /\ clientJob' = clientJob /\ clientStatus' = clientStatus
          /\ \/ clientState'[c] = clientState[c]
             \/ clientState[c] = "waiting" /\ clientState'[c] = "woken" /\ clientJob[c] = workerJob[w]
        BY <1>5 DEF MarkCompletion, Broadcast
    <2> QED
        BY <1>1, <2>3, <2>4, QuietNews
<1>6. ASSUME NEW w \in Workers, WorkerNext(w), ~MarkCompletion(w)
      PROVE  UNCHANGED clientVars
    BY <1>6 DEF WorkerNext, GetWork, WaitForJobs, LeaveGetWork, ExtractJob, ExecuteOnWorker,
        CancelStream, HalfCloseStream
<1> QED
    BY <1>2, <1>3, <1>4, <1>5, <1>6 DEF Next, vars

\* Whatever the interleaving of workers, calls and broadcasts, the operations
\* that waitExecution sends on a stream are in order, none is sent twice, and
\* the last one alone has the response of the job.
THEOREM OperationsAreAlwaysNews ==
    Spec => []OperationsAreNews
<1>1. Init => \A c \in Clients : News(c)
    BY DEF Init, News
<1>2. QueueInvariant /\ (\A c \in Clients : News(c)) /\ [Next]_vars => (\A c \in Clients : News(c))'
    BY NewsStep
<1>3. (\A c \in Clients : News(c)) => OperationsAreNews
    BY DEF News, OperationsAreNews
<1> QED
    BY <1>1, <1>2, <1>3, QueueInvariantHolds, PTL DEF Spec
===========================================================================
