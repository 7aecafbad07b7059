------------------------ MODULE FrontendBuildQueue ------------------------
(***************************************************************************)
(* bbb_frontend's Execution service: the demultiplexing build queue, which *)
(* picks a scheduler by instance name and prefixes operation names with    *)
(* it, on top of one forwarding build queue per scheduler, which relays a  *)
(* gRPC stream of operations message by message.                           *)
(*                                                                         *)
(* Strings that may hold the separator '|' are sequences of the tokens     *)
(* between the separators: "a|uuid" is <<a, uuid>>.  A scheduler's own job *)
(* name, a random UUID, is one token.  The schedulers are seen through     *)
(* what worker_build_queue promises (module WorkerBuildQueue): a call      *)
(* joins or creates a job, operations follow, the last one is done; their  *)
(* memory is lost when they restart.                                       *)
(***************************************************************************)
EXTENDS Integers, Sequences, FiniteSets

CONSTANTS
    Calls,          \* client calls of Execute and WaitExecution
    Backends,       \* instance names (one token each) that have a scheduler
    InstanceNames,  \* instance names clients may ask for (token sequences)
    Jobs,           \* bound: UUIDs that schedulers may give to jobs
    MaxRestarts     \* bound: scheduler restarts

ASSUME FrontendAssumption ==
    /\ Backends \subseteq STRING /\ Jobs \subseteq STRING /\ InstanceNames \subseteq Seq(STRING)
    /\ \A i \in InstanceNames : Len(i) >= 1
    /\ MaxRestarts \in Nat

VARIABLES
    created,    \* scheduler -> jobs it ever created
    jobs,       \* scheduler -> jobs in its jobsNameMap
    completed,  \* jobs that have a response
    call,       \* call -> scheduler, job and name prefix it is forwarded with
    pipe,       \* call -> operations on their way from scheduler to frontend
    received,   \* call -> operations the client has received
    status,     \* call -> "new", "running", or the status it returned with
    asked,      \* call -> the operation name given to WaitExecution
    known,      \* operation names clients have learnt from Execute calls
    restarts

vars == <<created, jobs, completed, call, pipe, received, status, asked, known, restarts>>

NoCall == [backend |-> "none", job |-> "none", prefix |-> <<>>]
EndOfStream == [name |-> <<>>, end |-> "EOF"]
BrokenStream == [name |-> <<>>, end |-> "error"]

Init ==
    /\ created = [b \in Backends |-> {}]
    /\ jobs = [b \in Backends |-> {}]
    /\ completed = {}
    /\ call = [c \in Calls |-> NoCall]
    /\ pipe = [c \in Calls |-> <<>>]
    /\ received = [c \in Calls |-> <<>>]
    /\ status = [c \in Calls |-> "new"]
    /\ asked = [c \in Calls |-> <<>>]
    /\ known = {}
    /\ restarts = 0

\* Mutation of Prepend: the name is passed on as it is.
PrependNothing(prefix, name) == name

\* operationNamePrepender.Send: fmt.Sprintf("%s|%s", prefix, name).
Prepend(prefix, name) == prefix \o name

\* The name under which the frontend asks the scheduler for the job: it passes
\* on the request it received and not the copy with the prefix removed.
ForwardedName(name) == name

\* The prefix of the operations it relays: what follows the first separator.
WaitPrefix(name) == Tail(name)

\* The scheduler-side job with the given name, if there is one.
Find(b, name) == {j \in jobs[b] : <<j>> = name}

\* Scheduler-side jobs that an Execute call may end up in: the uncompleted one
\* with the same deduplication key, or a new one.
JobsToExecute(b) == (jobs[b] \ completed) \cup (Jobs \ UNION {created[x] : x \in Backends})

Return(c, s) == status' = [status EXCEPT ![c] = s]

Forward(c, b, j, prefix) ==
    /\ Return(c, "running")
    /\ call' = [call EXCEPT ![c] = [backend |-> b, job |-> j, prefix |-> prefix]]

\* demultiplexingBuildQueue.Execute and forwardingBuildQueue.Execute.
Execute(c, instance) ==
    /\ status[c] = "new"
    /\ \/ /\ Len(instance) > 1 \/ instance[1] \notin Backends
          /\ Return(c, "InvalidArgument")
          /\ UNCHANGED <<created, jobs, call>>
       \/ /\ Len(instance) = 1 /\ instance[1] \in Backends
          /\ \E j \in JobsToExecute(instance[1]) :
                /\ Forward(c, instance[1], j, instance)
                /\ created' = [created EXCEPT ![instance[1]] = @ \cup {j}]
                /\ jobs' = [jobs EXCEPT ![instance[1]] = @ \cup {j}]
    /\ UNCHANGED <<completed, pipe, received, asked, known, restarts>>

\* demultiplexingBuildQueue.WaitExecution and forwardingBuildQueue.WaitExecution,
\* with the lookup in the scheduler that answers it.
WaitExecution(c, name) ==
    /\ status[c] = "new"
    /\ asked' = [asked EXCEPT ![c] = name]
    /\ IF Len(name) < 2 \/ Head(name) \notin Backends
       THEN Return(c, "InvalidArgument") /\ UNCHANGED call
       ELSE IF Find(Head(name), ForwardedName(name)) = {}
       THEN Return(c, "NotFound") /\ UNCHANGED call
       ELSE \E j \in Find(Head(name), ForwardedName(name)) :
               Forward(c, Head(name), j, WaitPrefix(name))
    /\ UNCHANGED <<created, jobs, completed, pipe, received, known, restarts>>

\* The stream between scheduler and frontend has not ended.
Streaming(c) ==
    /\ status[c] = "running"
    /\ \A i \in DOMAIN pipe[c] : pipe[c][i].end = "no"

\* The scheduler sends the job's state; once the job is completed it does so
\* for the last time and returns.
SchedulerSends(c) ==
    /\ Streaming(c)
    /\ LET done == call[c].job \in completed
           op == [name |-> <<call[c].job>>, end |-> IF done THEN "done" ELSE "no"]
       IN  /\ done \/ (pipe[c] = <<>> /\ received[c] = <<>>)
           /\ pipe' = [pipe EXCEPT ![c] = @ \o IF done THEN <<op, EndOfStream>> ELSE <<op>>]
    /\ UNCHANGED <<created, jobs, completed, call, received, status, asked, known, restarts>>

\* A worker completes a job.
SchedulerCompletes(j) ==
    /\ \E b \in Backends : j \in jobs[b]
    /\ j \notin completed
    /\ completed' = completed \cup {j}
    /\ UNCHANGED <<created, jobs, call, pipe, received, status, asked, known, restarts>>

\* A scheduler restarts: its jobs are gone and its streams break.
SchedulerRestarts(b) ==
    /\ restarts < MaxRestarts
    /\ restarts' = restarts + 1
    /\ jobs' = [jobs EXCEPT ![b] = {}]
    /\ pipe' = [c \in Calls |-> IF call[c].backend = b /\ Streaming(c)
                                THEN Append(pipe[c], BrokenStream) ELSE pipe[c]]
    /\ UNCHANGED <<created, completed, call, received, status, asked, known>>

\* Mutations of RecvError: any error is taken for the end of the stream; the
\* loop goes on after an error.
RecvErrorIgnored(end) == "OK"
RecvErrorRetried(end) == IF end = "EOF" THEN "OK" ELSE "running"

\* forwardOperations: what client.Recv()'s end of stream makes the call return.
RecvError(end) == IF end = "EOF" THEN "OK" ELSE "Unavailable"

\* forwardOperations: one round of the loop.
ForwardOperation(c) ==
    /\ status[c] = "running" /\ pipe[c] # <<>>
    /\ LET op == Head(pipe[c])
           name == Prepend(call[c].prefix, op.name)
       IN  IF op.end \in {"EOF", "error"}
           THEN /\ Return(c, RecvError(op.end))
                /\ UNCHANGED <<received, known>>
           ELSE /\ received' = [received EXCEPT ![c] =
                        Append(@, [name |-> name, done |-> op.end = "done"])]
                /\ known' = IF asked[c] = <<>> THEN known \cup {name} ELSE known
                /\ UNCHANGED status
    /\ pipe' = [pipe EXCEPT ![c] = Tail(@)]
    /\ UNCHANGED <<created, jobs, completed, call, asked, restarts>>

\* The client is gone: its context is cancelled, Recv or Send fails.
ClientLeaves(c) ==
    /\ status[c] = "running"
    /\ Return(c, "Cancelled")
    /\ UNCHANGED <<created, jobs, completed, call, pipe, received, asked, known, restarts>>

Next ==
    \/ \E c \in Calls :
          \/ \E i \in InstanceNames : Execute(c, i)
          \/ \E n \in known \cup {<<>>} : WaitExecution(c, n)
          \/ SchedulerSends(c)
          \/ ForwardOperation(c)
          \/ ClientLeaves(c)
    \/ \E j \in Jobs : SchedulerCompletes(j)
    \/ \E b \in Backends : SchedulerRestarts(b)

Spec == Init /\ [][Next]_vars

\* The relay loop runs, and the scheduler keeps its promise: jobs complete and
\* their state is sent (CallsReturn and JobsComplete of WorkerBuildQueue).
FairSpec ==
    /\ Spec
    /\ \A c \in Calls : WF_vars(SchedulerSends(c)) /\ WF_vars(ForwardOperation(c))
    /\ \A j \in Jobs : WF_vars(SchedulerCompletes(j))

---------------------------------------------------------------------------
\* Every name a client learns from an Execute call leads back: it splits into
\* the scheduler that created the job and that scheduler's own name for it.
NamesLeadBack ==
    \A n \in known : Len(n) = 2 /\ Head(n) \in Backends /\ n[2] \in created[Head(n)]

\* A call returns OK only after the client has received the operation that is
\* done, and nothing follows it: a relayed stream that breaks (the scheduler
\* restarts) is never mistaken for one that ended.
OKMeansDone ==
    \A c \in Calls :
        /\ status[c] = "OK" => received[c] # <<>> /\ received[c][Len(received[c])].done
        /\ \A i \in DOMAIN received[c] : received[c][i].done => i = Len(received[c])

\* A relayed call returns, whatever happens to its scheduler.
RelayedCallsReturn ==
    \A c \in Calls : status[c] = "running" ~> status[c] \notin {"new", "running"}

\* What NewDemultiplexingBuildQueue documents: job identifiers are prefixed with
\* the instance name so that successive requests may be demultiplexed later on.
\* A name learnt from Execute is found by WaitExecution while the scheduler
\* that created the job is up.
WaitExecutionFindsJob ==
    \A c \in Calls : status[c] = "NotFound" => restarts > 0
===========================================================================
