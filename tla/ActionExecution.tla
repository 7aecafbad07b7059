-------------------------- MODULE ActionExecution --------------------------
(***************************************************************************)
(* Execution of build actions by the threads of bbb_worker: every thread   *)
(* has a storageFlushingBuildExecutor on a cachingBuildExecutor on a       *)
(* localBuildExecutor, and a batchedStoreBlobAccess of its own through     *)
(* which outputs are uploaded.  The Content Addressable Storage and the    *)
(* Action Cache are remote and shared; every call to them may fail, blobs  *)
(* may be evicted from the storage, entries of the Action Cache may be     *)
(* damaged or written by clients, and the worker process may die.          *)
(*                                                                         *)
(* What an action does is abstracted to the blobs it yields: its stdout    *)
(* and stderr, output files and trees.  Getting there (fetching action and *)
(* command, acquiring the environment, creating the input root, running    *)
(* the command) is one step that succeeds or fails.                        *)
(***************************************************************************)
EXTENDS Integers, FiniteSets

CONSTANTS
    Threads,      \* -concurrency
    Actions,      \* action digests
    Outputs,      \* action -> blobs that it may yield
    Failure,      \* action -> blob that PutActionFailure stores
    batchSize,    \* 100 in bbb_worker
    MaxRuns,      \* bound: executions started
    MaxErrors,    \* bound: calls of storage and cache that fail
    actionCacheAllowUpdates, \* whether clients may write to the Action Cache
    MaxDisturbances \* bound: blobs evicted, entries damaged or written by
                    \* clients, deaths of the worker process

ASSUME ExecutionAssumption ==
    /\ batchSize \in Nat \ {0}
    /\ MaxRuns \in Nat /\ MaxErrors \in Nat /\ MaxDisturbances \in Nat
    /\ DOMAIN Outputs = Actions /\ DOMAIN Failure = Actions

VARIABLES
    cas,          \* blobs in the Content Addressable Storage
    actionCache,  \* action -> its entry in the Action Cache
    reader,       \* action whose malformed entry a GetActionResult will delete
    pc,           \* thread -> what it is doing
    action,       \* thread -> action it executes
    todo,         \* thread -> outputs that PutFile and PutTree still have to store
    result,       \* thread -> blobs that the ActionResult refers to
    cacheable,    \* thread -> mayBeCached
    response,     \* thread -> "none", "OK" or "error"
    pending,      \* thread -> pendingPutOperations of its batched store
    missing,      \* thread -> what FindMissing returned in the flush that runs
    resume,       \* thread -> where to go on after that flush
    confirmed,    \* history: blobs stored, or found stored, since the thread began
    excused,      \* history: blobs evicted, or lost to a failed Put or a crash
    counts        \* executions, errors and disturbances so far

vars == <<cas, actionCache, reader, excused, pc, action, todo, result, cacheable, response,
          pending, missing, resume, confirmed, counts>>
threadVars == <<action, todo, result, cacheable>>
remoteVars == <<cas, actionCache, reader, excused>>
flushVars == <<missing, resume, confirmed>>

NoAction == "none"

\* An entry written by a worker has the blobs that it refers to.
Entry(kind, blobs) == [kind |-> kind, blobs |-> blobs]
NoEntry == Entry("absent", {})

\* What PutFile, PutTree, PutLog and PutActionFailure store, by digest.
Blobs == (UNION {Outputs[a] : a \in Actions}) \cup {Failure[a] : a \in Actions}

Init ==
    /\ cas = {}
    /\ actionCache = [a \in Actions |-> NoEntry]
    /\ reader = NoAction
    /\ excused = {}
    /\ pc = [t \in Threads |-> "idle"]
    /\ action = [t \in Threads |-> NoAction]
    /\ todo = [t \in Threads |-> {}]
    /\ result = [t \in Threads |-> {}]
    /\ cacheable = [t \in Threads |-> FALSE]
    /\ response = [t \in Threads |-> "none"]
    /\ pending = [t \in Threads |-> {}]
    /\ missing = [t \in Threads |-> {}]
    /\ resume = [t \in Threads |-> "idle"]
    /\ confirmed = [t \in Threads |-> {}]
    /\ counts = [runs |-> 0, errors |-> 0, disturbances |-> 0]

Goto(t, label) == pc' = [pc EXCEPT ![t] = label]

Error == counts.errors < MaxErrors /\ counts' = [counts EXCEPT !.errors = @ + 1]

---------------------------------------------------------------------------
\* subscribeAndExecute receives a request; localBuildExecutor gets as far as
\* running the command, which yields some of the outputs asked for.  The result
\* may be cached if the exit code is zero and the action does not forbid it.
RunCommand(t, a) ==
    /\ pc[t] = "idle" /\ counts.runs < MaxRuns
    /\ counts' = [counts EXCEPT !.runs = @ + 1]
    /\ action' = [action EXCEPT ![t] = a]
    /\ \E outputs \in SUBSET Outputs[a] : todo' = [todo EXCEPT ![t] = outputs]
    /\ \E b \in BOOLEAN : cacheable' = [cacheable EXCEPT ![t] = b]
    /\ result' = [result EXCEPT ![t] = {}]
    /\ response' = [response EXCEPT ![t] = "none"]
    /\ confirmed' = [confirmed EXCEPT ![t] = {}]
    /\ Goto(t, "upload")
    /\ UNCHANGED <<remoteVars, pending, missing, resume>>

\* Anything up to and including the command fails: an error response without a
\* result, which cachingBuildExecutor passes on, and the final flush.
RunCommandFails(t, a) ==
    /\ pc[t] = "idle" /\ counts.runs < MaxRuns
    /\ counts' = [counts EXCEPT !.runs = @ + 1]
    /\ action' = [action EXCEPT ![t] = a]
    /\ todo' = [todo EXCEPT ![t] = {}]
    /\ cacheable' = [cacheable EXCEPT ![t] = FALSE]
    /\ result' = [result EXCEPT ![t] = {}]
    /\ response' = [response EXCEPT ![t] = "error"]
    /\ confirmed' = [confirmed EXCEPT ![t] = {}]
    /\ resume' = [resume EXCEPT ![t] = "respond"]
    /\ Goto(t, "find")
    /\ UNCHANGED <<remoteVars, pending, missing>>

\* Mutation of Full: one operation too many is kept pending.
FullOffByOne(t) == Cardinality(pending[t]) > batchSize

\* batchedStoreBlobAccess.Put has to flush first.
Full(t) == Cardinality(pending[t]) >= batchSize

\* batchedStoreBlobAccess.Put starts a flush before it can take blob b; when it
\* is over the thread goes on where it was.
FlushFirst(t) ==
    /\ Full(t)
    /\ resume' = [resume EXCEPT ![t] = pc[t]]
    /\ Goto(t, "find")
    /\ UNCHANGED <<remoteVars, threadVars, response, pending, missing, confirmed, counts>>

\* Mutation of Enqueue: blobs of different digests are taken for duplicates.
EnqueueMerges(t, b) ==
    /\ ~Full(t)
    /\ pending' = [pending EXCEPT ![t] = IF @ = {} THEN {b} ELSE @]

\* batchedStoreBlobAccess.Put takes blob b; a duplicate is merged.
Enqueue(t, b) ==
    /\ ~Full(t)
    /\ pending' = [pending EXCEPT ![t] = @ \cup {b}]

\* PutFile or PutTree of an output; its digest goes into the ActionResult.
Upload(t, b) ==
    /\ pc[t] = "upload" /\ b \in todo[t]
    /\ \/ FlushFirst(t)
       \/ /\ Enqueue(t, b)
          /\ todo' = [todo EXCEPT ![t] = @ \ {b}]
          /\ result' = [result EXCEPT ![t] = @ \cup {b}]
          /\ UNCHANGED <<remoteVars, pc, action, cacheable, response, flushVars, counts>>

\* An output cannot be read: an error response without a result.
UploadFails(t) ==
    /\ pc[t] = "upload" /\ todo[t] # {}
    /\ Error
    /\ response' = [response EXCEPT ![t] = "error"]
    /\ resume' = [resume EXCEPT ![t] = "respond"]
    /\ Goto(t, "find")
    /\ UNCHANGED <<remoteVars, threadVars, pending, missing, confirmed>>

\* localBuildExecutor returns its result to cachingBuildExecutor.
UploadDone(t) ==
    /\ pc[t] = "upload" /\ todo[t] = {}
    /\ Goto(t, "cache")
    /\ UNCHANGED <<remoteVars, threadVars, response, pending, flushVars, counts>>

\* cachingBuildExecutor returns to storageFlushingBuildExecutor, which flushes.
ReturnToFlush(t, r) ==
    /\ response' = [response EXCEPT ![t] = r]
    /\ resume' = [resume EXCEPT ![t] = "respond"]
    /\ Goto(t, "find")

\* actionCache.PutActionResult of a result that may be cached.
CacheResult(t) ==
    /\ pc[t] = "cache" /\ cacheable[t]
    /\ actionCache' = [actionCache EXCEPT ![action[t]] = Entry("result", result[t])]
    /\ ReturnToFlush(t, "OK")
    /\ UNCHANGED <<cas, reader, excused, threadVars, pending, missing, confirmed, counts>>

\* It fails, the entry having been written or not.
CacheResultFails(t) ==
    /\ pc[t] = "cache" /\ cacheable[t]
    /\ Error
    /\ actionCache' \in {actionCache, [actionCache EXCEPT ![action[t]] = Entry("result", result[t])]}
    /\ ReturnToFlush(t, "error")
    /\ UNCHANGED <<cas, reader, excused, threadVars, pending, missing, confirmed>>

\* The message that cachingBuildExecutor makes of an uncached result.
FailureOf(t) == Failure[action[t]]

\* PutActionFailure of a result that may not be cached.
StoreFailure(t) ==
    /\ pc[t] = "cache" /\ ~cacheable[t]
    /\ \/ FlushFirst(t)
       \/ /\ Enqueue(t, FailureOf(t))
          /\ ReturnToFlush(t, "OK")
          /\ UNCHANGED <<remoteVars, threadVars, missing, confirmed, counts>>

---------------------------------------------------------------------------
\* batchedStoreBlobAccess.flushLocked, call by call.

\* FindMissing of all pending digests.
FlushFind(t) ==
    /\ pc[t] = "find"
    /\ missing' = [missing EXCEPT ![t] = pending[t] \ cas]
    /\ confirmed' = [confirmed EXCEPT ![t] = @ \cup (pending[t] \cap cas)]
    /\ Goto(t, "store")
    /\ UNCHANGED <<remoteVars, threadVars, response, pending, resume, counts>>

\* Put of one of the missing blobs, which is no longer pending.
FlushPut(t, b) ==
    /\ pc[t] = "store" /\ b \in missing[t]
    /\ pending' = [pending EXCEPT ![t] = @ \ {b}]
    /\ missing' = [missing EXCEPT ![t] = @ \ {b}]
    /\ cas' = cas \cup {b}
    /\ confirmed' = [confirmed EXCEPT ![t] = @ \cup {b}]
    /\ UNCHANGED <<actionCache, reader, excused, pc, threadVars, response, resume, counts>>

\* Mutation of StillPending: operations of blobs that were not missing are kept.
StillPendingKept(t) == pending[t]

\* What is pending after a complete flush.
StillPending(t) == {}

\* All missing blobs are stored: the others are discarded.
FlushDone(t) ==
    /\ pc[t] = "store" /\ missing[t] = {}
    /\ pending' = [pending EXCEPT ![t] = StillPending(t)]
    /\ Goto(t, resume[t])
    /\ UNCHANGED <<remoteVars, threadVars, response, flushVars, counts>>

\* Mutation of AfterFlushError: the error of the final flush is ignored.
AfterFlushErrorIgnored(t) ==
    /\ UNCHANGED response
    /\ resume' = [resume EXCEPT ![t] = "respond"]
    /\ Goto(t, IF resume[t] = "respond" THEN "respond" ELSE "find")

\* The flush returns an error.  In the final flush it replaces the response;
\* before, it makes the upload fail, and the final flush is still to come.
AfterFlushError(t) ==
    /\ response' = [response EXCEPT ![t] = "error"]
    /\ resume' = [resume EXCEPT ![t] = "respond"]
    /\ Goto(t, IF resume[t] = "respond" THEN "respond" ELSE "find")

\* FindMissing fails: everything stays pending.
FlushFindFails(t) ==
    /\ pc[t] = "find"
    /\ Error
    /\ AfterFlushError(t)
    /\ UNCHANGED <<remoteVars, threadVars, pending, missing, confirmed>>

\* Put fails: the operation is gone, whether or not the blob was stored; the
\* others stay pending.
FlushPutFails(t, b) ==
    /\ pc[t] = "store" /\ b \in missing[t]
    /\ Error
    /\ pending' = [pending EXCEPT ![t] = @ \ {b}]
    /\ missing' = [missing EXCEPT ![t] = {}]
    /\ cas' \in {cas, cas \cup {b}}
    /\ excused' = excused \cup {b}
    /\ AfterFlushError(t)
    /\ UNCHANGED <<actionCache, reader, threadVars, confirmed>>

\* Execute of thread t is over: its variables are gone, its batched store stays.
Forget(t) ==
    /\ action' = [action EXCEPT ![t] = NoAction]
    /\ todo' = [todo EXCEPT ![t] = {}]
    /\ result' = [result EXCEPT ![t] = {}]
    /\ cacheable' = [cacheable EXCEPT ![t] = FALSE]
    /\ response' = [response EXCEPT ![t] = "none"]
    /\ missing' = [missing EXCEPT ![t] = {}]
    /\ resume' = [resume EXCEPT ![t] = "idle"]
    /\ confirmed' = [confirmed EXCEPT ![t] = {}]

\* stream.Send of the response; the thread waits for its next request.
Respond(t) ==
    /\ pc[t] = "respond"
    /\ Goto(t, "idle")
    /\ Forget(t)
    /\ UNCHANGED <<remoteVars, pending, counts>>

---------------------------------------------------------------------------
\* The Action Cache: blobAccessActionCache and actionCacheServer.  GetActionResult
\* changes nothing unless the entry is malformed.

GetMalformed(a) ==
    /\ reader = NoAction /\ actionCache[a].kind = "malformed"
    /\ reader' = a
    /\ UNCHANGED <<cas, actionCache, excused, pc, threadVars, response, pending, flushVars, counts>>

\* The entry is deleted, whatever it is by now; failure to do so is logged.
DeleteMalformed ==
    /\ reader # NoAction
    /\ actionCache' \in {actionCache, [actionCache EXCEPT ![reader] = NoEntry]}
    /\ reader' = NoAction
    /\ UNCHANGED <<cas, excused, pc, threadVars, response, pending, flushVars, counts>>

Disturb == counts.disturbances < MaxDisturbances /\ counts' = [counts EXCEPT !.disturbances = @ + 1]

\* A client writes an entry of its own.
UpdateActionResult(a) ==
    /\ actionCacheAllowUpdates
    /\ Disturb
    /\ actionCache' = [actionCache EXCEPT ![a] = Entry("foreign", {})]
    /\ UNCHANGED <<cas, reader, excused, pc, threadVars, response, pending, flushVars>>

\* An entry deteriorates.
Corrupt(a) ==
    /\ actionCache[a].kind \in {"result", "foreign"}
    /\ Disturb
    /\ actionCache' = [actionCache EXCEPT ![a] = Entry("malformed", {})]
    /\ UNCHANGED <<cas, reader, excused, pc, threadVars, response, pending, flushVars>>

\* Storage replaces old blobs by new ones.
Evict(b) ==
    /\ b \in cas
    /\ Disturb
    /\ cas' = cas \ {b}
    /\ excused' = excused \cup {b}
    /\ UNCHANGED <<actionCache, reader, pc, threadVars, response, pending, flushVars>>

\* The worker process dies; what its threads had pending is lost, like the rest
\* of its memory.
Crash ==
    /\ Disturb
    /\ pc' = [t \in Threads |-> "idle"]
    /\ action' = [t \in Threads |-> NoAction]
    /\ todo' = [t \in Threads |-> {}]
    /\ result' = [t \in Threads |-> {}]
    /\ cacheable' = [t \in Threads |-> FALSE]
    /\ response' = [t \in Threads |-> "none"]
    /\ pending' = [t \in Threads |-> {}]
    /\ missing' = [t \in Threads |-> {}]
    /\ resume' = [t \in Threads |-> "idle"]
    /\ confirmed' = [t \in Threads |-> {}]
    /\ excused' = excused \cup UNION {pending[t] : t \in Threads}
    /\ UNCHANGED <<cas, actionCache, reader>>

ThreadNext(t) ==
    \/ \E b \in Blobs : Upload(t, b) \/ FlushPut(t, b) \/ FlushPutFails(t, b)
    \/ UploadFails(t) \/ UploadDone(t)
    \/ CacheResult(t) \/ CacheResultFails(t) \/ StoreFailure(t)
    \/ FlushFind(t) \/ FlushFindFails(t) \/ FlushDone(t)
    \/ Respond(t)

Next ==
    \/ \E t \in Threads :
          \/ \E a \in Actions : RunCommand(t, a) \/ RunCommandFails(t, a)
          \/ ThreadNext(t)
    \/ \E a \in Actions : GetMalformed(a) \/ UpdateActionResult(a) \/ Corrupt(a)
    \/ DeleteMalformed
    \/ \E b \in Blobs : Evict(b)
    \/ Crash

Spec == Init /\ [][Next]_vars

\* Threads keep running and storage answers, if only with errors.
FairSpec == Spec /\ \A t \in Threads : WF_vars(ThreadNext(t))

---------------------------------------------------------------------------
\* A successful response is only sent when every blob that its result refers to
\* has been stored, or been found in storage, during this very execution, and
\* nothing is pending: neither the merging of duplicate writes, nor what an
\* earlier execution left pending, nor failures half-way through a flush get in
\* between.
SuccessMeansStored ==
    \A t \in Threads : pc[t] = "respond" /\ response[t] = "OK" =>
        result[t] \subseteq confirmed[t] /\ pending[t] = {}

\* A thread never has more than batchSize pending operations, each of which
\* holds a file open, also when flushes fail and operations are left behind.
PendingBounded == \A t \in Threads : Cardinality(pending[t]) <= batchSize

\* Entries that workers write to the Action Cache refer to blobs that are in
\* storage or will be: since cachingBuildExecutor writes the entry before
\* storageFlushingBuildExecutor flushes, and an entry outlives the execution that
\* wrote it, some blobs may still be pending in a thread, or be gone because a
\* Put failed, the worker died or storage evicted them; but there is no other
\* way to an entry that promises what nobody has.
CacheEntriesBacked ==
    \A a \in Actions : actionCache[a].kind = "result" =>
        actionCache[a].blobs \subseteq cas \cup excused \cup UNION {pending[t] : t \in Threads}

\* Every execution comes to an end.
ExecutionsEnd == \A t \in Threads : pc[t] # "idle" ~> pc[t] = "idle"
===========================================================================
