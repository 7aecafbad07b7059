# TLA+ models of Bazel Buildbarn

This directory holds TLA+ models of the core of Bazel Buildbarn, the TLC
configurations that check them on small instances, and TLAPS proofs of the
most important results for every instance. `PROJECT.json` is the machine-readable
index: which definition models which lines, which run checks which property,
which hazard of the code a property is aimed at.

    tlc -workers 2 -config queue_safety.cfg MCWorkerBuildQueue
    tlapm WorkerBuildQueueProofs.tla

## 1. Inventory

A Buildbarn cluster consists of `bbb_frontend` (receives RPCs of Bazel),
`bbb_scheduler` (queues build actions), `bbb_worker` (fetches and runs them,
through `bbb_runner`), `bbb_storage` (keeps blobs) and `bbb_browser`.

| Component | State | Operations | Hard behaviour |
|---|---|---|---|
| Build queue of the scheduler (`pkg/builder/worker_build_queue.go`) | jobs by name, jobs by action, heap of pending jobs, one mutex, one condition variable for workers and one per job | `Execute`, `WaitExecution`, `GetWork` | lock dropped while a worker executes; lost wakeups; streams of workers that break or are half-closed; requests for the same action joining one job |
| Build queue of the frontend (`demultiplexing_build_queue.go`, `forwarding_build_queue.go`) | none but the relayed calls | `Execute`, `WaitExecution`, relay loop | names rewritten in both directions; a scheduler that dies mid-stream |
| State store of circular storage (`pkg/blobstore/circular/*state_store.go`, `cursors.go`) | read and write cursor in memory and in a file, write cursor of the bulk allocator | `Allocate`, `Invalidate`, restart | unsigned overflow, chunk rounding, failed writes, restarts |
| Offset store (`file_offset_store.go`, `caching_offset_store.go`) | hash table in a file, cache in memory | `Get`, `Put` | displacement of records, out-of-order `Put`, leftovers in slots |
| Circular storage (`circular_blob_access.go`, `file_data_store.go`, `merkle_blob_access.go`) | the two stores above, the data file | `Get`, `Put`, `Delete`, `FindMissing` | data is read and written without the lock; space is reused at any time |
| Execution on workers (`local_`, `caching_`, `storage_flushing_build_executor.go`, `batched_store_blob_access.go`) | pending uploads per thread; remote storage and Action Cache | `Execute`, `Put`, `flush` | every remote call may fail half-way; what a failed flush leaves is flushed by the next action |
| Environments (`pkg/environment`) | reference counts, a channel with the one environment, directories on disk | `Acquire`, `Run`, `Release` | shared by concurrent actions; cleaning at the right moment; error paths |
| Read caches of workers (`hardlinking_`, `directory_caching_…`) | files on disk, sizes | `GetFile`, `GetDirectory` | eviction concurrent with linking |
| ByteStream and CAS services (`pkg/cas/byte_stream_server.go`, `content_addressable_storage_server.go`) | per stream: write offset, whether the write is finished | `Read`, `Write`, `FindMissingBlobs` | streams that break, are left open or end early; uploads that go on after their client has given up |
| Clients of remote storage (`content_addressable_storage_`, `redis_`, `s3_`, `remote_blob_access.go`, `merkle_blob_access.go`) | none but the calls | `Get`, `Put`, `FindMissing`, `Delete` | confirmations that get lost; bad blobs deleted by digest |
| Routing (`sharding/*`, `size_distinguishing_blob_access.go`) | none | choice of a backend, fan-out of `FindMissing` | drained shards; one of several backends failing |
| Action Cache (`pkg/ac/*`, `action_cache_blob_access.go`) | entries in storage | `GetActionResult`, `UpdateActionResult`, `PutActionResult` | malformed entries deleted after they were read; entries that refer to blobs that are not stored |
| Browser, metrics, error backend, digests | none | | see section 7 |

Interactions: Bazel calls the frontend, which relays `Execute` and
`WaitExecution` to a scheduler chosen by instance name. A worker thread opens a
`GetWork` stream to its scheduler and answers requests one at a time. It
acquires an environment, fills a directory with inputs, asks the runner process to run
the command, uploads outputs through a batching store and updates the Action
Cache. Storage is a stack of `BlobAccess` adapters, here the circular backend
below checksum validation.

What makes each correct: no job is lost, duplicated or left waiting and every
caller gets the right answer (queue); names lead back and broken streams are
not taken for success (frontend); cursors stay in order, valid data never
overlaps and dead data stays dead (state store); lookups are true and find the
newest (offset store); only complete, intact blobs are found (circular
storage); success means that all outputs are stored (execution); every action
has a directory to itself and nothing is cleaned while in use (environments);
cached files are right, accounted for and not evicted while in use (read
caches); answers about blobs are true however many adapters and servers are in
between (remote storage); entries promise only what is stored, or will be
unless something fails (Action Cache).

## 2. Modules

| Module | Models | Composes |
|---|---|---|
| `JobService` | abstract: what the scheduler promises its clients | |
| `WorkerBuildQueue` | scheduler | implements `JobService` |
| `WorkerBuildQueueProofs` | proofs about it | `WorkerBuildQueue` |
| `FrontendBuildQueue` | frontend; schedulers abstracted to what their streams deliver | |
| `FrontendBuildQueueProofs` | proofs about it | `FrontendBuildQueue` |
| `Cursors` | cursor arithmetic as operators | |
| `CircularStateStore` | the stack of state stores, state file included | `Cursors` |
| `CircularStateStoreProofs` | proofs about it | `CircularStateStore` |
| `OffsetTable` | hash table and cache as operators | `Cursors` |
| `FileOffsetStore` | the offset store driven by uploads in any order | `OffsetTable` |
| `FifoStore` | abstract: circular storage as a log of copies | |
| `CircularBlobAccess` | the whole backend with concurrent calls | `OffsetTable`, `Cursors`, implements `FifoStore` |
| `CircularBlobAccessProofs` | proofs about it and about the offset store | `CircularBlobAccess`, `FileOffsetStore` |
| `ActionExecution` | executors and batching store of a worker's threads, Action Cache | |
| `ActionExecutionProofs` | proofs about it | `ActionExecution` |
| `BlobStore` | abstract: what users of the Content Addressable Storage may rely on | |
| `StorageRouting` | choice of a backend by size and shard, as operators | |
| `RemoteStorage` | clients, ByteStream and CAS services around the stores | `StorageRouting`, implements `BlobStore` |
| `RemoteStorageProofs` | proofs about it | `RemoteStorage` |
| `EnvironmentManager` | environments of a worker and its runner | |
| `EnvironmentManagerProofs` | proofs about it | `EnvironmentManager` |
| `ReadCaches` | hardlinking cache and directory cache of a worker | |
| `ReadCachesProofs` | proofs about it | `ReadCaches` |
| `MC…` | instances for TLC | |

Definitions whose comment begins with "Mutation of" are plausible bugs of the
definition that follows. They are used by nothing; substituting one for the
definition makes TLC report the property named in `PROJECT.json`.

### WorkerBuildQueue

`jobsNameMap` is the sequence of all jobs in insertion order; a job's index
stands for its UUID and its `insertionOrder`. `jobsDeduplicationMap` and
`jobsPending` hold indices. `jobsLock` says who holds the mutex *between* steps:
only calls in `waitExecution`, which send with the lock held, and goroutines of `GetWork` keep
it over several steps. A goroutine asleep in `Wait` has state `sleeping` or
`waiting`; `Signal` picks any sleeper, `Broadcast` wakes all callers of a job, and the
woken have to get the lock again. Clients can call `Execute` and `WaitExecution`
at any time, with a key and priority; their streams may fail. A worker's stream may be
cancelled, or half-closed, which is what `subscribeAndExecute` does when it
leaves with `CloseSend`: the context stays free of errors and `Recv` fails.

`JobService` is the same service without locks, wakeups, heap, map of keys and
workers: a list of jobs, each worked on once and in order of priority, at most
one live job per action, a limit on the jobs that wait, and calls that follow a job to its
end. A request is declined for the limit only if no live job exists that it could
join. `ImplementsService` is the refinement: `jobsNameMap` maps to the list,
the operations sent to the reports, and locking, sleeping and waking to
stuttering.

### FrontendBuildQueue

Names are sequences of components, split where the code splits at the first
`|`. Each backend scheduler has a set of jobs that a restart empties, and every
relayed call a pipe of operations that ends in `EOF` or an error.

### Cursors, CircularStateStore

All offsets are taken modulo `Width` (2^64 in the code). `allocations` is a
history of what was handed out. `limit` is a history flag: the counters have
come so close to `Width` that `Read + dataSize` wraps around, or the write cursor
has wrapped. From then on `Contains` itself may wrap and the properties about
data are no longer claimed; the order of the cursors, which `put` guards by
`log.Fatal`, is claimed and proved regardless.
A write that fails may or may not have reached the file.

### OffsetTable, FileOffsetStore

The hash is a constant function of digest and attempt, so that a configuration
can choose collisions, among them a digest that visits the same slot twice and
the record of zeroes that unwritten slots read as, which counts as valid while
offset 0 is within the cursors. `Get` considers one attempt fewer than `Put`
stores, as in the code. The table and the cursors are the variables that `FileOffsetStore` shares with
`CircularBlobAccess`; in `OffsetStoreSpec`, uploads are allocated in order and stored in any order. `puts` is a
history of what was stored, `late` of what was stored after a newer blob with the same digest,
`demoted` of the slots in which a record gave way to an older one. Two facts about the code that the model shows, and that the properties allow for:

- A record in the last of its slots is overwritten by any other, also by an older one. If a newer
  upload of a digest was stored first and pushed on to its last slot, an older upload that is stored
  later may take its place, or be found in front of it: `NewestFirst` exempts what is in `late`.
  The older record also expires earlier, and `Get` stops at a slot whose record has expired: records of
  other digests behind it, which are still in the table and whose data is still valid, are then not found.
  `HiddenExplained` says that this is the only way for a record to be hidden, but for those in the
  last of their slots, where `Get` does not look.
- A slot that was never written reads as a record with offset 0. The blob at offset 0 ties with it,
  and where their slots collide the two displace each other: `LastBlobFound` is about
  offsets above 0. Blobs that are displaced out of the table are absent and uploaded again.

### CircularBlobAccess

A `Put` is allocation (locked), writes of some bytes each (unlocked),
publication (locked). A `Get` is a lookup (locked), reads (unlocked) and the verdict
of the checksum. A byte of the data file is a pair of digest and position, so a
checksum matches exactly when every byte read is the blob's own. A reader whose checksum fails deletes
by digest, whichever record the digest has by then. Reads stop at
the end of the file; writes do not, as in the code.

`FifoStore` is the same backend without files, tables, cache, cursors, chunks and bytes: a log in which an
upload gets a position when it begins and leaves a copy when it is complete. Copies are given
up oldest first: as many as are needed for an upload (and at most the rest of a chunk more), or a bad
copy together with what is older. Only copies are found, and a crash loses the calls and no
copy. `ImplementsFifo` is the refinement: what was written and is between the cursors maps to the copies, the
read cursor to the horizon. It says what is retained; `DamageExplained` says in which condition.
A lookup of `FifoStore` may miss a copy, as displaced records are; `HiddenExplained`
and `LastBlobFound` are about that.

### ActionExecution

Fetching inputs and running the command is one step with any subset of the
possible outputs, any cacheability, or failure. Uploads, flushes (`FindMissing`,
then one `Put` per missing blob), the Action Cache update and the response are
steps of their own; each remote call may fail, with or without having taken
effect, any blob may be evicted, and the process may die.

The Action Cache maps actions to entries: absent, malformed, written by a worker
(with the blobs referred to) or by a client, which `actionCacheAllowUpdates`
permits or not. `GetActionResult` only matters when it meets a malformed entry:
it deletes by digest in a later step, maybe an entry that a worker has written
meanwhile. The variable `excused` is a history of the blobs that were evicted, or lost to a
failed `Put` or a crash.

### StorageRouting, RemoteStorage, BlobStore

`StorageRouting` computes the backend of a digest: small or large by the size in
the digest, then the first undrained shard of a pseudo-random sequence, found by
cumulative weights. The sequence is a constant.

In `RemoteStorage` a blob is a sequence of pieces, and a checksum matches exactly
when the pieces are those of the digest. A backend is `grpc` (a `bbb_storage`
process behind streams), `direct` (Redis or S3) or `remote` (an HTTP cache). A
stream has the messages in flight in each direction, whether it was half-closed,
the server's final status, and whether it is broken. The handler on the server
goes on by itself when its client has left. Faults: streams break and
lose the answer at their end, readers fail, calls to stores fail before or after
taking effect, stores lose and damage blobs, readers are closed early, and Bazel
sends any of a set of messages in any order. Facts about the code that the model shows:

- `Send` on a stream that the server has ended fails; the status that the server
  gave is not asked for.
- A `Put` whose reader fails returns and leaves its stream as it is, and
  `byteStreamBlobReader.Close` does nothing. The handler is then stuck until the context of the
  caller ends (`ContextDone`). Calls of the frontend have the context of a request that ends with them
  (`OwnContext`); calls of the worker have that of its GetWork stream, which goes on. `StreamsEnd`
  says that handlers end, but for those that a failed call of the worker leaves blocked.
- `remoteBlobAccess.Put` does not look at the status of the answer, and
  the bytes are sent before the checksum is known: of a source that is too long, the first
  bytes, as many as the digest says. `Unconfirmed` lets a `Put` of a digest that is routed to an HTTP cache
  report success whatever the cache holds then; what later calls say of it has to be true all the same.
- `discardBadBlob` deletes by digest, whatever is there by then: a good copy that was uploaded since
  the reader looked is lost.

`BlobStore` is a lossy map: a `Put` succeeds only after its blob was stored, a
`Get` only with the blob that was there during the call, `NotFound` and the
answer of `FindMissing` are true of a moment during the call (of each digest, one
by one), nothing but the blob of a digest is ever stored for it, and an upload
that was given up may still be stored later. Blobs of the digests in `Vanishing` may get lost at any time; others
only while a reader is in progress that has found them damaged (`doubts`), which is how far a late
delete may reach. `Implements` is the refinement. In the mapping, an operation
is in progress while its client side is; `uploads` also has those that only a
server still works on, and `doubts` are the digests of handlers and clients that hold a blob
whose checksum is wrong.

### EnvironmentManager

The stack of managers of `bbb_worker` and that of `bbb_runner` started with a temporary
directory. Both have a `concurrentManager` on a `singletonManager`, so reference counting
is written once with the process as a parameter. Files are identified by
the execution that wrote them; 0 stands for files from before the processes started.
Directory operations fail at any point, partially where the code's are not
atomic.

### ReadCaches

All threads of a worker share both caches. `readers` and `writer` are the lock
of the hardlinking cache; a hit keeps the read lock until it is linked, an
insertion keeps the write lock through all removals of `makeSpace`. The books
(`filesPresentList`, `filesPresentSize`, `filesPresentTotalSize`) and the
directory on disk are separate variables. A file's content is its digest and
mode, so serving the wrong one is visible. Every call to the file system or to storage may fail at
any time, and the process may be restarted; no bound is needed.

## 3. Runs

Passing runs:

| Run | Checks | Bounds and why they suffice |
|---|---|---|
| `queue_safety` | deduplication, conservation of jobs, wakeups, broadcasts, what clients see, priority order, refinement of `JobService` | 2 clients, 2 workers, 3 actions of 2 priorities, 2 jobs, queue limit 2, 2 broken streams: two calls can join, one action can come back after completion, jobs of both priorities wait together, a third request is refused, one worker can sleep while another is woken for it |
| `queue_liveness` | calls return, jobs complete | 2 clients on 1 job, 2 workers whose streams may both break |
| `frontend_relay` | names, OK only when done, relayed calls return | 2 schedulers, one restart, 4 instance names, among them one with a separator and an unknown one |
| `state_store` | order and size of the window, disjointness, dead data | width 20 so that counters overflow within 5 allocations; file of 5, chunks of 2 (neither divides the other); sizes 0, 2, 3, 6; 2 faults |
| `offset_store` | lookups true, newest first, nothing hidden without a cause, last blob found | 3 digests in 4 slots, 3 attempts, allocations up to offset 6 in a file of 6, one failing write: the last slots of one digest are the first of the others, one digest visits a slot twice, and the record of zeroes collides with another |
| `circular_concurrent` | only complete uploads are found, found blobs are intact but for explained damage, readers, refinement of `FifoStore` | two writers, a reader, a restart, allocations up to offset 5 and beyond in a file of 3: an upload can outlive a turn of the file, blobs of two bytes straddle its end |
| `execution` | success means stored, cache entries backed, bound on pending uploads, executions end | two threads with a common output, batches of 2, two executions, an error, and a disturbance (an eviction, a damaged or foreign cache entry, or a crash): leftovers of a failed flush meet the next execution |
| `remote_storage` | refinement of `BlobStore`, our uploads are never protocol errors, calls and their handlers end | an empty blob behind Redis, a blob of two pieces behind gRPC, one behind HTTP, drained shards before two of them; a call of the worker that puts or asks what is missing, one of the frontend that gets or is an upload by Bazel; a piece per chunk and one message in flight per direction, so that both sides have to wait for each other; only the HTTP cache loses blobs by itself; other faults unbounded |
| `environment` | reference counts, own directory, temporary files, executions end | 2 threads, 2 digests, 4 executions, one failure |
| `read_caches` | books match the disk, no call fails because of another, right content, limits, calls end | 2 threads, 4 files in a cache of 2, one of them larger than the cache, 2 directories in a cache of 1; failures and restarts unbounded |

Deadlock checking is on for the scheduler and the read caches, where somebody can always do
something: it shows that nobody blocks everybody else. It is off
where bounds on executions or allocations end the behaviours.

Runs in which the code departs from what its comments say (`PROJECT.json`,
`findings`):

- `frontend_wait`: `WaitExecution` prepares a request with the prefix removed
  and forwards the original one. The scheduler answers NotFound. As a
  consequence the branch of `WaitExecution` that relays operations is never
  taken, in the model as in the code.
- `circular_wrap`: `fileDataStore.Put` computes how much fits before the end of
  the file and does not use it.

One more departure is not a run of its own: `storage_flushing_build_executor.go:15-18`
says that the flush ensures "that other processes in the cluster have a
consistent view of the completion of the operation", but `cachingBuildExecutor`
below it has written the Action Cache entry by then, and the entry stays when
the flush fails. `CacheEntriesBacked` states what does hold: blobs of an entry
are stored, pending in a thread, or lost in one of the ways that `excused` records.

`circular_concurrent` states what the concurrent backend still promises. The
history variable `clobbered` holds the positions of the data file that were
last written by an upload whose space had been reused meanwhile.
`DamageExplained` says that a blob that can be found differs from what was
uploaded only there, or in bytes beyond the end of the file (`circular_wrap`);
`ReadersSeeTheirBlob` that a reader gets a wrong checksum for these reasons or
because its space was reused after the lookup. Checksum validation keeps wrong
data from clients in every case; the blob, and with it the older ones, is lost.

## 4. Fairness

Runs of safety properties alone use `Spec`, without fairness; the others use `FairSpec`:

- `WorkerBuildQueue`: goroutines that can take a step take it in the end; the Go
  mutex hands itself to waiters that starve (strong fairness where the lock is
  wanted). A worker given a job answers, or its stream fails: the code has no timeout (see the
  TODO in `executeOnWorker`). Workers that lost their stream reconnect, which
  `bbb_worker` does every three seconds for ever. Streams need not break and
  clients need not call.
- `FrontendBuildQueue`: the relay loop runs, and schedulers keep the promise
  that `queue_liveness` checks.
- `RemoteStorage`: both sides of a call go on when they can, and stores answer, if only with errors. The
  context of a call of the frontend ends: grpc-go cancels it when the handler that made the
  call returns. Nothing is assumed of the context of the worker, nor that a stream ever breaks, and the
  fairness is joint: of client, handler and context of a call, one goes on if any can. Whoever is stuck
  in `Send`, `Recv` or `CloseAndRecv` is therefore seen.
- `ActionExecution`: threads run, and storage answers, if only with errors.
- `ReadCaches`: file system and storage answer; `sync.RWMutex` lets a waiting writer in before new readers
  (strong fairness for taking it).
- `EnvironmentManager`: threads run, file operations return, commands end, the mutex is fair.

## 5. Proofs

`WorkerBuildQueueProofs` proves, for any sets of clients, workers and keys and any
bounds, type correctness, `DeduplicationExact`, `JobsConserved`,
`NoLostBroadcast`, `ExecutionsDistinct`, `NoLostWakeup`, `NoOvertaking`,
`OperationsAreNews`, and that the queue implements
`JobService` (`QueueImplementsService`). `TypeOK` and `ExecutionsDistinct` (no action is executed by two workers
at a time, a consequence of `DeduplicationExact` and `JobsConserved`) are theorems only; the others are
checked by `queue_safety` too. None of them is inductive by itself. `QueueInvariant` adds

- `LockDiscipline`: who holds the lock between steps, and that a caller that is
  sending holds it. Without it a client could go to sleep after the broadcast.
- `ClientsHaveJobs` and `WorkersHaveJobs`: calls and goroutines refer to jobs
  that exist, and a goroutine that executes has a job in stage EXECUTING that no other has.
- `ResponsesMarkCompletion`: a job has a response exactly when it is COMPLETED.

`NoLostWakeup` counts: it compares the number of pending jobs with the number of
goroutines on their way to the heap. Its proof is separate, from the invariant
and facts on cardinalities of finite sets: `Execute` adds one job and, if
anybody sleeps, one goroutine; extraction removes one of each; a goroutine only
goes to sleep when nothing is pending; one that leaves passes its signal on.

`NoOvertaking` follows from what the heap extracts and from jobs never changing their
place in the order. `OperationsAreNews` needs the strengthening `News`: a call that has
sent an operation and is about to send again does so because its job has
completed since, and (`CompletedStay`) a completed job is never touched again, so that
what is sent then differs from what was sent before.

The refinement is proved action by action on top of the invariant: creation of a
job is `Submit`, because the deduplication map is exact; extraction is `Start`,
because the heap holds exactly the queued jobs and the extracted one is its least; completion
is `Finish`; sending is `Report`; everything about locks, sleep and streams of workers is a stutter.

`CircularStateStoreProofs` proves type correctness, `WindowFits`,
`ValidDataDisjoint` and the action property `DeadDataStaysDead` for any width,
file size, chunk size and blob sizes (small enough that size, file and two
chunks fit in the width, and the file is at most half of it). The
invariant says that cursors are ordered, always; and until `limit`, `Placed`: the
state file is never behind the copy in memory, both windows fit the file, every
allocation ends at or below both write cursors, and allocations are pairwise disjoint as
ranges of offsets. The first is what makes a restart after a failed write harmless. That disjoint ranges
within one window are disjoint modulo the file size is `ModDistinct`, from
division with remainder.

`ActionExecutionProofs` proves `SuccessMeansStored`, `CacheEntriesBacked` and
`PendingBounded` for any threads, actions, outputs and batch size. Its
`ExecutionInvariant` follows a blob through the batching store of a thread: as long as nothing
has failed, every blob of the result is confirmed or pending (`ResultsKept`); during
a flush, what does not have to be stored is confirmed (`FlushKnows`); what is confirmed is in
storage or was evicted (`ConfirmedStored`); and the caching executor has not
spoken while outputs are still being uploaded (`NoResponseYet`). Success is
answered when the batch is empty, so nothing of the result is left pending.

`EnvironmentManagerProofs` proves `RefcountExact`, `OwnSubdirectory` and `TempFilesStay`
for any threads and any number of executions. `ManagerInvariant` says who holds the lock of a
`concurrentManager`, that the counter is the number of the threads that have acquired and
not yet released (a cardinality, so each step adds or removes one member), and that the channel
of the `singletonManager` has its element exactly when nobody has. On top of it
`DirectoryInvariant` follows the build directory: only the thread that found the counter at
zero cleans, so whatever is in a subdirectory during an execution was put there by it.

`FrontendBuildQueueProofs` proves `NamesLeadBack` and `OKMeansDone` for any instances, clients
and schedulers. Every operation on its way or received carries the name that its scheduler
gave, behind exactly one prefix; streams deliver in order, so that what ends with
`EOF` ends after the operation that was done.

`ReadCachesProofs` proves `BooksExact`, `FailuresHaveCauses`, `SuccessIsRight` and `CachesBounded` for
any threads, digests, sizes and limits. `CacheInvariant` has the lock discipline (a
writer excludes readers and other writers), the state of the books in the middle of
`makeSpace`, and the content of the files on disk. The total size is a sum over a set that
changes, and there is no induction to reason about sums; the proof counts instead: a
digest of size n stands for n pairs, the sum is the number of pairs, and that the two agree
follows by taking a smallest set for which they would not.

`RemoteStorageProofs` proves that `RemoteStorage` implements `BlobStore`
(`RemoteImplementsBlobStore`) for any clients, digests, backends and routing, and
`ClientSpeaksProtocol`. The first rests on `RemoteInvariant`: a stream serves the call
that opened it, even after the client side has left it (`StreamServesCall`), and what a
client has learned about its blob was true at a moment since its call began
(`SeenIsTold`). Each action is then shown to be a step of `BlobStore` or a stutter; a call to a store
that takes effect is the step, and the message that reports it is
one only when the client hears it. That `doubts` grow only with digests that are damaged at the time
(`DoubtsStep`) needs, of every handler and client that holds a blob, that it read it from the store in one step,
and of those that already held one that they keep it. The second needs `ProtocolInvariant`: the requests
still in flight continue, piece by piece, where the handler stands (`InStep`), only the last
of them finishes the write, and a client half-closes only after that one.

`NoCircularWaitEver` proves the safety part of `StreamsEnd`: of a client that
is blocked in `Send`, `Recv` or `CloseAndRecv` the handler is there and is not blocked itself, for any blobs, chunk sizes and
windows. Its `AttendedInvariant` says of every
call that has a stream: until the stream has a status its handler is at work, also after the stream
broke, and a client that waits for the end of its upload has half-closed. Together with `RemoteInvariant`, by which handler and
call are of the same kind, a client that is blocked waits for a handler that has a request
or a half-close to receive, or room to send.

`CircularBlobAccessProofs` proves the properties of the offset store and of circular storage
as a whole, for any digests, sizes, hash function, number of slots and of attempts (at least two), data file,
chunks, concurrent calls and restarts. Both specifications bound allocation by `MaxWrite`; the
assumption is that offsets below it stay clear of `Width` (2^64 bytes in the code;
`CircularStateStoreProofs` is about what happens there).

The loop of `fileOffsetStore.Put` is a recursive function of the number of rounds. What every round
preserves holds after all of them (`Rounds`, `UpTo`: a smallest round that broke it would have
a predecessor that did not). `OffsetInvariant` has: every record of the table is of
a blob that was stored, or reads as zeroes (`EntriesPut`); blobs are below the write cursor, at
different offsets (`BlobsAllocated`); of two records of a digest the one that is looked at
first is the newer, or it was overtaken (`Sorted`); and the newest blob is in the first of its slots
(`NewestInPlace`), as only a newer one could displace it. From these `FoundIsTrue`, `NewestFirst` and
`LastBlobFound` follow. `HiddenExplained` needs `Paths` besides: in every slot that a lookup visits before
it gets to a record there is one that is at least as new, hence valid as long, or the slot is in
`demoted`. A round of `Put` keeps this, as it overwrites a record only by a newer one, or if it
has expired and is older than all that is valid, or if it was in the last of its slots; and a
record that is pushed on leaves a newer one behind. The two specifications share the table, the cursors and their operators, so that one set of lemmas
about `PutRecord` serves both.

`StorageInvariant` says of circular storage: calls are no further than the size of
their blob, and readers hold an offset that was written (`CallsOK`); table and cache name only
blobs whose data was written (`EntriesWritten`); the spaces that were handed out are below both write cursors and have no
offset in common (`SpaceApart`); and what is valid, uploads in progress up to
where they are, is in the data file but for damage (`DataSound`). The step that matters is
`PutWrite`, which runs without the lock: if the space of the upload is still valid it lies in one window of at most
the file's size with all other valid spaces, so that distinct offsets are distinct places of the file
(`PositionsApart`); if it is not, whatever the step overwrites is recorded as `clobbered`.

`CircularImplementsFifo` is the refinement of `FifoStore`, proved action by action on `StorageInvariant`.
Allocation is `BeginUpload`: the arithmetic of both state stores gives a position at or above all
that was handed out, and moves the read cursor only if the new end would not fit otherwise, by less
than a chunk too much. Publication is `Publish`, a lookup that finds something is `Find` because tables name only what was
written, a discard is `Discard` of the copy that is found then, a restart is `Crash`; reads and writes
of bytes are stutters.

The assumptions on constants are `ASSUME`s of the modules, evaluated by TLC in
every run. The conjuncts of the invariants were checked by TLC before they were proved.

Only model-checked: liveness (`CallsReturn`, `JobsComplete`, `RelayedCallsReturn`, `ExecutionsEnd` of
both modules, `CallsEnd`, `StreamsEnd`), which needs fairness and is out of the
prover's reach. Of `StreamsEnd` the part that says that nobody waits for somebody who waits for him is proved
(`NoCircularWaitEver`). Every other property of the passing runs is a theorem.

## 6. Plan

1. Scheduler, frontend, circular storage, worker execution, Action Cache,
   environments, read caches, remote storage with its services and routing: done, as above.
2. Abstractions: the job service, the blob store and the log of copies: done. `CircularBlobAccess` is shown against
   `FifoStore` and not against `BlobStore`: a lookup of it may miss a copy that is there, one step may give up
   copies of several digests, and a digest may be found damaged and later, when the
   cache or a newer copy answers, intact. None of this is a step of `BlobStore`, whose contents
   deteriorate one digest at a time. The stores of `RemoteStorage` stay maps that lose blobs.
   Left: the scheduler composed with `ActionExecution`.
3. Proofs: all safety properties of the passing runs: done.

## 7. Not modelled

- `GetCapabilities`, metrics, logging, URLs and messages in responses: no effect
  on state.
- Per-instance offset stores: independent copies of the one modelled.
- Existence preconditions, metrics and the error backend: a translation of codes, or none.
- The browser, system calls of local directories, and the parsing and formatting of digests and resource names.
- Reads that return no bytes and no error: zero-length chunks in the middle of a
  stream are left out, on either side.
- Calls that the services answer with Unimplemented (`BatchReadBlobs`,
  `BatchUpdateBlobs`, `GetTree`, `QueryWriteStatus`), and partial downloads.
- Torn records in the offset file: a record is written by one `WriteAt`.
- Flow control: `waitExecution` sends with the scheduler's lock held. A
  client that stops reading would block everybody; in the model `Send` returns
  or fails.
- Redis and S3 lookups of several digests fail as a whole or not at all; which
  digest failed is not told apart.
- A connection between worker and runner that breaks while the command runs, so that
  `remoteExecutionEnvironment.Run` returns before the command ends: the call is synchronous in the model.
- In `CircularBlobAccess`, a write of the state file that fails after it reached the file, and a `Put` of the offset
  store that fails half-way: `CircularStateStore` and `FileOffsetStore` have these, each in its own module.
- Purging of jobs and timeouts, which the code does not have.
