------------------------ MODULE CircularBlobAccess ------------------------
(***************************************************************************)
(* The circular storage backend as bbb_storage runs it for the Content     *)
(* Addressable Storage: merkleBlobAccess on circularBlobAccess, with its   *)
(* offset store (OffsetTable), its state store (Cursors) and its data      *)
(* store.  Calls of Put and Get run concurrently; a lock protects offset   *)
(* and state store, but data is read and written without it.  The process  *)
(* may be restarted at any time; its three files survive.                  *)
(*                                                                         *)
(* Byte i of the blob with digest d is the pair <<d, i>>, so the checksum  *)
(* of merkleBlobAccess is right if and only if every byte is.              *)
(***************************************************************************)
EXTENDS OffsetTable, FiniteSets

CONSTANTS
    Putters,     \* goroutines that serve Put
    Getters,     \* goroutines that serve Get
    BufferSize,  \* bytes moved by one Read and WriteAt (65536 in the code)
    MaxRestarts  \* bound: restarts

ASSUME BlobAccessAssumption ==
    BufferSize \in Nat \ {0} /\ MaxRestarts \in Nat

VARIABLES
    writeCursor,  \* state store: write cursor of the bulk allocator
    cache,        \* offset store: cache in front of the table
    data,         \* data file: position -> byte
    put, get,     \* the calls in progress
    written,      \* history: blobs whose data was written completely
    clobbered,    \* history: positions last written by a stale Put
    restarts

vars == <<cursors, writeCursor, table, cache, data, put, get, written, clobbered, restarts>>

Junk == <<NoDigest, 0>>

Idle == [state |-> "idle"]

Init ==
    /\ cursors = [Read |-> 0, Write |-> 0]
    /\ writeCursor = Width - 1
    /\ table = EmptyTable
    /\ cache = EmptyCache
    /\ data = [i \in 0 .. dataSize - 1 |-> Junk]
    /\ put = [p \in Putters |-> Idle]
    /\ get = [g \in Getters |-> Idle]
    /\ written = {}
    /\ clobbered = {}
    /\ restarts = 0

\* offsetStore.Get under the lock.
Lookup(d) == CachedGet(cache, table, cursors, d)

---------------------------------------------------------------------------
\* Put: stateStore.Allocate, under the lock.  The client may turn out to send
\* data that does not match the digest (good = FALSE).
PutAllocate(p, d, good) ==
    /\ put[p].state = "idle"
    /\ cursors.Write < MaxWrite
    /\ LET size == Positive(SizeBytes[d])
       IN  /\ cursors' = BulkCursors(cursors, writeCursor, size)
           /\ writeCursor' = BulkWriteCursor(cursors, writeCursor, size)
           /\ put' = [put EXCEPT ![p] = [state |-> "writing", digest |-> d,
                 offset |-> BulkOffset(cursors, writeCursor), done |-> 0, good |-> good]]
    /\ UNCHANGED <<table, cache, data, get, written, clobbered, restarts>>

\* fileDataStore.Put: the positions that one round of its loop writes, n bytes
\* at offset modulo the file size.  The buffer is not limited to copyLength:
\* bytes beyond the end of the file are written there, where nothing ever
\* reads them.
WritePositions(offset, done, n) ==
    LET writeOffset == (offset + done) % dataSize
    IN  (writeOffset .. writeOffset + n - 1) \cap DOMAIN data

\* The data file after that round.
Written(d, offset, done, n, good) ==
    LET writeOffset == (offset + done) % dataSize
    IN  [i \in DOMAIN data |->
            IF i \notin WritePositions(offset, done, n) THEN data[i]
            ELSE IF good THEN <<d, done + i - writeOffset>>
            ELSE Junk]

\* Put: one round of dataStore.Put, without the lock.
PutWrite(p, n) ==
    /\ put[p].state = "writing"
    /\ put[p].done + n <= SizeBytes[put[p].digest]
    /\ data' = Written(put[p].digest, put[p].offset, put[p].done, n, put[p].good)
    /\ put' = [put EXCEPT ![p].done = @ + n]
    /\ LET positions == WritePositions(put[p].offset, put[p].done, n)
       IN  clobbered' = IF Contains(cursors, put[p].offset, SizeBytes[put[p].digest])
                        THEN clobbered \ positions ELSE clobbered \cup positions
    /\ UNCHANGED <<cursors, writeCursor, table, cache, get, written, restarts>>

\* Put: reading from the client or writing to the file fails, or the checksum
\* turns out to be wrong at the end of the data.
PutAborts(p) ==
    /\ put[p].state = "writing"
    /\ put' = [put EXCEPT ![p] = Idle]
    /\ UNCHANGED <<cursors, writeCursor, table, cache, data, get, written, clobbered, restarts>>

\* Mutation of ReadyToPublish: the offset is stored before the data is.
ReadyToPublishEarly(p) == put[p].state = "writing" /\ put[p].good

\* The client's reader has returned io.EOF, having verified size and checksum.
ReadyToPublish(p) ==
    /\ put[p].state = "writing" /\ put[p].good
    /\ put[p].done = SizeBytes[put[p].digest]

\* Put: offsetStore.Put under the lock, unless the data became stale.
PutPublish(p) ==
    /\ ReadyToPublish(p)
    /\ LET d == put[p].digest
           offset == put[p].offset
       IN  /\ IF Contains(cursors, offset, SizeBytes[d])
              THEN /\ table' = TablePut(table, d, offset, SizeBytes[d], cursors)
                   /\ cache' = CacheAfterPut(cache, d, offset, SizeBytes[d])
              ELSE UNCHANGED <<table, cache>>
           /\ written' = IF put[p].done = SizeBytes[d]
                         THEN written \cup {<<d, offset>>} ELSE written
    /\ put' = [put EXCEPT ![p] = Idle]
    /\ UNCHANGED <<cursors, writeCursor, data, get, clobbered, restarts>>

---------------------------------------------------------------------------
\* Get: the offset is looked up under the lock.
GetLookup(g, d) ==
    /\ get[g].state = "idle"
    /\ \E e \in Lookup(d) :
          get' = [get EXCEPT ![g] = [state |-> "reading", digest |-> d,
                    offset |-> e.offset, done |-> 0, good |-> TRUE]]
    /\ cache' = CacheAfterGet(cache, table, cursors, d)
    /\ UNCHANGED <<cursors, writeCursor, table, data, put, written, clobbered, restarts>>

\* fileDataStoreReader.Read: n bytes, without the lock and not across the end
\* of the file.  good tells whether all bytes so far are those of the blob.
GetRead(g, n) ==
    /\ get[g].state = "reading"
    /\ LET d == get[g].digest
           done == get[g].done
           readOffset == (get[g].offset + done) % dataSize
       IN  /\ done + n <= SizeBytes[d]
           /\ n <= dataSize - readOffset
           /\ get' = [get EXCEPT ![g].done = @ + n,
                 ![g].good = @ /\ \A i \in 0 .. n - 1 : data[readOffset + i] = <<d, done + i>>]
    /\ UNCHANGED <<cursors, writeCursor, table, cache, data, put, written, clobbered, restarts>>

\* The reader is at the end of the blob.
AtEnd(g) == get[g].state = "reading" /\ get[g].done = SizeBytes[get[g].digest]

\* checksumValidatingReader.Read at the end of the data: the checksum matches.
GetSucceeds(g) ==
    /\ AtEnd(g) /\ get[g].good
    /\ get' = [get EXCEPT ![g] = Idle]
    /\ UNCHANGED <<cursors, writeCursor, table, cache, data, put, written, clobbered, restarts>>

\* It does not match: discardBadBlob calls Delete, which invalidates the blob
\* that the digest has now, if there is one.
GetDiscards(g) ==
    /\ AtEnd(g) /\ ~get[g].good
    /\ LET d == get[g].digest
       IN  /\ cursors' = IF Lookup(d) = {} THEN cursors
                         ELSE LET e == CHOOSE x \in Lookup(d) : TRUE
                              IN  FileInvalidate(cursors, e.offset, Positive(e.length))
           /\ cache' = CacheAfterGet(cache, table, cursors, d)
    /\ get' = [get EXCEPT ![g] = Idle]
    /\ UNCHANGED <<writeCursor, table, data, put, written, clobbered, restarts>>

\* FindMissing, for one of its digests: its lookup also fills the cache.
FindMissing(d) ==
    /\ cache' = CacheAfterGet(cache, table, cursors, d)
    /\ UNCHANGED <<cursors, writeCursor, table, data, put, get, written, clobbered, restarts>>

\* bbb_storage restarts: calls in progress, cache and bulk cursor are gone.
Restart ==
    /\ restarts < MaxRestarts
    /\ restarts' = restarts + 1
    /\ writeCursor' = Width - 1
    /\ cache' = EmptyCache
    /\ put' = [p \in Putters |-> Idle]
    /\ get' = [g \in Getters |-> Idle]
    /\ UNCHANGED <<cursors, table, data, written, clobbered>>

Next ==
    \/ \E p \in Putters :
          \/ \E d \in Digests, good \in BOOLEAN : PutAllocate(p, d, good)
          \/ \E n \in 1 .. BufferSize : PutWrite(p, n)
          \/ PutAborts(p)
          \/ PutPublish(p)
    \/ \E g \in Getters :
          \/ \E d \in Digests : GetLookup(g, d)
          \/ \E n \in 1 .. BufferSize : GetRead(g, n)
          \/ GetSucceeds(g)
          \/ GetDiscards(g)
    \/ \E d \in Digests : FindMissing(d)
    \/ Restart

Spec == Init /\ [][Next]_vars

---------------------------------------------------------------------------
\* Byte i of an entry is that of its blob.
ByteIntact(e, i) == data[(e.offset + i) % dataSize] = <<e.digest, i>>

\* What Cursors.Contains documents, "it returns whether the offset/length pair
\* still corresponds to valid data": whatever Get finds through the cursors is
\* stored intact.
ValidData ==
    \A d \in Digests : \A e \in Lookup(d) : \A i \in 0 .. e.length - 1 : ByteIntact(e, i)

\* The two ways in which the code damages a byte of a blob it can find: the
\* byte lies beyond the end of the data file, where fileDataStore.Put writes it
\* and fileDataStoreReader does not look; or an upload that had become stale
\* was still writing when its space belonged to another blob.
Damaged(offset, i) ==
    \/ (offset % dataSize) + i >= dataSize
    \/ (offset + i) % dataSize \in clobbered

\* Allocation, displacement of records, the cache, discards and restarts do no
\* further harm: whatever a lookup finds is intact but for such bytes.
DamageExplained ==
    \A d \in Digests : \A e \in Lookup(d) : \A i \in 0 .. e.length - 1 :
        ByteIntact(e, i) \/ Damaged(e.offset, i)

\* No lookup, through the cache or the file, before or after a restart, leads
\* to data whose Put has not written all of it: an upload that is in progress,
\* was aborted or failed its checksum is never visible.
OnlyWrittenBlobsFound ==
    \A d \in Digests : \A e \in Lookup(d) : <<d, e.offset>> \in written

\* A reader that has seen a foreign byte, though it reads without the lock,
\* lost its blob to reuse of the space, or the blob is damaged where it read:
\* the checksum of merkleBlobAccess fails for no other reason.
ReadersSeeTheirBlob ==
    \A g \in Getters : get[g].state = "reading" /\ ~get[g].good =>
        \/ ~Contains(cursors, get[g].offset, SizeBytes[get[g].digest])
        \/ \E i \in 0 .. get[g].done - 1 : Damaged(get[g].offset, i)

---------------------------------------------------------------------------
\* The refinement mapping to FifoStore.
Copies == {w \in written : Contains(cursors, w[2], SizeBytes[w[1]])}

Uploads ==
    [p \in Putters |->
        IF put[p] = Idle THEN [kind |-> "none"]
        ELSE [kind |-> "put", digest |-> put[p].digest, position |-> put[p].offset, good |-> put[p].good]]

Downloads ==
    [g \in Getters |->
        IF get[g] = Idle THEN [kind |-> "none"]
        ELSE [kind |-> "get", digest |-> get[g].digest, position |-> get[g].offset]]

Fifo == INSTANCE FifoStore WITH
    Positions <- UInt64, Space <- [d \in Digests |-> Positive(SizeBytes[d])],
    Capacity <- dataSize, Slack <- chunkSize,
    copies <- Copies, horizon <- cursors.Read, upload <- Uploads, download <- Downloads

\* Circular storage is a log of complete copies: uploads get space in the order
\* in which they begin, never space that a copy or another upload still has; a
\* blob is given up only with all older ones, and only if otherwise the file
\* (but for the rest of a chunk) would be too small, or if a copy of the blob that
\* a reader found bad is at least as new; and restarts lose no copy.
ImplementsFifo == Fifo!FifoSpec
===========================================================================
