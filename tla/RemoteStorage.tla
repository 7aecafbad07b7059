--------------------------- MODULE RemoteStorage ---------------------------
(***************************************************************************)
(* The Content Addressable Storage as bbb_worker and bbb_frontend use it:  *)
(* merkleBlobAccess on a routing stack (StorageRouting) on backends.  A    *)
(* backend of kind                                                         *)
(*  - "grpc" is reached by contentAddressableStorageBlobAccess, over the   *)
(*    streams of byteStreamServer and the calls of                         *)
(*    contentAddressableStorageServer of a bbb_storage process, which has  *)
(*    a merkleBlobAccess and a store of its own;                           *)
(*  - "direct" is Redis or S3, "remote" a Bazel HTTP cache.                *)
(* Bazel itself uploads to byteStreamServer too, with its own idea of      *)
(* offsets and terminations.  Streams break at any time, any call to a     *)
(* store may fail, and stores lose and damage blobs.                       *)
(*                                                                         *)
(* A blob is a sequence of pieces; its checksum is right when it is        *)
(* exactly the blob that the digest stands for.                            *)
(***************************************************************************)
EXTENDS StorageRouting

CONSTANTS
    Kind,           \* backend -> "grpc", "direct" or "remote"
    Calls,          \* calls that may be in progress at a time
    Uses,           \* bound: call -> operations that it is used for
    readChunkSize,  \* pieces that one Read returns at most
    Window,         \* bound: messages in flight on a stream, per direction
    BazelRequests,  \* bound: the messages that Bazel may send
    Queries,        \* bound: sets of digests that FindMissing is called with
    Spoilt,         \* bound: digest -> what its blob may turn into
    Lossy,          \* backends that lose blobs by themselves
    OwnContext      \* calls made with a context that ends with them

VARIABLES
    store,    \* backend -> digest -> the blob that its store holds
    pc,       \* call -> what its client side is doing
    digest,   \* call -> digest that it is about
    source,   \* call -> what the reader that Put was given will return
    offset,   \* call -> writeOffset: how much of it has been sent
    got,      \* call -> what the reader that Get returned has returned
    find,     \* call -> progress of FindMissing
    stream,   \* call -> its ByteStream call, as the network sees it
    handler,  \* call -> byteStreamServer.Write or Read that serves it
    seen,     \* history: call -> what its lookup found, or that its upload was stored
    outcome,  \* call -> status that the last operation returned
    answer    \* call -> digests that the last FindMissing returned

clientVars == <<pc, digest, source, offset, got>>
resultVars == <<seen, outcome, answer>>
vars == <<store, clientVars, find, stream, handler, resultVars>>

---------------------------------------------------------------------------
\* Blobs.

Junk == <<"junk", 0>>
Absent == << <<"absent", 0>> >>
Blob(d) == [i \in 1..SizeBytes[d] |-> <<d, i>>]
First(s, n) == IF n < Len(s) THEN SubSeq(s, 1, n) ELSE s
Rest(s, n) == SubSeq(s, n + 1, Len(s))

\* checksumValidatingReader at the end of a blob.
Matches(blob, d) == blob = Blob(d)

\* checksumValidatingReader before the end.
TooLong(blob, d) == Len(blob) > SizeBytes[d]

---------------------------------------------------------------------------
\* Streams and handlers.

\* No resource name, or one that parseResourceNameWrite rejects.
NoName == "none"
NoStream == [kind |-> "none"]
OpenStream(kind, b) ==
    [kind |-> kind, backend |-> b, requests |-> <<>>, closed |-> FALSE,
     chunks |-> <<>>, status |-> "open", broken |-> FALSE]
\* data is what Write has received, or what Read sends the first sent pieces of.
NoHandler == [pc |-> "none", digest |-> NoName, data |-> <<>>, sent |-> 0, finished |-> FALSE]
NewHandler == [NoHandler EXCEPT !.pc = "new"]
NoFind == [digests |-> {}, looked |-> {}, missing |-> {}, failed |-> {}]
Request(name, at, data, finish) == [name |-> name, offset |-> at, data |-> data, finish |-> finish]

\* Pieces of blobs.  What a blob turns into may be any sequence of them.
Pieces == {Junk} \cup (Digests \X (Nat \ {0}))

ASSUME RemoteAssumption ==
    /\ NoName \notin Digests
    /\ Kind \in [Backends -> {"grpc", "direct", "remote"}]
    /\ readChunkSize \in Nat \ {0} /\ Window \in Nat \ {0}
    /\ Lossy \subseteq Backends /\ OwnContext \subseteq Calls
    /\ Queries \subseteq SUBSET Digests
    /\ \A d \in Digests : Spoilt[d] \subseteq Seq(Pieces)
    /\ BazelRequests \subseteq [name : Digests \cup {NoName}, offset : Nat, data : Seq(Pieces), finish : BOOLEAN]

Init ==
    /\ store = [b \in Backends |-> [d \in Digests |-> Absent]]
    /\ pc = [c \in Calls |-> "idle"]
    /\ digest = [c \in Calls |-> NoName]
    /\ source = [c \in Calls |-> <<>>]
    /\ offset = [c \in Calls |-> 0]
    /\ got = [c \in Calls |-> <<>>]
    /\ find = [c \in Calls |-> NoFind]
    /\ stream = [c \in Calls |-> NoStream]
    /\ handler = [c \in Calls |-> NoHandler]
    /\ seen = [c \in Calls |-> "nothing"]
    /\ outcome = [c \in Calls |-> "none"]
    /\ answer = [c \in Calls |-> {}]

Goto(c, label) == pc' = [pc EXCEPT ![c] = label]

\* The client side of a call returns.  Its stream stays behind as long as the
\* server works on it; broken says whether the server can find out.
LeaveWith(c, code, broken) ==
    /\ Goto(c, "idle")
    /\ stream' = [stream EXCEPT ![c] =
          IF handler[c].pc = "none" THEN NoStream ELSE [@ EXCEPT !.broken = broken]]
    /\ digest' = [digest EXCEPT ![c] = IF handler[c].pc = "none" THEN NoName ELSE @]
    /\ outcome' = [outcome EXCEPT ![c] = code]
    /\ seen' = [seen EXCEPT ![c] = "nothing"]
    /\ source' = [source EXCEPT ![c] = <<>>]
    /\ offset' = [offset EXCEPT ![c] = 0]
    /\ got' = [got EXCEPT ![c] = <<>>]
    /\ find' = [find EXCEPT ![c] = NoFind]

ReturnWith(c, code) == LeaveWith(c, code, FALSE)

Begin(c, use, d) ==
    /\ pc[c] = "idle" /\ handler[c] = NoHandler /\ use \in Uses[c]
    /\ digest' = [digest EXCEPT ![c] = d]
    /\ outcome' = [outcome EXCEPT ![c] = "none"]
    /\ answer' = [answer EXCEPT ![c] = {}]
    /\ UNCHANGED seen

Serve(c, kind, b) ==
    /\ stream' = [stream EXCEPT ![c] = OpenStream(kind, b)]
    /\ handler' = [handler EXCEPT ![c] = NewHandler]

---------------------------------------------------------------------------
\* Put of merkleBlobAccess and what is below it.

\* Put is called with a digest and a reader, by now of other contents maybe.
\* contentAddressableStorageBlobAccess opens a stream.
BeginPut(c, d) ==
    /\ Begin(c, "Put", d)
    /\ \E s \in {Blob(d)} \cup Spoilt[d] : source' = [source EXCEPT ![c] = s]
    /\ LET b == BackendOf(d)
       IN  IF Kind[b] = "grpc"
           THEN Goto(c, "sending") /\ Serve(c, "write", b)
           ELSE Goto(c, "storing") /\ UNCHANGED <<stream, handler>>
    /\ UNCHANGED <<store, offset, got, find>>

\* The name of the resource is in the first message only.
NameToSend(c) == IF offset[c] = 0 THEN digest[c] ELSE NoName

\* Mutation of HalfCloses: Recv is called in place of CloseAndRecv.
NeverHalfCloses(finish) == FALSE

\* CloseAndRecv follows the terminating chunk.
HalfCloses(finish) == finish

SendRequest(c, data, finish) ==
    /\ Len(stream[c].requests) < Window /\ stream[c].status = "open"
    /\ stream' = [stream EXCEPT
          ![c].requests = Append(@, Request(NameToSend(c), offset[c], data, finish)),
          ![c].closed = HalfCloses(finish)]
    /\ UNCHANGED <<store, digest, got, find, handler, resultVars>>

\* Mutation of Sent: writeOffset stays behind.
SentNothing(c, n) == offset' = offset

Sent(c, n) == offset' = [offset EXCEPT ![c] = @ + n]

\* A non-terminating chunk.
SendChunk(c) ==
    /\ pc[c] = "sending"
    /\ \E n \in 1..readChunkSize :
          LET data == SubSeq(source[c], offset[c] + 1, offset[c] + n)
          IN  /\ offset[c] + n <= Len(source[c])
              /\ ~TooLong(First(source[c], offset[c] + n), digest[c])
              /\ SendRequest(c, data, FALSE)
              /\ Sent(c, n)
    /\ UNCHANGED <<pc, source>>

\* The terminating chunk, once the checksum is known to match, and CloseAndRecv.
SendLastChunk(c) ==
    /\ pc[c] = "sending"
    /\ Len(source[c]) - offset[c] <= readChunkSize
    /\ Matches(source[c], digest[c])
    /\ SendRequest(c, Rest(source[c], offset[c]), TRUE)
    /\ source' = [source EXCEPT ![c] = <<>>]
    /\ offset' = [offset EXCEPT ![c] = 0]
    /\ Goto(c, "closing")

\* The blob is longer than it should be, or its checksum does not match.
PutRejects(c) ==
    /\ pc[c] \in {"sending", "storing"} /\ ~Matches(source[c], digest[c])
    /\ pc[c] = "sending" => \/ Len(source[c]) - offset[c] <= readChunkSize
                            \/ TooLong(First(source[c], offset[c] + readChunkSize), digest[c])
    /\ ReturnWith(c, "error")
    /\ UNCHANGED <<store, handler, answer>>

\* The server has ended the call already: Send returns io.EOF.
SendFails(c) ==
    /\ pc[c] = "sending" /\ stream[c].status # "open"
    /\ ReturnWith(c, "error")
    /\ UNCHANGED <<store, handler, answer>>

\* CloseAndRecv returns what the server said.
CloseAndRecv(c) ==
    /\ pc[c] \in {"closing", "awaiting"} /\ stream[c].status # "open"
    /\ ReturnWith(c, IF stream[c].status = "OK" THEN "OK" ELSE "error")
    /\ UNCHANGED <<store, handler, answer>>

\* Redis and S3 get the blob once the checksum is known to match, an HTTP cache
\* as soon as there are as many bytes as there should be, and these only.
StoreDirectly(c) ==
    LET b == BackendOf(digest[c])
        sent == First(source[c], SizeBytes[digest[c]])
    IN  /\ pc[c] = "storing"
        /\ Matches(source[c], digest[c]) \/ (Kind[b] = "remote" /\ Len(sent) = SizeBytes[digest[c]])
        /\ store' = [store EXCEPT ![b][digest[c]] = sent]
        /\ seen' = [seen EXCEPT ![c] = IF Matches(sent, digest[c]) THEN "stored" ELSE "spoilt"]
        /\ Goto(c, "stored")
        /\ UNCHANGED <<digest, source, offset, got, find, stream, handler, outcome, answer>>

\* The confirmation arrives, or does not.
StoredDirectly(c) ==
    /\ pc[c] = "stored"
    /\ (Matches(source[c], digest[c]) /\ ReturnWith(c, "OK")) \/ ReturnWith(c, "error")
    /\ UNCHANGED <<store, handler, answer>>

\* An HTTP cache answers with a status that remoteBlobAccess.Put does not look at.
RefusedSilently(c) ==
    /\ pc[c] = "storing" /\ Kind[BackendOf(digest[c])] = "remote"
    /\ Matches(source[c], digest[c])
    /\ ReturnWith(c, "OK")
    /\ UNCHANGED <<store, handler, answer>>

---------------------------------------------------------------------------
\* Bazel uploads a blob by itself.

BeginUpload(c, d) ==
    /\ Kind[BackendOf(d)] = "grpc" /\ \E r \in BazelRequests : r.name = d
    /\ Begin(c, "Upload", d)
    /\ Goto(c, "uploading")
    /\ Serve(c, "write", BackendOf(d))
    /\ UNCHANGED <<store, source, offset, got, find>>

Upload(c) ==
    /\ pc[c] = "uploading" /\ Len(stream[c].requests) < Window /\ stream[c].status = "open"
    /\ \E r \in BazelRequests :
          /\ r.name \in {digest[c], NoName}
          /\ stream' = [stream EXCEPT ![c].requests = Append(@, r)]
    /\ UNCHANGED <<store, clientVars, find, handler, resultVars>>

\* Bazel half-closes the stream and waits, or gives up.
UploadEnds(c) ==
    /\ pc[c] = "uploading"
    /\ \/ /\ stream' = [stream EXCEPT ![c].closed = TRUE]
          /\ Goto(c, "awaiting")
          /\ UNCHANGED <<digest, source, offset, got, find, resultVars>>
       \/ ReturnWith(c, "error") /\ UNCHANGED answer
    /\ UNCHANGED <<store, handler>>

---------------------------------------------------------------------------
\* byteStreamServer.Write.

\* The handler returns; its status goes to the client, if it is still there.
HandlerReturns(c, status) ==
    /\ handler' = [handler EXCEPT ![c] = NoHandler]
    /\ stream' = [stream EXCEPT ![c] =
          IF pc[c] = "idle" THEN NoStream ELSE [@ EXCEPT !.status = status, !.requests = <<>>]]
    /\ digest' = [digest EXCEPT ![c] = IF pc[c] = "idle" THEN NoName ELSE @]
    /\ UNCHANGED <<pc, source, offset, got, find>>

HandlerGoesOn(c, h) ==
    /\ handler' = [handler EXCEPT ![c] = h]
    /\ UNCHANGED <<clientVars, find>>

\* The first message: its resource name has to parse, and setRequest expects
\* that it is for the beginning of the blob.
AcceptsFirst(r) == r.name # NoName /\ r.offset = 0

\* setRequest for further messages.
Accepts(h, r) == ~h.finished /\ r.offset = Len(h.data)

\* setRequest, and the Read calls that pass the data on to the store.
Received(h, d, r) ==
    [h EXCEPT !.pc = "writing", !.digest = d, !.data = @ \o r.data, !.finished = r.finish]

\* Write and byteStreamWriteServerReader get a message, from which the store
\* reads through the checksumValidatingReader of the server.
WriteReceives(c) ==
    /\ stream[c].kind = "write" /\ handler[c].pc \in {"new", "writing"}
    /\ stream[c].requests # <<>>
    /\ LET h == handler[c]
           r == Head(stream[c].requests)
           d == IF h.pc = "new" THEN r.name ELSE h.digest
           ok == /\ IF h.pc = "new" THEN AcceptsFirst(r) ELSE Accepts(h, r)
                 /\ ~TooLong(h.data \o r.data, d)
       IN  \/ /\ ok
              /\ HandlerGoesOn(c, Received(h, d, r))
              /\ stream' = [stream EXCEPT ![c].requests = Tail(@)]
           \/ /\ ~ok
              /\ HandlerReturns(c, "InvalidArgument")
    /\ UNCHANGED <<store, resultVars>>

\* Recv returns io.EOF.
AtEOF(c) ==
    /\ stream[c].kind = "write" /\ handler[c].pc \in {"new", "writing"}
    /\ stream[c].requests = <<>> /\ stream[c].closed

Complete(h) == h.finished /\ Matches(h.data, h.digest)

\* The blob ends without a first message, before the write is finished, or with
\* a checksum that does not match.
WriteRejects(c) ==
    /\ AtEOF(c) /\ ~Complete(handler[c])
    /\ HandlerReturns(c, "InvalidArgument")
    /\ UNCHANGED <<store, resultVars>>

\* What the call that a handler serves has come to know; nothing if it is over.
Note(c, what) == seen' = IF pc[c] = "idle" THEN seen ELSE [seen EXCEPT ![c] = what]

\* The store takes the blob.  It may report an error nevertheless.
WriteStores(c) ==
    /\ AtEOF(c) /\ Complete(handler[c])
    /\ store' = [store EXCEPT ![stream[c].backend][handler[c].digest] = handler[c].data]
    /\ Note(c, "stored")
    /\ HandlerReturns(c, "OK") \/ HandlerReturns(c, "error")
    /\ UNCHANGED <<outcome, answer>>

\* Recv or Send fails on a broken stream.
HandlerAborts(c) ==
    /\ handler[c].pc # "none" /\ stream[c].broken
    /\ HandlerReturns(c, "error")
    /\ UNCHANGED <<store, resultVars>>

---------------------------------------------------------------------------
\* Get of merkleBlobAccess and what is below it.

BeginGet(c, d) ==
    /\ Begin(c, "Get", d)
    /\ LET b == BackendOf(d)
       IN  IF Kind[b] = "grpc"
           THEN Goto(c, "opening") /\ Serve(c, "read", b)
           ELSE Goto(c, "looking") /\ UNCHANGED <<stream, handler>>
    /\ UNCHANGED <<store, source, offset, got, find>>

\* What a client can tell of a blob.
State(blob, d) == IF blob = Absent THEN "absent" ELSE IF blob = Blob(d) THEN "whole" ELSE "damaged"

\* byteStreamServer.Read looks the blob up.  merkleBlobAccess compares the size.
ReadBegins(c) ==
    /\ stream[c].kind = "read" /\ handler[c].pc = "new"
    /\ LET blob == store[stream[c].backend][digest[c]]
       IN  /\ Note(c, State(blob, digest[c]))
           /\ \/ blob = Absent /\ HandlerReturns(c, "NotFound")
              \/ /\ blob # Absent
                 /\ HandlerGoesOn(c, [handler[c] EXCEPT
                       !.pc = IF Len(blob) = SizeBytes[digest[c]] THEN "reading" ELSE "discarding",
                       !.digest = digest[c], !.data = blob])
                 /\ UNCHANGED stream
    /\ UNCHANGED <<store, outcome, answer>>

ReadSends(c) ==
    /\ handler[c].pc = "reading"
    /\ Len(stream[c].chunks) < Window
    /\ \E n \in 1..readChunkSize :
          /\ handler[c].sent + n <= Len(handler[c].data)
          /\ stream' = [stream EXCEPT ![c].chunks =
                Append(@, SubSeq(handler[c].data, handler[c].sent + 1, handler[c].sent + n))]
          /\ HandlerGoesOn(c, [handler[c] EXCEPT !.sent = @ + n])
    /\ UNCHANGED <<store, resultVars>>

\* The end of a blob that is as it should be.
ReadEnds(c) ==
    /\ handler[c].pc = "reading" /\ handler[c].sent = Len(handler[c].data)
    /\ Matches(handler[c].data, handler[c].digest)
    /\ HandlerReturns(c, "OK")
    /\ UNCHANGED <<store, resultVars>>

\* The end of one that is not; chunks before the last are on their way already.
ReadRejects(c) ==
    /\ handler[c].pc = "reading" /\ Len(handler[c].data) - handler[c].sent <= readChunkSize
    /\ ~Matches(handler[c].data, handler[c].digest)
    /\ HandlerGoesOn(c, [handler[c] EXCEPT !.pc = "discarding"])
    /\ UNCHANGED <<store, stream, resultVars>>

\* discardBadBlob on the server: whatever the store holds by now is deleted.
ReadDiscards(c) ==
    /\ handler[c].pc = "discarding"
    /\ store' = [store EXCEPT ![stream[c].backend][handler[c].digest] = Absent]
    /\ HandlerReturns(c, "error")
    /\ UNCHANGED resultVars

\* The client gets a chunk, the first one within Get.
RecvChunk(c) ==
    /\ pc[c] \in {"opening", "reading"} /\ stream[c].chunks # <<>>
    /\ got' = [got EXCEPT ![c] = @ \o Head(stream[c].chunks)]
    /\ stream' = [stream EXCEPT ![c].chunks = Tail(@)]
    /\ Goto(c, "reading")
    /\ UNCHANGED <<store, digest, source, offset, find, handler, resultVars>>

\* The stream has ended.  merkleBlobAccess has the last word; its Delete does
\* nothing, as contentAddressableStorageBlobAccess does not implement it.
RecvEnd(c) ==
    LET status == stream[c].status
    IN  /\ pc[c] \in {"opening", "reading"} /\ stream[c].chunks = <<>> /\ status # "open"
        /\ ReturnWith(c, IF status = "OK" /\ Matches(got[c], digest[c]) THEN "OK"
                         ELSE IF status = "NotFound" /\ pc[c] = "opening" THEN "NotFound"
                         ELSE "error")
        /\ UNCHANGED <<store, handler, answer>>

\* Whoever uses the reader closes it before the end, which leaves the stream
\* open.
CloseEarly(c) ==
    /\ pc[c] \in {"reading", "fetched"}
    /\ ReturnWith(c, "error")
    /\ UNCHANGED <<store, handler, answer>>

\* Redis, S3 and HTTP return a size and a reader of what there is.
FetchDirectly(c) ==
    LET b == BackendOf(digest[c])
        blob == store[b][digest[c]]
    IN  /\ pc[c] = "looking" 
        /\ got' = [got EXCEPT ![c] = blob]
        /\ seen' = [seen EXCEPT ![c] = State(blob, digest[c])]
        /\ Goto(c, "fetched")
        /\ UNCHANGED <<store, digest, source, offset, find, stream, handler, outcome, answer>>

FetchedDirectly(c) ==
    /\ pc[c] = "fetched"
    /\ \/ got[c] = Absent /\ ReturnWith(c, "NotFound")
       \/ Matches(got[c], digest[c]) /\ ReturnWith(c, "OK")
    /\ UNCHANGED <<store, handler, answer>>

\* discardBadBlob; HTTP caches do not delete.
DiscardDirectly(c) ==
    LET b == BackendOf(digest[c])
    IN  /\ pc[c] = "fetched"
        /\ got[c] # Absent /\ ~Matches(got[c], digest[c])
        /\ store' = IF Kind[b] = "direct" THEN [store EXCEPT ![b][digest[c]] = Absent] ELSE store
        /\ Goto(c, "discarded")
        /\ UNCHANGED <<digest, source, offset, got, find, stream, handler, resultVars>>

DiscardedDirectly(c) ==
    /\ pc[c] = "discarded"
    /\ ReturnWith(c, "error")
    /\ UNCHANGED <<store, handler, answer>>

---------------------------------------------------------------------------
\* FindMissing of sizeDistinguishingBlobAccess and shardingBlobAccess.

\* The backend that a digest is sent to: digests are split up by size, then by
\* shard.
Split == [d \in Digests |-> getBackend(Side(d), d)]
SplitOf(d) == Split[d]

\* Every backend concerned is called in a goroutine of its own.
BeginFindMissing(c, ds) ==
    /\ Begin(c, "FindMissing", NoName)
    /\ find' = [find EXCEPT ![c] = [NoFind EXCEPT !.digests = ds]]
    /\ Goto(c, "finding")
    /\ UNCHANGED <<store, source, offset, got, stream, handler>>

\* A store is asked for a digest.
LookFor(c, d) ==
    LET b == SplitOf(d)
    IN  /\ pc[c] = "finding" /\ d \in find[c].digests \ find[c].looked
        /\ b \notin find[c].failed
        /\ find' = [find EXCEPT ![c].looked = @ \cup {d},
                                ![c].missing = IF store[b][d] = Absent THEN @ \cup {d} ELSE @]
        /\ UNCHANGED <<store, clientVars, stream, handler, resultVars>>

\* EXISTS of Redis or HEAD of S3, HEAD of an HTTP cache, and a lookup that
\* contentAddressableStorageServer makes for contentAddressableStorageBlobAccess.
Exists(c, d) == LookFor(c, d) /\ Kind[SplitOf(d)] = "direct"
HeadRequest(c, d) == LookFor(c, d) /\ Kind[SplitOf(d)] = "remote"
FindMissingBlobs(c, d) == LookFor(c, d) /\ Kind[SplitOf(d)] = "grpc"

\* The call to one backend fails, before or after it has looked.
FindFails(c, b) ==
    /\ pc[c] = "finding" /\ b \in {SplitOf(d) : d \in find[c].digests} \ find[c].failed
    /\ find' = [find EXCEPT ![c].failed = @ \cup {b}]
    /\ UNCHANGED <<store, clientVars, stream, handler, resultVars>>

\* Mutation of FindStatus: the error of one backend is forgotten.
FindStatusOK(f) == "OK"

\* The results of all backends are combined; an error of one is the result.
FindStatus(f) == IF f.failed = {} THEN "OK" ELSE "error"

\* All backends have answered.
FindMissingReturns(c) ==
    /\ pc[c] = "finding"
    /\ \A d \in find[c].digests : d \in find[c].looked \/ SplitOf(d) \in find[c].failed
    /\ ReturnWith(c, FindStatus(find[c]))
    /\ answer' = [answer EXCEPT ![c] = IF FindStatus(find[c]) = "OK" THEN find[c].missing ELSE {}]
    /\ UNCHANGED <<store, handler>>

---------------------------------------------------------------------------
\* What goes wrong.

\* The network loses a stream, or the answer at its end.
BreakStream(c) ==
    /\ pc[c] \in {"sending", "closing", "uploading", "awaiting", "opening", "reading"}
    /\ LeaveWith(c, "error", TRUE)
    /\ UNCHANGED <<store, handler, answer>>

\* The reader that is uploaded fails, or so does a call to Redis, S3 or HTTP.
CallFails(c) ==
    /\ pc[c] \in {"sending", "storing", "looking", "fetched"}
    /\ ReturnWith(c, "error")
    /\ UNCHANGED <<store, handler, answer>>

\* The store of bbb_storage fails.
HandlerFails(c) ==
    /\ handler[c].pc # "none"
    /\ HandlerReturns(c, "error")
    /\ UNCHANGED <<store, resultVars>>

\* Mutation of ContextDone: the call was made with context.Background().
ContextNeverDone(c) == FALSE /\ UNCHANGED vars

\* The context of a call that is over is cancelled: when the handler of the
\* frontend returns (OwnContext), or the GetWork stream of the worker ends.
ContextDone(c) ==
    /\ pc[c] = "idle" /\ handler[c].pc # "none" /\ ~stream[c].broken
    /\ stream' = [stream EXCEPT ![c].broken = TRUE]
    /\ UNCHANGED <<store, clientVars, find, handler, resultVars>>

Lose(b, d) ==
    /\ b \in Lossy /\ store[b][d] # Absent
    /\ store' = [store EXCEPT ![b][d] = Absent]
    /\ UNCHANGED <<clientVars, find, stream, handler, resultVars>>

Damage(b, d) ==
    /\ store[b][d] = Blob(d)
    /\ \E blob \in Spoilt[d] : store' = [store EXCEPT ![b][d] = blob]
    /\ UNCHANGED <<clientVars, find, stream, handler, resultVars>>

\* What the client, Bazel and the server do by themselves.
ClientNext(c) ==
    \/ SendChunk(c) \/ SendLastChunk(c) \/ PutRejects(c) \/ SendFails(c) \/ CloseAndRecv(c)
    \/ StoreDirectly(c) \/ StoredDirectly(c) \/ RefusedSilently(c)
    \/ UploadEnds(c)
    \/ RecvChunk(c) \/ RecvEnd(c)
    \/ FetchDirectly(c) \/ FetchedDirectly(c) \/ DiscardDirectly(c) \/ DiscardedDirectly(c)
    \/ \E d \in Digests : Exists(c, d) \/ HeadRequest(c, d) \/ FindMissingBlobs(c, d)
    \/ FindMissingReturns(c)

HandlerNext(c) ==
    \/ WriteReceives(c) \/ WriteRejects(c) \/ WriteStores(c)
    \/ ReadBegins(c) \/ ReadSends(c) \/ ReadEnds(c) \/ ReadRejects(c) \/ ReadDiscards(c)
    \/ HandlerAborts(c)

Fault(c) ==
    \/ BreakStream(c) \/ CallFails(c) \/ CloseEarly(c) \/ HandlerFails(c)
    \/ \E b \in Backends : FindFails(c, b)

Next ==
    \/ \E c \in Calls :
          \/ \E d \in Digests : BeginPut(c, d) \/ BeginUpload(c, d) \/ BeginGet(c, d)
          \/ \E ds \in Queries : BeginFindMissing(c, ds)
          \/ Upload(c) \/ ClientNext(c) \/ HandlerNext(c)
          \/ ContextDone(c) \/ Fault(c)
    \/ \E b \in Backends, d \in Digests : Lose(b, d) \/ Damage(b, d)

Spec == Init /\ [][Next]_vars

\* What happens to a call without any fault, and is bound to happen.  The context
\* of the worker's calls need not end.
GoesOn(c) ==
    \/ ClientNext(c) \/ HandlerNext(c)
    \/ c \in OwnContext /\ ContextDone(c)

\* Of a call that is not over, one side or the other goes on if either can.
Fairness == \A c \in Calls : WF_vars(GoesOn(c))

FairSpec == Spec /\ Fairness

---------------------------------------------------------------------------
Putting(c) == pc[c] \in {"sending", "closing", "storing", "stored", "uploading", "awaiting"}
Getting(c) == pc[c] \in {"opening", "reading", "looking", "fetched", "discarded"}

\* The refinement mapping to BlobStore.
Content == [d \in Digests |-> State(store[BackendOf(d)][d], d)]

Uploading(c) == Putting(c) \/ (handler[c].pc # "none" /\ stream[c].kind = "write")

Operation(c) ==
    IF Putting(c)
    THEN [kind |-> "put", digest |-> digest[c], seen |-> IF seen[c] = "stored" THEN "stored" ELSE "nothing"]
    ELSE IF Getting(c) THEN [kind |-> "get", digest |-> digest[c], seen |-> seen[c]]
    ELSE IF pc[c] = "finding" THEN [kind |-> "find", digests |-> find[c].digests,
                                    looked |-> find[c].looked, missing |-> find[c].missing]
    ELSE [kind |-> "idle"]

Operations == [c \in Calls |-> Operation(c)]
Uploads == {digest[c] : c \in {c \in Calls : Uploading(c)}}
Unconfirmed == {d \in Digests : Kind[BackendOf(d)] = "remote"}
Vanishing == {d \in Digests : BackendOf(d) \in Lossy}

\* Calls, maybe given up by their clients, that hold a bad blob and will discard it.
ServerDoubts(c) ==
    \/ handler[c].pc = "discarding"
    \/ handler[c].pc = "reading" /\ ~Matches(handler[c].data, handler[c].digest)
ClientDoubts(c) == pc[c] = "fetched" /\ got[c] # Absent /\ ~Matches(got[c], digest[c])
Doubts == {handler[c].digest : c \in {c \in Calls : ServerDoubts(c)}}
          \cup {digest[c] : c \in {c \in Calls : ClientDoubts(c)}}

Store == INSTANCE BlobStore WITH content <- Content, uploads <- Uploads, op <- Operations, doubts <- Doubts

\* Whatever adapters, streams and servers are between a client and a store,
\* answers are true: an upload is acknowledged only after the blob was stored, a
\* download succeeds only with the blob that was there during the call, NotFound
\* and the answer of FindMissing are about what was there during the call, and no
\* upload, not even one that its client has given up, stores anything but the
\* blob of its digest.  A backend that keeps its blobs loses one only to a reader
\* that found it damaged: its Delete comes late and may hit a good copy that was
\* uploaded meanwhile, but nothing that was good since that reader began.  HTTP caches
\* alone may be given other data, and may have refused what they acknowledge.
Implements == Store!Spec

\* contentAddressableStorageBlobAccess.Put speaks the protocol that
\* byteStreamServer expects: however chunks, breaks and other calls interleave,
\* an upload of ours is never rejected as an invalid one.
ClientSpeaksProtocol ==
    \A c \in Calls : pc[c] \in {"sending", "closing"} => stream[c].status # "InvalidArgument"

\* A handler is blocked in Recv or in Send.
HandlerWaits(c) ==
    /\ ~stream[c].broken
    /\ \/ stream[c].kind = "write" /\ stream[c].requests = <<>> /\ ~stream[c].closed
       \/ handler[c].pc = "reading" /\ Len(stream[c].chunks) >= Window

\* Nobody waits for ever: of every call, client and handler end.  No client waits
\* for a server that waits for it, and when a Put fails half-way or a reader is closed
\* early, which leaves the stream open, the end of the context of the call ends the
\* handler.  Calls of the worker have the context of its GetWork stream, which
\* outlives them: a call of its that failed, and no other, may leave a handler behind
\* that is blocked for good.
StreamsEnd ==
    \A c \in Calls :
        []<>(/\ pc[c] = "idle"
             /\ \/ handler[c].pc = "none"
                \/ c \notin OwnContext /\ outcome[c] = "error" /\ HandlerWaits(c))
===========================================================================
