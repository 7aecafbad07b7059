------------------------ MODULE RemoteStorageProofs ------------------------
(***************************************************************************)
(* Proofs about clients and servers of remote storage, for any digests,    *)
(* shards, backends and calls, and any faults: they implement BlobStore,   *)
(* our uploads keep to the protocol, and nobody waits in a circle.         *)
(***************************************************************************)
EXTENDS RemoteStorage, TLAPS, SequenceTheorems

WriteLabels == {"sending", "closing", "uploading", "awaiting"}
ReadLabels == {"opening", "reading"}
DirectLabels == {"storing", "stored", "looking", "fetched", "discarded"}
Labels == WriteLabels \cup ReadLabels \cup DirectLabels \cup {"idle", "finding"}
HandlerLabels == {"none", "new", "writing", "reading", "discarding"}
Statuses == {"open", "OK", "NotFound", "InvalidArgument", "error"}
Seen == {"nothing", "stored", "spoilt", "absent", "whole", "damaged"}

Data == Seq(Pieces \cup {<<"absent", 0>>})
Message == [name : Digests \cup {NoName}, offset : Nat, data : Data, finish : BOOLEAN]
Stream == [kind : {"write", "read"}, backend : Backends, requests : Seq(Message), closed : BOOLEAN,
           chunks : Seq(Data), status : Statuses, broken : BOOLEAN]
Handler == [pc : HandlerLabels, digest : Digests \cup {NoName}, data : Data, sent : Nat, finished : BOOLEAN]
Find == [digests : SUBSET Digests, looked : SUBSET Digests, missing : SUBSET Digests, failed : SUBSET Backends]

ClientTypes ==
    /\ pc \in [Calls -> Labels]
    /\ digest \in [Calls -> Digests \cup {NoName}]
    /\ source \in [Calls -> Data]
    /\ offset \in [Calls -> Nat]
    /\ got \in [Calls -> Data]
    /\ find \in [Calls -> Find]
    /\ seen \in [Calls -> Seen]
    /\ outcome \in [Calls -> {"none", "OK", "NotFound", "error"}]
    /\ answer \in [Calls -> SUBSET Digests]

ServerTypes ==
    /\ store \in [Backends -> [Digests -> Data]]
    /\ stream \in [Calls -> Stream \cup {NoStream}]
    /\ handler \in [Calls -> Handler]

\* A stream is for what its client does, and so is the handler that serves it,
\* for the digest of the call, with the backend of this digest, also if the call
\* is over.
StreamServesCall(c) ==
    /\ pc[c] \in WriteLabels => stream[c].kind = "write"
    /\ pc[c] \in ReadLabels => stream[c].kind = "read"
    /\ handler[c].pc # "none" =>
          /\ pc[c] \in WriteLabels \cup ReadLabels \cup {"idle"}
          /\ \/ stream[c].kind = "write" /\ handler[c].pc \in {"new", "writing"}
             \/ stream[c].kind = "read" /\ handler[c].pc \in {"new", "reading", "discarding"}
          /\ digest[c] \in Digests
          /\ stream[c].backend = BackendOf(digest[c])
          /\ \A i \in 1 .. Len(stream[c].requests) : stream[c].requests[i].name \in {digest[c], NoName}
          /\ handler[c].pc # "new" => handler[c].digest = digest[c]
          /\ handler[c].pc = "new" => handler[c].finished = FALSE

\* What has been seen is what the client will be told.
SeenIsTold(c) ==
    /\ pc[c] = "idle" => seen[c] = "nothing"
    /\ pc[c] # "idle" => answer[c] = {}
    /\ pc[c] \in WriteLabels \cup ReadLabels \cup DirectLabels => digest[c] \in Digests
    /\ pc[c] \in WriteLabels /\ stream[c].status = "OK" => seen[c] = "stored"
    /\ pc[c] \in ReadLabels =>
          /\ stream[c].status = "OK" => seen[c] = "whole"
          /\ stream[c].status = "NotFound" => seen[c] = "absent"
          /\ handler[c].pc = "new" => seen[c] = "nothing"
          /\ handler[c].pc = "reading" => seen[c] = State(handler[c].data, digest[c])
    /\ pc[c] \in {"storing", "looking"} => seen[c] = "nothing"
    /\ pc[c] = "storing" => source[c] \in Seq(Pieces)
    /\ pc[c] = "stored" /\ Matches(source[c], digest[c]) => seen[c] = "stored"
    /\ pc[c] = "fetched" => seen[c] = State(got[c], digest[c])
    /\ pc[c] = "finding" => find[c].looked \subseteq find[c].digests

CallFine(c) == StreamServesCall(c) /\ SeenIsTold(c)

RemoteInvariant ==
    /\ ClientTypes
    /\ ServerTypes
    /\ \A c \in Calls : CallFine(c)

---------------------------------------------------------------------------
\* A step of one call leaves the others alone.
SameCall(c) ==
    UNCHANGED <<pc[c], digest[c], source[c], offset[c], got[c], find[c], stream[c], handler[c],
                seen[c], outcome[c], answer[c]>>

LEMMA OtherCalls ==
    ASSUME RemoteInvariant, NEW c \in Calls, CallFine(c)', \A u \in Calls \ {c} : SameCall(u)
    PROVE  \A u \in Calls : CallFine(u)'
<1> SUFFICES ASSUME NEW u \in Calls \ {c}
             PROVE  CallFine(u)'
    OBVIOUS
<1>1. CallFine(u) /\ SameCall(u)
    BY DEF RemoteInvariant
<1> QED
    BY <1>1 DEF CallFine, SameCall, StreamServesCall, SeenIsTold, State, Matches

\* What a step of one call does to the state of the abstract store.
LEMMA MappedCalls ==
    ASSUME NEW c \in Calls, \A u \in Calls \ {c} : SameCall(u)
    PROVE  /\ Operations' = [Operations EXCEPT ![c] = Operation(c)']
           /\ Operation(c)' = Operation(c) => Operations' = Operations
           /\ (Uploading(c)' => Uploading(c) /\ digest'[c] = digest[c]) => Uploads' \subseteq Uploads
           /\ (Uploading(c)' <=> Uploading(c)) /\ digest'[c] = digest[c] => Uploads' = Uploads
           /\ ~Uploading(c)' /\ ~Uploading(c) => Uploads' = Uploads
           /\ Uploading(c)' /\ ~Uploading(c) => Uploads' = Uploads \cup {digest'[c]}
<1>1. ASSUME NEW u \in Calls \ {c}
      PROVE  Operation(u)' = Operation(u) /\ (Uploading(u)' <=> Uploading(u)) /\ digest'[u] = digest[u]
    <2>1. SameCall(u)
        OBVIOUS
    <2> QED
        BY <2>1 DEF SameCall, Operation, Uploading, Putting, Getting
<1>2. Operations' = [Operations EXCEPT ![c] = Operation(c)']
    BY <1>1 DEF Operations
<1>3. Operation(c)' = Operation(c) => Operations' = Operations
    BY <1>1 DEF Operations
<1> QED
    BY <1>1, <1>2, <1>3 DEF Uploads

\* What is made of pieces is data, and is there.
LEMMA PiecesAreData ==
    ASSUME NEW s \in Seq(Pieces)
    PROVE  s \in Data /\ s # Absent
<1>1. s \in Data
    BY SeqMonotonic DEF Data
<1>2. <<"absent", 0>> \notin Pieces
    BY DEF Pieces, Junk
<1>3. s # Absent
    <2> SUFFICES ASSUME s = Absent PROVE FALSE
        OBVIOUS
    <2>1. 1 \in 1 .. Len(s) /\ s[1] = <<"absent", 0>>
        BY DEF Absent
    <2> QED
        BY <1>2, <2>1, ElementOfSeq
<1> QED
    BY <1>1, <1>3

LEMMA BlobPieces ==
    ASSUME NEW d \in Digests
    PROVE  Blob(d) \in Seq(Pieces) /\ SizeBytes[d] \in Nat /\ Len(Blob(d)) = SizeBytes[d]
<1>1. SizeBytes[d] \in Nat
    BY RoutingAssumption
<1>2. \A i \in 1 .. SizeBytes[d] : <<d, i>> \in Pieces
    BY <1>1 DEF Pieces
<1>3. Blob(d) \in [1 .. SizeBytes[d] -> Pieces]
    BY <1>2 DEF Blob
<1>4. Blob(d) \in Seq(Pieces)
    BY <1>1, <1>3, SeqDef
<1> QED
    BY <1>1, <1>3, <1>4, LenProperties

\* An HTTP cache gets as many pieces as there should be.
LEMMA FirstPieces ==
    ASSUME NEW s \in Seq(Pieces), NEW n \in Nat
    PROVE  First(s, n) \in Seq(Pieces) /\ (Len(s) = n => First(s, n) = s)
<1>1. Len(s) \in Nat
    BY LenProperties
<1>2. CASE n < Len(s)
    <2>1. \A i \in 1 .. n : s[i] \in Pieces
        BY <1>1, <1>2, ElementOfSeq
    <2>2. SubSeq(s, 1, n) \in Seq(Pieces)
        BY <1>1, <1>2, <2>1, SubSeqProperties
    <2> QED
        BY <1>1, <1>2, <2>2 DEF First
<1>3. CASE ~(n < Len(s))
    BY <1>1, <1>3 DEF First
<1> QED
    BY <1>2, <1>3

\* What a client can tell of a blob.
LEMMA StateOf ==
    ASSUME NEW d \in Digests
    PROVE  /\ Blob(d) \in Data /\ Blob(d) # Absent
           /\ State(Absent, d) = "absent" /\ State(Blob(d), d) = "whole"
           /\ \A blob : State(blob, d) = "absent" <=> blob = Absent
           /\ \A blob : State(blob, d) = "whole" <=> blob = Blob(d)
           /\ \A blob : State(blob, d) \in {"absent", "whole", "damaged"}
<1>1. Blob(d) \in Data /\ Blob(d) # Absent
    BY BlobPieces, PiecesAreData
<1> QED
    BY <1>1 DEF State

---------------------------------------------------------------------------
\* Nothing is stored at first, and nobody has called.
LEMMA RemoteInit ==
    ASSUME Init
    PROVE  RemoteInvariant /\ Store!Init
<1> USE DEF Init
<1>1. <<>> \in Data /\ Absent \in Data
    BY DEF Data, Absent
<1>2. ClientTypes
    BY <1>1 DEF ClientTypes, Labels, NoFind, Find, Seen
<1>3. ServerTypes
    BY <1>1 DEF ServerTypes, NoHandler, Handler, HandlerLabels
<1>4. \A c \in Calls : CallFine(c)
    BY DEF CallFine, StreamServesCall, SeenIsTold, WriteLabels, ReadLabels, DirectLabels, NoHandler
<1>5. Content = [d \in Digests |-> "absent"]
    BY RoutingAssumption, StateOf DEF Content
<1>6. \A c \in Calls : ~Uploading(c) /\ Operation(c) = [kind |-> "idle"]
    BY DEF Uploading, Putting, Getting, Operation, NoHandler
<1>7. Uploads = {} /\ Operations = [c \in Calls |-> Store!Idle]
    BY <1>6 DEF Uploads, Operations, Store!Idle
<1>8. Doubts = {}
    BY DEF Doubts, ServerDoubts, ClientDoubts, NoHandler
<1> QED
    BY <1>2, <1>3, <1>4, <1>5, <1>7, <1>8 DEF RemoteInvariant, Store!Init

\* The client side of a call returns, with what the abstract store may return.
LEMMA LeaveStep ==
    ASSUME RemoteInvariant, NEW c \in Calls, pc[c] # "idle", NEW broken \in BOOLEAN,
           NEW code \in {"OK", "NotFound", "error"}, Store!MayReturn(Operation(c), code),
           LeaveWith(c, code, broken), UNCHANGED <<store, handler>>,
           \/ UNCHANGED answer /\ pc[c] # "finding"
           \/ pc[c] = "finding" /\ answer' = [answer EXCEPT ![c] = IF code = "OK" THEN find[c].missing ELSE {}]
    PROVE  RemoteInvariant' /\ Store!Change
<1> USE DEF RemoteInvariant
<1>1. CallFine(c) /\ pc[c] \in Labels /\ handler[c] \in Handler /\ stream[c] \in Stream \cup {NoStream}
    BY DEF ClientTypes, ServerTypes
<1>2. /\ pc'[c] = "idle" /\ seen'[c] = "nothing" /\ handler'[c] = handler[c]
      /\ handler[c].pc # "none" => digest'[c] = digest[c] /\ stream'[c] = [stream[c] EXCEPT !.broken = broken]
      /\ handler[c].pc = "none" => digest'[c] = NoName /\ stream'[c] = NoStream
    BY DEF LeaveWith, Goto, ClientTypes, ServerTypes
<1>3. \A u \in Calls \ {c} : SameCall(u)
    BY DEF LeaveWith, Goto, ClientTypes, ServerTypes, SameCall
<1>4. handler[c].pc # "none" => /\ stream'[c].kind = stream[c].kind /\ stream'[c].backend = stream[c].backend
                                /\ stream'[c].requests = stream[c].requests /\ stream'[c] \in Stream
    <2> SUFFICES ASSUME handler[c].pc # "none"
                 PROVE  /\ stream'[c].kind = stream[c].kind /\ stream'[c].backend = stream[c].backend
                        /\ stream'[c].requests = stream[c].requests /\ stream'[c] \in Stream
        OBVIOUS
    <2>1. stream[c] \in Stream
        BY <1>1 DEF CallFine, StreamServesCall, NoStream
    <2> QED
        BY <1>2, <2>1 DEF Stream
<1>5. CallFine(c)'
    BY <1>1, <1>2, <1>4 DEF CallFine, StreamServesCall, SeenIsTold, WriteLabels, ReadLabels, DirectLabels
<1>6. \A u \in Calls : CallFine(u)'
    BY <1>3, <1>5, OtherCalls
<1>7. ClientTypes'
    <2>1. <<>> \in Data /\ NoFind \in Find
        BY DEF Data, NoFind, Find
    <2>2. find[c].missing \in SUBSET Digests
        BY DEF ClientTypes, Find
    <2> QED
        BY <2>1, <2>2 DEF LeaveWith, Goto, ClientTypes, Labels, Seen
<1>8. ServerTypes'
    <2>1. stream'[c] \in Stream \cup {NoStream}
        BY <1>2, <1>4
    <2>2. stream' \in [Calls -> Stream \cup {NoStream}]
        BY <2>1 DEF LeaveWith, ServerTypes
    <2> QED
        BY <2>2 DEF ServerTypes
<1>9. Content' = Content
    BY DEF Content, State
<1>10. Operation(c)' = Store!Idle
    BY <1>2 DEF Operation, Putting, Getting, Store!Idle
<1>11. Operations' = [Operations EXCEPT ![c] = Store!Idle]
    BY <1>3, <1>10, MappedCalls
<1>12. Uploads' \subseteq Uploads
    <2>1. Uploading(c)' => Uploading(c) /\ digest'[c] = digest[c]
        BY <1>2, <1>4 DEF Uploading, Putting
    <2> QED
        BY <1>3, <2>1, MappedCalls
<1>13. Operations[c] = Operation(c) /\ Operation(c).kind \in {"put", "get", "find"}
       /\ (Operation(c).kind = "find" <=> pc[c] = "finding")
       /\ (pc[c] = "finding" => Operation(c).missing = find[c].missing)
    BY <1>1 DEF Operations, Operation, Putting, Getting, Labels, WriteLabels, ReadLabels, DirectLabels
<1>14. answer' = [answer EXCEPT ![c] = IF Operation(c).kind = "find" /\ code = "OK"
                                       THEN Operation(c).missing ELSE {}]
    <2>1. answer[c] = {}
        BY <1>1 DEF CallFine, SeenIsTold
    <2> QED
        BY <1>13, <2>1 DEF ClientTypes
<1>15. outcome' = [outcome EXCEPT ![c] = code]
    BY DEF LeaveWith
<1>16. Store!Return(c)
    <2>1. Operations[c] # Store!Idle
        BY <1>13 DEF Store!Idle
    <2>2. code \in Store!Outcomes \ {"none"}
        BY DEF Store!Outcomes
    <2> QED
        BY <1>9, <1>11, <1>12, <1>13, <1>14, <1>15, <2>1, <2>2 DEF Store!Return
<1>17. Store!Change
    BY <1>16 DEF Store!Change
<1> QED
    BY <1>6, <1>7, <1>8, <1>17

\* Any call may fail.
LEMMA LeaveWithError ==
    ASSUME RemoteInvariant, NEW c \in Calls, pc[c] \notin {"idle", "finding"}, NEW broken \in BOOLEAN,
           LeaveWith(c, "error", broken), UNCHANGED <<store, handler, answer>>
    PROVE  RemoteInvariant' /\ Store!Change
<1>1. Store!MayReturn(Operation(c), "error")
    BY DEF Store!MayReturn
<1> QED
    BY <1>1, LeaveStep

\* Put is acknowledged once its blob was stored, or by an HTTP cache.
LEMMA PutReturns ==
    ASSUME RemoteInvariant, NEW c \in Calls,
           \/ PutRejects(c) \/ SendFails(c) \/ CloseAndRecv(c) \/ StoredDirectly(c) \/ RefusedSilently(c)
    PROVE  RemoteInvariant' /\ Store!Change
<1>1. CallFine(c)
    BY DEF RemoteInvariant
<1>2. CASE PutRejects(c) \/ SendFails(c)
    BY <1>2, LeaveWithError DEF PutRejects, SendFails, ReturnWith
<1>3. CASE CloseAndRecv(c)
    <2>1. CASE stream[c].status # "OK"
        BY <1>3, <2>1, LeaveWithError DEF CloseAndRecv, ReturnWith
    <2>2. CASE stream[c].status = "OK"
        <3>1. seen[c] = "stored" /\ pc[c] \in {"closing", "awaiting"}
            BY <1>1, <1>3, <2>2 DEF CallFine, SeenIsTold, WriteLabels, CloseAndRecv
        <3>2. Store!MayReturn(Operation(c), "OK")
            BY <3>1 DEF Store!MayReturn, Operation, Putting
        <3> QED
            BY <1>3, <2>2, <3>1, <3>2, LeaveStep DEF CloseAndRecv, ReturnWith
    <2> QED
        BY <2>1, <2>2
<1>4. CASE StoredDirectly(c)
    <2>1. CASE ReturnWith(c, "error")
        BY <1>4, <2>1, LeaveWithError DEF StoredDirectly, ReturnWith
    <2>2. CASE Matches(source[c], digest[c]) /\ ReturnWith(c, "OK")
        <3>1. seen[c] = "stored" /\ pc[c] = "stored"
            BY <1>1, <1>4, <2>2 DEF CallFine, SeenIsTold, StoredDirectly
        <3>2. Store!MayReturn(Operation(c), "OK")
            BY <3>1 DEF Store!MayReturn, Operation, Putting
        <3> QED
            BY <1>4, <2>2, <3>1, <3>2, LeaveStep DEF StoredDirectly, ReturnWith
    <2> QED
        BY <1>4, <2>1, <2>2 DEF StoredDirectly
<1>5. CASE RefusedSilently(c)
    <2>1. pc[c] = "storing" /\ digest[c] \in Unconfirmed
        BY <1>1, <1>5 DEF CallFine, SeenIsTold, DirectLabels, RefusedSilently, Unconfirmed
    <2>2. Store!MayReturn(Operation(c), "OK")
        BY <2>1 DEF Store!MayReturn, Operation, Putting
    <2> QED
        BY <1>5, <2>1, <2>2, LeaveStep DEF RefusedSilently, ReturnWith
<1> QED
    BY <1>2, <1>3, <1>4, <1>5

\* A download ends with what was there when it was looked up.
LEMMA GetReturns ==
    ASSUME RemoteInvariant, NEW c \in Calls,
           RecvEnd(c) \/ CloseEarly(c) \/ FetchedDirectly(c) \/ DiscardedDirectly(c)
    PROVE  RemoteInvariant' /\ Store!Change
<1>1. CallFine(c)
    BY DEF RemoteInvariant
<1>2. CASE CloseEarly(c) \/ DiscardedDirectly(c)
    BY <1>2, LeaveWithError DEF CloseEarly, DiscardedDirectly, ReturnWith
<1>3. ASSUME NEW code \in {"OK", "NotFound"}, ReturnWith(c, code), pc[c] \in {"opening", "reading", "fetched"},
             UNCHANGED <<store, handler, answer>>, code = "OK" => seen[c] = "whole",
             code = "NotFound" => seen[c] = "absent"
      PROVE  RemoteInvariant' /\ Store!Change
    <2>1. Store!MayReturn(Operation(c), code)
        BY <1>3 DEF Store!MayReturn, Operation, Putting, Getting
    <2> QED
        BY <1>3, <2>1, LeaveStep DEF ReturnWith
<1>4. CASE RecvEnd(c)
    <2>1. CASE stream[c].status = "OK" /\ Matches(got[c], digest[c])
        <3>1. seen[c] = "whole" /\ ReturnWith(c, "OK")
            BY <1>1, <1>4, <2>1 DEF CallFine, SeenIsTold, ReadLabels, RecvEnd
        <3> QED
            BY <1>3, <1>4, <3>1 DEF RecvEnd
    <2>2. CASE stream[c].status = "NotFound" /\ pc[c] = "opening"
        <3>1. seen[c] = "absent" /\ ReturnWith(c, "NotFound")
            BY <1>1, <1>4, <2>2 DEF CallFine, SeenIsTold, ReadLabels, RecvEnd
        <3> QED
            BY <1>3, <1>4, <3>1 DEF RecvEnd
    <2>3. CASE ReturnWith(c, "error")
        BY <1>4, <2>3, LeaveWithError DEF RecvEnd, ReturnWith
    <2> QED
        BY <1>4, <2>1, <2>2, <2>3 DEF RecvEnd
<1>5. CASE FetchedDirectly(c)
    <2>1. digest[c] \in Digests /\ seen[c] = State(got[c], digest[c]) /\ pc[c] = "fetched"
        BY <1>1, <1>5 DEF CallFine, SeenIsTold, DirectLabels, FetchedDirectly
    <2>2. CASE got[c] = Absent /\ ReturnWith(c, "NotFound")
        <3>1. seen[c] = "absent"
            BY <2>1, <2>2, StateOf
        <3> QED
            BY <1>3, <1>5, <2>1, <2>2, <3>1 DEF FetchedDirectly
    <2>3. CASE Matches(got[c], digest[c]) /\ ReturnWith(c, "OK")
        <3>1. seen[c] = "whole"
            BY <2>1, <2>3, StateOf DEF Matches
        <3> QED
            BY <1>3, <1>5, <2>1, <2>3, <3>1 DEF FetchedDirectly
    <2> QED
        BY <1>5, <2>2, <2>3 DEF FetchedDirectly
<1> QED
    BY <1>2, <1>4, <1>5

\* FindMissing returns once every digest has been looked for, or fails.
LEMMA FindReturns ==
    ASSUME RemoteInvariant, NEW c \in Calls, FindMissingReturns(c)
    PROVE  RemoteInvariant' /\ Store!Change
<1> USE DEF FindMissingReturns
<1>1. find[c].looked \subseteq find[c].digests
    BY DEF RemoteInvariant, CallFine, SeenIsTold
<1>2. FindStatus(find[c]) \in {"OK", "error"}
    BY DEF FindStatus
<1>3. Store!MayReturn(Operation(c), FindStatus(find[c]))
    <2>1. CASE find[c].failed = {}
        <3>1. find[c].looked = find[c].digests
            BY <1>1, <2>1
        <3> QED
            BY <3>1 DEF Store!MayReturn, Operation, Putting, Getting, FindStatus
    <2>2. CASE find[c].failed # {}
        BY <2>2 DEF Store!MayReturn, FindStatus
    <2> QED
        BY <2>1, <2>2
<1> QED
    BY <1>2, <1>3, LeaveStep DEF ReturnWith

\* Streams break, and calls fail.
LEMMA FaultReturns ==
    ASSUME RemoteInvariant, NEW c \in Calls, BreakStream(c) \/ CallFails(c)
    PROVE  RemoteInvariant' /\ Store!Change
BY LeaveWithError DEF BreakStream, CallFails, ReturnWith

---------------------------------------------------------------------------
\* A call begins: nothing has been seen.
LEMMA BeginFacts ==
    ASSUME RemoteInvariant, NEW c \in Calls, NEW use, NEW d \in Digests \cup {NoName}, Begin(c, use, d)
    PROVE  /\ pc[c] = "idle" /\ handler[c] = NoHandler /\ seen[c] = "nothing" /\ seen' = seen
           /\ Operations[c] = Store!Idle /\ ~Uploading(c)
           /\ digest' \in [Calls -> Digests \cup {NoName}] /\ digest'[c] = d
           /\ outcome' = [outcome EXCEPT ![c] = "none"] /\ answer' = [answer EXCEPT ![c] = {}]
           /\ answer' \in [Calls -> SUBSET Digests] /\ answer'[c] = {}
           /\ outcome' \in [Calls -> {"none", "OK", "NotFound", "error"}]
           /\ \A u \in Calls \ {c} : /\ digest'[u] = digest[u] /\ outcome'[u] = outcome[u]
                                     /\ answer'[u] = answer[u] /\ seen'[u] = seen[u]
<1> USE DEF RemoteInvariant, Begin
<1>1. CallFine(c)
    OBVIOUS
<1>2. seen[c] = "nothing"
    BY <1>1 DEF CallFine, SeenIsTold
<1>3. Operations[c] = Store!Idle /\ ~Uploading(c)
    BY DEF Operations, Operation, Putting, Getting, Uploading, Store!Idle, NoHandler
<1> QED
    BY <1>2, <1>3 DEF ClientTypes

LEMMA ServeFacts ==
    ASSUME ServerTypes, NEW c \in Calls, NEW kind \in {"write", "read"}, NEW b \in Backends, Serve(c, kind, b)
    PROVE  /\ stream' \in [Calls -> Stream \cup {NoStream}] /\ handler' \in [Calls -> Handler]
           /\ stream'[c].kind = kind /\ stream'[c].backend = b /\ Len(stream'[c].requests) = 0
           /\ stream'[c].requests = <<>> /\ stream'[c].status = "open" /\ handler'[c].pc = "new"
           /\ handler'[c].finished = FALSE
           /\ \A u \in Calls \ {c} : stream'[u] = stream[u] /\ handler'[u] = handler[u]
<1>1. OpenStream(kind, b) \in Stream
    BY DEF OpenStream, Stream, Statuses
<1>2. NewHandler \in Handler /\ NewHandler.pc = "new" /\ NewHandler.finished = FALSE
    <2>1. <<>> \in Data
        BY DEF Data
    <2> QED
        BY <2>1 DEF NewHandler, NoHandler, Handler, HandlerLabels
<1> QED
    BY <1>1, <1>2 DEF Serve, ServerTypes, OpenStream

\* A call begins for which the abstract store begins one as well.
LEMMA PutBegins ==
    ASSUME RemoteInvariant, NEW c \in Calls, NEW d \in Digests, BeginPut(c, d) \/ BeginUpload(c, d)
    PROVE  RemoteInvariant' /\ Store!Change
<1> DEFINE b == BackendOf(d)
<1> USE DEF RemoteInvariant
<1>1. PICK use : Begin(c, use, d)
    BY DEF BeginPut, BeginUpload
<1>2. b \in Backends
    BY RoutingAssumption
<1> HIDE DEF b
<1>3. /\ UNCHANGED <<store, offset, got, find>>
      /\ \/ Serve(c, "write", b) /\ pc' = [pc EXCEPT ![c] = "sending"]
         \/ Serve(c, "write", b) /\ pc' = [pc EXCEPT ![c] = "uploading"]
         \/ UNCHANGED <<stream, handler>> /\ pc' = [pc EXCEPT ![c] = "storing"]
    BY DEF BeginPut, BeginUpload, Goto, b
<1>4. /\ source' \in [Calls -> Data]
      /\ \A u \in Calls \ {c} : source'[u] = source[u]
      /\ pc'[c] = "storing" => source'[c] \in Seq(Pieces)
    <2>1. CASE BeginUpload(c, d)
        BY <2>1 DEF BeginUpload, ClientTypes, Goto
    <2>2. CASE BeginPut(c, d)
        <3>1. PICK s \in {Blob(d)} \cup Spoilt[d] : source' = [source EXCEPT ![c] = s]
            BY <2>2 DEF BeginPut
        <3>2. s \in Seq(Pieces) /\ s \in Data
            BY RemoteAssumption, BlobPieces, PiecesAreData
        <3> QED
            BY <3>1, <3>2 DEF ClientTypes
    <2> QED
        BY <2>1, <2>2
<1>5. /\ pc'[c] \in {"sending", "uploading", "storing"} /\ pc' \in [Calls -> Labels]
      /\ \A u \in Calls \ {c} : pc'[u] = pc[u]
    BY <1>3 DEF ClientTypes, Labels, WriteLabels, DirectLabels
<1>6. /\ ServerTypes' /\ \A u \in Calls \ {c} : stream'[u] = stream[u] /\ handler'[u] = handler[u]
      /\ \/ /\ pc'[c] \in {"sending", "uploading"} /\ stream'[c].kind = "write" /\ stream'[c].backend = b
            /\ Len(stream'[c].requests) = 0 /\ stream'[c].status = "open" /\ handler'[c].pc = "new"
            /\ handler'[c].finished = FALSE
         \/ pc'[c] = "storing" /\ handler'[c] = handler[c]
    <2>1. CASE Serve(c, "write", b)
        BY <1>2, <1>3, <2>1, ServeFacts DEF ServerTypes, ClientTypes
    <2>2. CASE UNCHANGED <<stream, handler>> /\ pc' = [pc EXCEPT ![c] = "storing"]
        BY <1>3, <2>2 DEF ServerTypes, ClientTypes
    <2> QED
        BY <1>3, <2>1, <2>2
<1>7. /\ pc[c] = "idle" /\ handler[c] = NoHandler /\ seen[c] = "nothing" /\ seen' = seen
      /\ Operations[c] = Store!Idle /\ ~Uploading(c)
      /\ digest' \in [Calls -> Digests \cup {NoName}] /\ digest'[c] = d
      /\ outcome' = [outcome EXCEPT ![c] = "none"] /\ answer' = [answer EXCEPT ![c] = {}]
      /\ answer' \in [Calls -> SUBSET Digests] /\ answer'[c] = {}
      /\ outcome' \in [Calls -> {"none", "OK", "NotFound", "error"}]
      /\ \A u \in Calls \ {c} : /\ digest'[u] = digest[u] /\ outcome'[u] = outcome[u]
                                /\ answer'[u] = answer[u] /\ seen'[u] = seen[u]
    BY <1>1, BeginFacts
<1>8. \A u \in Calls \ {c} : SameCall(u)
    BY <1>3, <1>4, <1>5, <1>6, <1>7 DEF SameCall
<1>9. ClientTypes'
    BY <1>3, <1>4, <1>5, <1>7 DEF ClientTypes
<1>10. CallFine(c)'
    BY <1>4, <1>5, <1>6, <1>7 DEF CallFine, StreamServesCall, SeenIsTold, WriteLabels, ReadLabels, DirectLabels,
       NoHandler, b
<1>11. RemoteInvariant'
    BY <1>6, <1>8, <1>9, <1>10, OtherCalls
<1>12. Content' = Content
    BY <1>3 DEF Content, State
<1>13. Operation(c)' = [kind |-> "put", digest |-> d, seen |-> "nothing"] /\ Uploading(c)'
    BY <1>5, <1>7 DEF Operation, Uploading, Putting
<1>14. /\ Operations' = [Operations EXCEPT ![c] = [kind |-> "put", digest |-> d, seen |-> "nothing"]]
       /\ Uploads' = Uploads \cup {d}
    BY <1>7, <1>8, <1>13, MappedCalls
<1>15. Store!BeginPut(c, d)
    BY <1>7, <1>12, <1>14 DEF Store!BeginPut, Store!Begin
<1> QED
    BY <1>11, <1>15 DEF Store!Change

LEMMA GetBegins ==
    ASSUME RemoteInvariant, NEW c \in Calls, NEW d \in Digests, BeginGet(c, d)
    PROVE  RemoteInvariant' /\ Store!Change
<1> DEFINE b == BackendOf(d)
<1> USE DEF RemoteInvariant
<1>1. Begin(c, "Get", d)
    BY DEF BeginGet
<1>2. b \in Backends
    BY RoutingAssumption
<1> HIDE DEF b
<1>3. /\ UNCHANGED <<store, source, offset, got, find>>
      /\ \/ Serve(c, "read", b) /\ pc' = [pc EXCEPT ![c] = "opening"]
         \/ UNCHANGED <<stream, handler>> /\ pc' = [pc EXCEPT ![c] = "looking"]
    BY DEF BeginGet, Goto, b
<1>5. /\ pc'[c] \in {"opening", "looking"} /\ pc' \in [Calls -> Labels]
      /\ \A u \in Calls \ {c} : pc'[u] = pc[u]
    BY <1>3 DEF ClientTypes, Labels, ReadLabels, DirectLabels
<1>6. /\ ServerTypes' /\ \A u \in Calls \ {c} : stream'[u] = stream[u] /\ handler'[u] = handler[u]
      /\ \/ /\ pc'[c] = "opening" /\ stream'[c].kind = "read" /\ stream'[c].backend = b
            /\ Len(stream'[c].requests) = 0 /\ stream'[c].status = "open" /\ handler'[c].pc = "new"
            /\ handler'[c].finished = FALSE
         \/ pc'[c] = "looking" /\ handler'[c] = handler[c]
    <2>1. CASE Serve(c, "read", b)
        BY <1>2, <1>3, <2>1, ServeFacts DEF ServerTypes, ClientTypes
    <2>2. CASE UNCHANGED <<stream, handler>> /\ pc' = [pc EXCEPT ![c] = "looking"]
        BY <1>3, <2>2 DEF ServerTypes, ClientTypes
    <2> QED
        BY <1>3, <2>1, <2>2
<1>7. /\ pc[c] = "idle" /\ handler[c] = NoHandler /\ seen[c] = "nothing" /\ seen' = seen
      /\ Operations[c] = Store!Idle /\ ~Uploading(c)
      /\ digest' \in [Calls -> Digests \cup {NoName}] /\ digest'[c] = d
      /\ outcome' = [outcome EXCEPT ![c] = "none"] /\ answer' = [answer EXCEPT ![c] = {}]
      /\ answer' \in [Calls -> SUBSET Digests] /\ answer'[c] = {}
      /\ outcome' \in [Calls -> {"none", "OK", "NotFound", "error"}]
      /\ \A u \in Calls \ {c} : /\ digest'[u] = digest[u] /\ outcome'[u] = outcome[u]
                                /\ answer'[u] = answer[u] /\ seen'[u] = seen[u]
    BY <1>1, BeginFacts
<1>8. \A u \in Calls \ {c} : SameCall(u)
    BY <1>3, <1>5, <1>6, <1>7 DEF SameCall
<1>9. ClientTypes'
    BY <1>3, <1>5, <1>7 DEF ClientTypes
<1>10. CallFine(c)'
    BY <1>5, <1>6, <1>7 DEF CallFine, StreamServesCall, SeenIsTold, WriteLabels, ReadLabels, DirectLabels,
       NoHandler, b
<1>11. RemoteInvariant'
    BY <1>6, <1>8, <1>9, <1>10, OtherCalls
<1>12. Content' = Content
    BY <1>3 DEF Content, State
<1>13. Operation(c)' = [kind |-> "get", digest |-> d, seen |-> "nothing"] /\ ~Uploading(c)'
    BY <1>5, <1>6, <1>7 DEF Operation, Uploading, Putting, Getting, NoHandler
<1>14. /\ Operations' = [Operations EXCEPT ![c] = [kind |-> "get", digest |-> d, seen |-> "nothing"]]
       /\ Uploads' = Uploads
    BY <1>7, <1>8, <1>13, MappedCalls
<1>15. Store!BeginGet(c, d)
    BY <1>7, <1>12, <1>14 DEF Store!BeginGet, Store!Begin
<1> QED
    BY <1>11, <1>15 DEF Store!Change

LEMMA FindBegins ==
    ASSUME RemoteInvariant, NEW c \in Calls, NEW ds \in Queries, BeginFindMissing(c, ds)
    PROVE  RemoteInvariant' /\ Store!Change
<1> USE DEF RemoteInvariant
<1> DEFINE new == [NoFind EXCEPT !.digests = ds]
<1>1. /\ Begin(c, "FindMissing", NoName) /\ pc' = [pc EXCEPT ![c] = "finding"]
      /\ find' = [find EXCEPT ![c] = new]
      /\ UNCHANGED <<store, source, offset, got, stream, handler>>
    BY DEF BeginFindMissing, Goto
<1>2. new \in Find /\ new.digests = ds /\ new.looked = {} /\ new.missing = {}
    BY RemoteAssumption DEF NoFind, Find
<1> HIDE DEF new
<1>3. /\ pc[c] = "idle" /\ handler[c] = NoHandler /\ seen[c] = "nothing" /\ seen' = seen
      /\ Operations[c] = Store!Idle /\ ~Uploading(c)
      /\ digest' \in [Calls -> Digests \cup {NoName}]
      /\ outcome' = [outcome EXCEPT ![c] = "none"] /\ answer' = [answer EXCEPT ![c] = {}]
      /\ answer' \in [Calls -> SUBSET Digests] /\ answer'[c] = {}
      /\ outcome' \in [Calls -> {"none", "OK", "NotFound", "error"}]
      /\ \A u \in Calls \ {c} : /\ digest'[u] = digest[u] /\ outcome'[u] = outcome[u]
                                /\ answer'[u] = answer[u] /\ seen'[u] = seen[u]
    BY <1>1, BeginFacts
<1>4. ClientTypes' /\ ServerTypes' /\ pc'[c] = "finding" /\ find'[c] = new
    BY <1>1, <1>2, <1>3 DEF ClientTypes, ServerTypes, Labels
<1>5. \A u \in Calls \ {c} : SameCall(u)
    BY <1>1, <1>3 DEF SameCall, ClientTypes
<1>6. CallFine(c)'
    BY <1>1, <1>2, <1>3, <1>4 DEF CallFine, StreamServesCall, SeenIsTold, WriteLabels, ReadLabels, DirectLabels,
       NoHandler
<1>7. RemoteInvariant'
    BY <1>4, <1>5, <1>6, OtherCalls
<1>8. Content' = Content
    BY <1>1 DEF Content, State
<1>9. Operation(c)' = [kind |-> "find", digests |-> ds, looked |-> {}, missing |-> {}] /\ ~Uploading(c)'
    BY <1>1, <1>2, <1>3, <1>4 DEF Operation, Uploading, Putting, Getting, NoHandler
<1>10. /\ Operations' = [Operations EXCEPT ![c] = [kind |-> "find", digests |-> ds, looked |-> {}, missing |-> {}]]
       /\ Uploads' = Uploads
    BY <1>3, <1>5, <1>9, MappedCalls
<1>11. Store!BeginFindMissing(c, ds)
    BY <1>3, <1>8, <1>10 DEF Store!BeginFindMissing, Store!Begin
<1> QED
    BY <1>7, <1>11 DEF Store!Change

---------------------------------------------------------------------------
\* A step that the abstract store does not notice, but that may end an upload
\* that its client has given up.
LEMMA SilentStep ==
    ASSUME RemoteInvariant, NEW c \in Calls, \A u \in Calls \ {c} : SameCall(u),
           ClientTypes', ServerTypes', CallFine(c)', UNCHANGED <<store, outcome, answer>>,
           Operation(c)' = Operation(c), Uploading(c)' => Uploading(c) /\ digest'[c] = digest[c]
    PROVE  RemoteInvariant' /\ Store!Change
<1>1. RemoteInvariant'
    BY OtherCalls DEF RemoteInvariant
<1>2. Content' = Content
    BY DEF Content, State
<1>3. Operations' = Operations /\ Uploads' \subseteq Uploads
    BY MappedCalls
<1>4. Store!GiveUp
    BY <1>2, <1>3 DEF Store!GiveUp
<1> QED
    BY <1>1, <1>4 DEF Store!Change

\* Parts of a blob are data.
LEMMA PartsAreData ==
    ASSUME NEW s \in Data, NEW m \in Nat, NEW n \in Nat, n <= Len(s)
    PROVE  SubSeq(s, m + 1, n) \in Data
<1>1. \A i \in m + 1 .. n : s[i] \in Pieces \cup {<<"absent", 0>>}
    BY ElementOfSeq DEF Data
<1> QED
    BY <1>1, SubSeqProperties DEF Data

\* A request is put on an upload stream.
LEMMA RequestAdded ==
    ASSUME ServerTypes, NEW c \in Calls, stream[c].kind = "write", NEW r \in Message, NEW closed \in BOOLEAN,
           stream' = [stream EXCEPT ![c].requests = Append(@, r), ![c].closed = closed]
    PROVE  /\ stream' \in [Calls -> Stream \cup {NoStream}]
           /\ \A u \in Calls \ {c} : stream'[u] = stream[u]
           /\ stream'[c].kind = "write" /\ stream'[c].backend = stream[c].backend
           /\ stream'[c].status = stream[c].status /\ stream'[c].broken = stream[c].broken
           /\ stream'[c].closed = closed
           /\ stream'[c].requests = Append(stream[c].requests, r)
           /\ stream[c] \in Stream /\ stream'[c] \in Stream
<1>1. stream[c] \in Stream
    BY DEF ServerTypes, NoStream
<1> DEFINE new == [stream[c] EXCEPT !.requests = Append(@, r), !.closed = closed]
<1>2. stream' = [stream EXCEPT ![c] = new]
    OBVIOUS
<1>3. Append(stream[c].requests, r) \in Seq(Message)
    BY <1>1, AppendProperties DEF Stream
<1>4. new \in Stream
    BY <1>1, <1>3 DEF Stream
<1>5. /\ new.kind = "write" /\ new.backend = stream[c].backend
      /\ new.status = stream[c].status /\ new.broken = stream[c].broken
      /\ new.closed = closed
      /\ new.requests = Append(stream[c].requests, r)
    BY <1>1 DEF Stream
<1> HIDE DEF new
<1> QED
    BY <1>1, <1>2, <1>4, <1>5 DEF ServerTypes

\* The names in requests are those of the call's digest.
LEMMA NamesAdded ==
    ASSUME NEW c \in Calls, NEW s \in Seq(Message), NEW r \in Message, NEW d,
           \A i \in 1 .. Len(s) : s[i].name \in {d, NoName}, r.name \in {d, NoName}
    PROVE  \A i \in 1 .. Len(Append(s, r)) : Append(s, r)[i].name \in {d, NoName}
<1> DEFINE t == Append(s, r)
<1>1. Len(s) \in Nat /\ Len(t) = Len(s) + 1 /\ (\A i \in 1 .. Len(s) : t[i] = s[i]) /\ t[Len(s) + 1] = r
    BY AppendProperties, LenProperties
<1> HIDE DEF t
<1>2. \A i \in 1 .. Len(t) : t[i].name \in {d, NoName}
    BY <1>1
<1> QED
    BY <1>2 DEF t

\* Put and Bazel send a request.
LEMMA SendStep ==
    ASSUME RemoteInvariant, NEW c \in Calls, SendChunk(c) \/ SendLastChunk(c) \/ Upload(c)
    PROVE  RemoteInvariant' /\ Store!Change
<1> USE DEF RemoteInvariant
<1>1. /\ CallFine(c) /\ pc[c] \in {"sending", "uploading"} /\ stream[c].kind = "write"
      /\ source[c] \in Data /\ offset[c] \in Nat /\ digest[c] \in Digests
    BY DEF SendChunk, SendLastChunk, Upload, CallFine, StreamServesCall, SeenIsTold, WriteLabels, ClientTypes
<1>2. /\ UNCHANGED <<store, digest, got, find, handler, seen, outcome, answer>>
      /\ \/ pc' = [pc EXCEPT ![c] = "closing"] /\ pc[c] = "sending"
         \/ UNCHANGED pc
    BY DEF SendChunk, SendLastChunk, Upload, SendRequest, clientVars, resultVars, Goto
<1>3. \E r \in Message, closed \in BOOLEAN :
         /\ r.name \in {digest[c], NoName}
         /\ stream' = [stream EXCEPT ![c].requests = Append(@, r), ![c].closed = closed]
    <2>1. ASSUME NEW data \in Data, NEW finish \in BOOLEAN, SendRequest(c, data, finish)
          PROVE  \E r \in Message, closed \in BOOLEAN :
                    /\ r.name \in {digest[c], NoName}
                    /\ stream' = [stream EXCEPT ![c].requests = Append(@, r), ![c].closed = closed]
        <3> DEFINE r == Request(NameToSend(c), offset[c], data, finish)
        <3>1. NameToSend(c) \in {digest[c], NoName}
            BY DEF NameToSend
        <3>2. r \in Message /\ r.name = NameToSend(c)
            BY <1>1, <3>1 DEF Request, Message
        <3>3. stream' = [stream EXCEPT ![c].requests = Append(@, r), ![c].closed = finish]
            BY <2>1 DEF SendRequest, HalfCloses
        <3> HIDE DEF r
        <3> QED
            BY <3>1, <3>2, <3>3
    <2>2. CASE SendChunk(c)
        <3>1. PICK n \in 1 .. readChunkSize :
                 /\ offset[c] + n <= Len(source[c])
                 /\ SendRequest(c, SubSeq(source[c], offset[c] + 1, offset[c] + n), FALSE)
            BY <2>2 DEF SendChunk
        <3>2. n \in Nat /\ offset[c] + n \in Nat
            BY <1>1, RemoteAssumption
        <3>3. SubSeq(source[c], offset[c] + 1, offset[c] + n) \in Data
            BY <1>1, <3>1, <3>2, PartsAreData
        <3> QED
            BY <2>1, <3>1, <3>3
    <2>3. CASE SendLastChunk(c)
        <3>1. Rest(source[c], offset[c]) \in Data
            <4>1. Len(source[c]) \in Nat
                BY <1>1, LenProperties DEF Data
            <4> QED
                BY <1>1, <4>1, PartsAreData DEF Rest
        <3> QED
            BY <2>1, <2>3, <3>1 DEF SendLastChunk
    <2>4. CASE Upload(c)
        <3>1. PICK r \in BazelRequests : /\ r.name \in {digest[c], NoName}
                                         /\ stream' = [stream EXCEPT ![c].requests = Append(@, r)]
            BY <2>4 DEF Upload
        <3>2. r \in [name : Digests \cup {NoName}, offset : Nat, data : Seq(Pieces), finish : BOOLEAN]
            BY RemoteAssumption
        <3>3. r.data \in Data
            <4>1. r.data \in Seq(Pieces)
                BY <3>2
            <4> QED
                BY <4>1, SeqMonotonic DEF Data
        <3>4. r \in Message
            BY <3>2, <3>3 DEF Message
        <3>5. stream[c] \in Stream
            BY <1>1 DEF ServerTypes, NoStream
        <3>6. [stream[c] EXCEPT !.requests = Append(@, r), !.closed = stream[c].closed]
                 = [stream[c] EXCEPT !.requests = Append(@, r)]
            BY <3>5 DEF Stream
        <3>7. stream' = [stream EXCEPT ![c].requests = Append(@, r), ![c].closed = stream[c].closed]
            BY <3>1, <3>6 DEF ServerTypes
        <3>8. stream[c].closed \in BOOLEAN
            BY <3>5 DEF Stream
        <3> QED
            BY <3>1, <3>4, <3>7, <3>8
    <2> QED
        BY <2>2, <2>3, <2>4
<1>4. PICK r \in Message, closed \in BOOLEAN :
         /\ r.name \in {digest[c], NoName}
         /\ stream' = [stream EXCEPT ![c].requests = Append(@, r), ![c].closed = closed]
    BY <1>3
<1>5. /\ stream' \in [Calls -> Stream \cup {NoStream}]
      /\ \A u \in Calls \ {c} : stream'[u] = stream[u]
      /\ stream'[c].kind = "write" /\ stream'[c].backend = stream[c].backend
      /\ stream'[c].status = stream[c].status
      /\ stream'[c].requests = Append(stream[c].requests, r)
      /\ stream[c].requests \in Seq(Message)
    BY <1>1, <1>4, RequestAdded DEF Stream
<1>6. /\ source' \in [Calls -> Data] /\ offset' \in [Calls -> Nat]
      /\ \A u \in Calls \ {c} : source'[u] = source[u] /\ offset'[u] = offset[u]
    <2>1. <<>> \in Data
        BY DEF Data
    <2>2. CASE SendChunk(c)
        BY <2>2, RemoteAssumption DEF SendChunk, Sent, ClientTypes
    <2>3. CASE SendLastChunk(c)
        BY <2>1, <2>3 DEF SendLastChunk, ClientTypes
    <2>4. CASE Upload(c)
        BY <2>4 DEF Upload, clientVars, ClientTypes
    <2> QED
        BY <2>2, <2>3, <2>4
<1>7. ClientTypes' /\ ServerTypes'
    BY <1>2, <1>5, <1>6 DEF ClientTypes, ServerTypes, Labels, WriteLabels
<1>8. \A u \in Calls \ {c} : SameCall(u)
    BY <1>2, <1>5, <1>6 DEF SameCall, ClientTypes
<1>9. pc'[c] \in WriteLabels /\ pc[c] \in WriteLabels
    BY <1>1, <1>2 DEF ClientTypes, WriteLabels
<1>10. handler[c].pc # "none" =>
          \A i \in 1 .. Len(stream'[c].requests) : stream'[c].requests[i].name \in {digest[c], NoName}
    BY <1>1, <1>4, <1>5, NamesAdded DEF CallFine, StreamServesCall
<1>11. CallFine(c)'
    BY <1>1, <1>2, <1>5, <1>9, <1>10 DEF CallFine, StreamServesCall, SeenIsTold, WriteLabels, ReadLabels, DirectLabels
<1>12. Operation(c)' = Operation(c) /\ Uploading(c)
    BY <1>2, <1>9 DEF Operation, Putting, Uploading, WriteLabels
<1> QED
    BY <1>2, <1>7, <1>8, <1>11, <1>12, SilentStep

\* Bazel half-closes its stream, or gives up.
LEMMA UploadEndStep ==
    ASSUME RemoteInvariant, NEW c \in Calls, UploadEnds(c)
    PROVE  RemoteInvariant' /\ Store!Change
<1> USE DEF RemoteInvariant
<1>1. CASE ReturnWith(c, "error") /\ UNCHANGED answer
    BY <1>1, LeaveWithError DEF UploadEnds, ReturnWith
<1>2. CASE /\ stream' = [stream EXCEPT ![c].closed = TRUE]
           /\ Goto(c, "awaiting")
           /\ UNCHANGED <<digest, source, offset, got, find, resultVars>>
    <2>1. CallFine(c) /\ pc[c] = "uploading" /\ UNCHANGED <<store, handler>> /\ stream[c].kind = "write"
        BY DEF UploadEnds, CallFine, StreamServesCall, WriteLabels
    <2>2. stream[c] \in Stream
        BY <2>1 DEF ServerTypes, NoStream
    <2>3. /\ stream'[c] \in Stream /\ stream'[c].kind = "write" /\ stream'[c].backend = stream[c].backend
          /\ stream'[c].status = stream[c].status /\ stream'[c].requests = stream[c].requests
        <3> DEFINE new == [stream[c] EXCEPT !.closed = TRUE]
        <3>1. stream' = [stream EXCEPT ![c] = new]
            BY <1>2
        <3>2. /\ new \in Stream /\ new.kind = stream[c].kind /\ new.backend = stream[c].backend
              /\ new.status = stream[c].status /\ new.requests = stream[c].requests
            BY <2>2 DEF Stream
        <3> HIDE DEF new
        <3> QED
            BY <2>1, <3>1, <3>2 DEF ServerTypes
    <2>4. ClientTypes' /\ ServerTypes' /\ pc'[c] = "awaiting" /\ \A u \in Calls \ {c} : SameCall(u)
        <3>1. pc' \in [Calls -> Labels] /\ pc'[c] = "awaiting" /\ \A u \in Calls \ {c} : pc'[u] = pc[u]
            BY <1>2 DEF Goto, ClientTypes, Labels, WriteLabels
        <3>2. stream' \in [Calls -> Stream \cup {NoStream}] /\ \A u \in Calls \ {c} : stream'[u] = stream[u]
            BY <1>2, <2>3 DEF ServerTypes
        <3> QED
            BY <1>2, <2>1, <3>1, <3>2 DEF ClientTypes, ServerTypes, SameCall, resultVars
    <2>5. CallFine(c)'
        BY <1>2, <2>1, <2>3, <2>4 DEF CallFine, StreamServesCall, SeenIsTold, WriteLabels, ReadLabels, DirectLabels,
           resultVars
    <2>6. Operation(c)' = Operation(c) /\ Uploading(c) /\ digest'[c] = digest[c]
        BY <1>2, <2>1, <2>4 DEF Operation, Putting, Uploading, resultVars
    <2> QED
        BY <1>2, <2>1, <2>4, <2>5, <2>6, SilentStep DEF resultVars
<1> QED
    BY <1>1, <1>2 DEF UploadEnds

\* The context of a call that is over ends.
LEMMA ContextStep ==
    ASSUME RemoteInvariant, NEW c \in Calls, ContextDone(c)
    PROVE  RemoteInvariant' /\ Store!Change
<1> USE DEF RemoteInvariant, ContextDone
<1>1. CallFine(c) /\ pc[c] = "idle" /\ handler[c].pc # "none"
      /\ UNCHANGED <<store, pc, digest, source, offset, got, find, handler, seen, outcome, answer>>
    BY DEF clientVars, resultVars
<1>2. stream[c] \in Stream
    BY <1>1 DEF ServerTypes, NoStream, CallFine, StreamServesCall
<1>3. /\ stream'[c] \in Stream /\ stream'[c].kind = stream[c].kind /\ stream'[c].backend = stream[c].backend
      /\ stream'[c].status = stream[c].status /\ stream'[c].requests = stream[c].requests
    BY <1>2 DEF ServerTypes, Stream
<1>4. stream' \in [Calls -> Stream \cup {NoStream}] /\ \A u \in Calls \ {c} : stream'[u] = stream[u]
    BY <1>3 DEF ServerTypes
<1>5. ClientTypes' /\ ServerTypes' /\ \A u \in Calls \ {c} : SameCall(u)
    BY <1>1, <1>4 DEF ClientTypes, ServerTypes, SameCall
<1>6. CallFine(c)'
    BY <1>1, <1>3 DEF CallFine, StreamServesCall, SeenIsTold, WriteLabels, ReadLabels, DirectLabels
<1>7. Operation(c)' = Operation(c) /\ (Uploading(c)' <=> Uploading(c)) /\ digest'[c] = digest[c]
    BY <1>1, <1>3 DEF Operation, Putting, Getting, Uploading
<1> QED
    BY <1>1, <1>5, <1>6, <1>7, SilentStep

\* The client receives a chunk.
LEMMA RecvChunkStep ==
    ASSUME RemoteInvariant, NEW c \in Calls, RecvChunk(c)
    PROVE  RemoteInvariant' /\ Store!Change
<1> USE DEF RemoteInvariant, RecvChunk
<1>1. CallFine(c) /\ pc[c] \in ReadLabels /\ stream[c].kind = "read"
      /\ UNCHANGED <<store, digest, source, offset, find, handler, seen, outcome, answer>>
    BY DEF CallFine, StreamServesCall, ReadLabels, resultVars
<1>2. stream[c] \in Stream /\ stream[c].chunks \in Seq(Data) /\ stream[c].chunks # <<>>
    BY <1>1 DEF ServerTypes, NoStream, Stream
<1>3. Head(stream[c].chunks) \in Data /\ Tail(stream[c].chunks) \in Seq(Data)
    BY <1>2, HeadTailProperties
<1>4. got[c] \o Head(stream[c].chunks) \in Data
    BY <1>3, ConcatProperties DEF ClientTypes, Data
<1>5. /\ stream'[c] \in Stream /\ stream'[c].kind = stream[c].kind /\ stream'[c].backend = stream[c].backend
      /\ stream'[c].status = stream[c].status /\ stream'[c].requests = stream[c].requests
    BY <1>2, <1>3 DEF ServerTypes, Stream
<1>6. stream' \in [Calls -> Stream \cup {NoStream}] /\ \A u \in Calls \ {c} : stream'[u] = stream[u]
    BY <1>5 DEF ServerTypes
<1>7. pc' \in [Calls -> Labels] /\ pc'[c] = "reading" /\ \A u \in Calls \ {c} : pc'[u] = pc[u]
    BY DEF Goto, ClientTypes, Labels, ReadLabels
<1>8. got' \in [Calls -> Data] /\ \A u \in Calls \ {c} : got'[u] = got[u]
    BY <1>4 DEF ClientTypes
<1>9. ClientTypes' /\ ServerTypes' /\ \A u \in Calls \ {c} : SameCall(u)
    BY <1>1, <1>6, <1>7, <1>8 DEF ClientTypes, ServerTypes, SameCall
<1>10. CallFine(c)'
    BY <1>1, <1>5, <1>7 DEF CallFine, StreamServesCall, SeenIsTold, WriteLabels, ReadLabels, DirectLabels, State
<1>11. Operation(c)' = Operation(c) /\ (Uploading(c)' => Uploading(c)) /\ digest'[c] = digest[c]
    BY <1>1, <1>5, <1>7 DEF Operation, Putting, Getting, Uploading, ReadLabels
<1> QED
    BY <1>1, <1>9, <1>10, <1>11, SilentStep

\* The call of FindMissing to one backend fails.
LEMMA FindFailsStep ==
    ASSUME RemoteInvariant, NEW c \in Calls, NEW b \in Backends, FindFails(c, b)
    PROVE  RemoteInvariant' /\ Store!Change
<1> USE DEF RemoteInvariant, FindFails
<1>1. CallFine(c) /\ pc[c] = "finding"
      /\ UNCHANGED <<store, pc, digest, source, offset, got, stream, handler, seen, outcome, answer>>
    BY DEF clientVars, resultVars
<1>2. /\ find' \in [Calls -> Find] /\ \A u \in Calls \ {c} : find'[u] = find[u]
      /\ find'[c].digests = find[c].digests /\ find'[c].looked = find[c].looked
      /\ find'[c].missing = find[c].missing
    BY DEF ClientTypes, Find
<1>3. ClientTypes' /\ ServerTypes' /\ \A u \in Calls \ {c} : SameCall(u)
    BY <1>1, <1>2 DEF ClientTypes, ServerTypes, SameCall
<1>4. CallFine(c)'
    BY <1>1, <1>2 DEF CallFine, StreamServesCall, SeenIsTold, WriteLabels, ReadLabels, DirectLabels
<1>5. Operation(c)' = Operation(c) /\ (Uploading(c)' <=> Uploading(c)) /\ digest'[c] = digest[c]
    BY <1>1, <1>2 DEF Operation, Putting, Getting, Uploading
<1> QED
    BY <1>1, <1>3, <1>4, <1>5, SilentStep

\* A record is given by its fields.
LEMMA FindRecord ==
    ASSUME NEW ds, NEW l, NEW m, NEW f \in [kind : {"find"}, digests : {ds}, looked : {l}, missing : {m}]
    PROVE  f = [kind |-> "find", digests |-> ds, looked |-> l, missing |-> m]
OBVIOUS

\* A store is asked for a digest.
LEMMA LookForStep ==
    ASSUME RemoteInvariant, NEW c \in Calls, NEW d \in Digests, LookFor(c, d)
    PROVE  RemoteInvariant' /\ Store!Change
<1> USE DEF RemoteInvariant, LookFor
<1>1. CallFine(c) /\ pc[c] = "finding" /\ d \in find[c].digests \ find[c].looked
      /\ UNCHANGED <<store, pc, digest, source, offset, got, stream, handler, seen, outcome, answer>>
    BY DEF clientVars, resultVars
<1>2. SplitOf(d) = BackendOf(d)
    BY DEF SplitOf, Split, BackendOf, Backend
<1> DEFINE missing == IF Content[d] = "absent" THEN find[c].missing \cup {d} ELSE find[c].missing
<1>3. Content[d] = "absent" <=> store[SplitOf(d)][d] = Absent
    BY <1>2, StateOf DEF Content
<1>4. /\ find' \in [Calls -> Find] /\ \A u \in Calls \ {c} : find'[u] = find[u]
      /\ find'[c].digests = find[c].digests /\ find'[c].looked = find[c].looked \cup {d}
      /\ find'[c].missing = missing
    BY <1>3 DEF ClientTypes, Find
<1> HIDE DEF missing
<1>5. ClientTypes' /\ ServerTypes' /\ \A u \in Calls \ {c} : SameCall(u)
    BY <1>1, <1>4 DEF ClientTypes, ServerTypes, SameCall
<1>6. CallFine(c)'
    BY <1>1, <1>4 DEF CallFine, StreamServesCall, SeenIsTold, WriteLabels, ReadLabels, DirectLabels
<1>7. RemoteInvariant'
    BY <1>5, <1>6, OtherCalls
<1>8. /\ Operations[c] = [kind |-> "find", digests |-> find[c].digests, looked |-> find[c].looked,
                          missing |-> find[c].missing]
      /\ Operation(c)' = [kind |-> "find", digests |-> find[c].digests, looked |-> find[c].looked \cup {d},
                          missing |-> missing]
      /\ (Uploading(c)' <=> Uploading(c)) /\ digest'[c] = digest[c]
    BY <1>1, <1>4 DEF Operations, Operation, Putting, Getting, Uploading
<1>9. /\ Operations' = [Operations EXCEPT ![c] = [kind |-> "find", digests |-> find[c].digests,
                            looked |-> find[c].looked \cup {d}, missing |-> missing]]
      /\ Uploads' = Uploads /\ Content' = Content
    BY <1>1, <1>5, <1>8, MappedCalls DEF Content, State
<1>10. Operations' = [Operations EXCEPT ![c].looked = @ \cup {d},
                                        ![c].missing = IF Content[d] = "absent" THEN @ \cup {d} ELSE @]
    <2>1. DOMAIN Operations = Calls
        BY DEF Operations
    <2>2. [Operations[c] EXCEPT !.looked = find[c].looked \cup {d}, !.missing = missing]
             = [kind |-> "find", digests |-> find[c].digests, looked |-> find[c].looked \cup {d},
                missing |-> missing]
        <3> DEFINE r == Operations[c]
                   ds == find[c].digests
                   l == find[c].looked
                   m == find[c].missing
                   newL == l \cup {d}
        <3>1. r = [kind |-> "find", digests |-> ds, looked |-> l, missing |-> m]
            BY <1>8
        <3> DEFINE f == [r EXCEPT !.looked = newL, !.missing = missing]
        <3> HIDE DEF r, ds, l, m, newL
        <3>2. f \in [kind : {"find"}, digests : {ds}, looked : {newL}, missing : {missing}]
            BY <3>1
        <3> HIDE DEF f
        <3>3. f = [kind |-> "find", digests |-> ds, looked |-> newL, missing |-> missing]
            BY <3>2, FindRecord
        <3> QED
            BY <3>3 DEF f, r, ds, l, newL
    <2>3. Operations' = [Operations EXCEPT ![c] =
                            [Operations[c] EXCEPT !.looked = find[c].looked \cup {d}, !.missing = missing]]
        BY <1>9, <2>2
    <2>4. Operations[c].missing = find[c].missing /\ Operations[c].looked = find[c].looked
        BY <1>8
    <2> QED
        BY <2>1, <2>3, <2>4 DEF missing
<1>11. /\ Operations[c].kind = "find" /\ d \in Operations[c].digests \ Operations[c].looked
    BY <1>1, <1>8
<1>12. Store!LookFor(c, d)
    BY <1>1, <1>9, <1>10, <1>11 DEF Store!LookFor
<1> QED
    BY <1>7, <1>12 DEF Store!Change

---------------------------------------------------------------------------
\* A handler returns.  Its status reaches a call that is still there.
LEMMA HandlerLeaves ==
    ASSUME RemoteInvariant, NEW c \in Calls, handler[c].pc # "none",
           NEW status \in {"OK", "NotFound", "InvalidArgument", "error"}, HandlerReturns(c, status),
           UNCHANGED <<outcome, answer>>, seen' \in [Calls -> Seen],
           \A u \in Calls \ {c} : seen'[u] = seen[u],
           pc[c] = "idle" => seen'[c] = seen[c],
           pc[c] \in WriteLabels /\ status = "OK" => seen'[c] = "stored",
           pc[c] \in ReadLabels /\ status = "OK" => seen'[c] = "whole",
           pc[c] \in ReadLabels /\ status = "NotFound" => seen'[c] = "absent"
    PROVE  /\ \A u \in Calls \ {c} : SameCall(u)
           /\ ClientTypes' /\ stream' \in [Calls -> Stream \cup {NoStream}] /\ handler' \in [Calls -> Handler]
           /\ CallFine(c)' /\ pc'[c] = pc[c] /\ find' = find /\ handler'[c].pc = "none"
           /\ pc[c] # "idle" => digest'[c] = digest[c]
           /\ Uploading(c)' => Uploading(c) /\ digest'[c] = digest[c]
           /\ stream[c].kind = "read" => ~Uploading(c) /\ ~Uploading(c)'
<1> USE DEF RemoteInvariant
<1>1. CallFine(c) /\ pc[c] \in Labels /\ pc[c] \in WriteLabels \cup ReadLabels \cup {"idle"}
      /\ digest[c] \in Digests /\ stream[c] \in Stream \cup {NoStream}
    BY DEF ClientTypes, ServerTypes, CallFine, StreamServesCall
<1>2. stream[c] \in Stream
    BY <1>1 DEF CallFine, StreamServesCall, NoStream
<1>3. UNCHANGED <<pc, source, offset, got, find>> /\ handler' = [handler EXCEPT ![c] = NoHandler]
      /\ stream' = [stream EXCEPT ![c] =
            IF pc[c] = "idle" THEN NoStream ELSE [@ EXCEPT !.status = status, !.requests = <<>>]]
      /\ digest' = [digest EXCEPT ![c] = IF pc[c] = "idle" THEN NoName ELSE @]
    BY DEF HandlerReturns
<1>4. NoHandler \in Handler /\ NoHandler.pc = "none"
    <2>1. <<>> \in Data
        BY DEF Data
    <2> QED
        BY <2>1 DEF NoHandler, Handler, HandlerLabels
<1>5. handler' \in [Calls -> Handler] /\ handler'[c].pc = "none" /\ \A u \in Calls \ {c} : handler'[u] = handler[u]
    BY <1>3, <1>4 DEF ServerTypes
<1>6. pc[c] # "idle" => /\ stream'[c] \in Stream /\ stream'[c].kind = stream[c].kind /\ stream'[c].status = status
    <2> DEFINE new == [stream[c] EXCEPT !.status = status, !.requests = <<>>]
    <2>1. new \in Stream /\ new.kind = stream[c].kind /\ new.status = status
        <3>1. <<>> \in Seq(Message)
            BY EmptySeq
        <3>2. new \in Stream
            BY <1>2, <3>1 DEF Stream, Statuses
        <3> QED
            BY <1>2, <3>2 DEF Stream
    <2> HIDE DEF new
    <2>2. pc[c] # "idle" => stream'[c] = new
        BY <1>3 DEF ServerTypes, new
    <2> QED
        BY <2>1, <2>2
<1>7. pc[c] = "idle" => stream'[c] = NoStream
    BY <1>3 DEF ServerTypes
<1>8. stream' \in [Calls -> Stream \cup {NoStream}] /\ \A u \in Calls \ {c} : stream'[u] = stream[u]
    <2>1. stream'[c] \in Stream \cup {NoStream}
        BY <1>6, <1>7
    <2> QED
        BY <1>3, <2>1 DEF ServerTypes
<1>9. /\ digest' \in [Calls -> Digests \cup {NoName}] /\ \A u \in Calls \ {c} : digest'[u] = digest[u]
      /\ pc[c] # "idle" => digest'[c] = digest[c]
    BY <1>3 DEF ClientTypes
<1>10. ClientTypes' /\ \A u \in Calls \ {c} : SameCall(u)
    BY <1>3, <1>5, <1>8, <1>9 DEF ClientTypes, SameCall
<1>11. CallFine(c)'
    <2>1. StreamServesCall(c)'
        BY <1>1, <1>3, <1>5, <1>6 DEF CallFine, StreamServesCall, WriteLabels, ReadLabels
    <2>2. SeenIsTold(c)'
        BY <1>1, <1>3, <1>5, <1>6, <1>9 DEF CallFine, SeenIsTold, WriteLabels, ReadLabels, DirectLabels
    <2> QED
        BY <2>1, <2>2 DEF CallFine
<1>12. Uploading(c)' => Uploading(c) /\ digest'[c] = digest[c]
    BY <1>3, <1>5, <1>9 DEF Uploading, Putting
<1>13. stream[c].kind = "read" => ~Uploading(c) /\ ~Uploading(c)'
    BY <1>1, <1>3, <1>5 DEF Uploading, Putting, CallFine, StreamServesCall, WriteLabels, ReadLabels
<1> QED
    BY <1>3, <1>5, <1>8, <1>9, <1>10, <1>11, <1>12, <1>13

\* A handler returns without having touched the store, or having told anything
\* new.
LEMMA HandlerLeavesSilently ==
    ASSUME RemoteInvariant, NEW c \in Calls, handler[c].pc # "none",
           NEW status \in {"OK", "InvalidArgument", "error"}, HandlerReturns(c, status),
           UNCHANGED <<store, resultVars>>,
           status = "OK" => pc[c] \notin WriteLabels /\ (pc[c] \in ReadLabels => seen[c] = "whole")
    PROVE  RemoteInvariant' /\ Store!Change
<1>1. UNCHANGED <<seen, outcome, answer>> /\ seen' \in [Calls -> Seen]
    BY DEF resultVars, RemoteInvariant, ClientTypes
<1>2. /\ \A u \in Calls \ {c} : SameCall(u)
      /\ ClientTypes' /\ stream' \in [Calls -> Stream \cup {NoStream}] /\ handler' \in [Calls -> Handler]
      /\ CallFine(c)' /\ pc'[c] = pc[c] /\ find' = find
      /\ pc[c] # "idle" => digest'[c] = digest[c]
      /\ Uploading(c)' => Uploading(c) /\ digest'[c] = digest[c]
    BY <1>1, HandlerLeaves
<1>3. ServerTypes'
    BY <1>2 DEF ServerTypes, RemoteInvariant
<1>4. Operation(c)' = Operation(c)
    BY <1>1, <1>2 DEF Operation, Putting, Getting
<1> QED
    BY <1>1, <1>2, <1>3, <1>4, SilentStep

\* Errors of handlers, and downloads that end as they should.
LEMMA HandlerEndStep ==
    ASSUME RemoteInvariant, NEW c \in Calls,
           WriteRejects(c) \/ HandlerAborts(c) \/ HandlerFails(c) \/ ReadEnds(c)
    PROVE  RemoteInvariant' /\ Store!Change
<1> USE DEF RemoteInvariant
<1>1. CallFine(c)
    OBVIOUS
<1>2. CASE WriteRejects(c)
    BY <1>2, HandlerLeavesSilently DEF WriteRejects, AtEOF
<1>3. CASE HandlerAborts(c) \/ HandlerFails(c)
    BY <1>3, HandlerLeavesSilently DEF HandlerAborts, HandlerFails
<1>4. CASE ReadEnds(c)
    <2>1. handler[c].pc = "reading" /\ handler[c].digest = digest[c] /\ digest[c] \in Digests
          /\ pc[c] \notin WriteLabels
        BY <1>1, <1>4 DEF ReadEnds, CallFine, StreamServesCall
    <2>2. pc[c] \in ReadLabels => seen[c] = "whole"
        BY <1>1, <1>4, <2>1, StateOf DEF ReadEnds, Matches, CallFine, SeenIsTold
    <2> QED
        BY <1>4, <2>1, <2>2, HandlerLeavesSilently DEF ReadEnds
<1> QED
    BY <1>2, <1>3, <1>4

\* A handler changes its own state, or takes a request, or sends a chunk.
LEMMA HandlerContinues ==
    ASSUME RemoteInvariant, NEW c \in Calls, handler[c].pc # "none", NEW h \in Handler, HandlerGoesOn(c, h),
           UNCHANGED <<outcome, answer>>, seen' \in [Calls -> Seen],
           \A u \in Calls \ {c} : seen'[u] = seen[u],
           stream' \in [Calls -> Stream \cup {NoStream}], \A u \in Calls \ {c} : stream'[u] = stream[u],
           stream'[c].kind = stream[c].kind, stream'[c].backend = stream[c].backend,
           stream'[c].status = stream[c].status,
           \A i \in 1 .. Len(stream'[c].requests) : stream'[c].requests[i].name \in {digest[c], NoName},
           \/ stream[c].kind = "write" /\ h.pc = "writing" /\ seen' = seen
           \/ stream[c].kind = "read" /\ h.pc \in {"reading", "discarding"},
           h.digest = digest[c], pc[c] = "idle" => seen'[c] = seen[c],
           pc[c] \in ReadLabels => /\ stream[c].status \notin {"OK", "NotFound"} \/ seen'[c] = seen[c]
                                   /\ h.pc = "reading" => seen'[c] = State(h.data, digest[c])
    PROVE  /\ \A u \in Calls \ {c} : SameCall(u)
           /\ store' \in [Backends -> [Digests -> Data]] => ServerTypes'
           /\ ClientTypes' /\ CallFine(c)'
           /\ UNCHANGED <<pc, digest, find>> /\ (Uploading(c)' <=> Uploading(c))
<1> USE DEF RemoteInvariant
<1>1. UNCHANGED <<pc, digest, source, offset, got, find>> /\ handler' = [handler EXCEPT ![c] = h]
    BY DEF HandlerGoesOn, clientVars
<1>2. /\ handler' \in [Calls -> Handler] /\ handler'[c] = h /\ \A u \in Calls \ {c} : handler'[u] = handler[u]
    BY <1>1 DEF ServerTypes
<1>3. CallFine(c)
    OBVIOUS
<1>4. \A u \in Calls \ {c} : SameCall(u)
    BY <1>1, <1>2 DEF SameCall
<1>5. ClientTypes' /\ (store' \in [Backends -> [Digests -> Data]] => ServerTypes')
    BY <1>1, <1>2 DEF ClientTypes, ServerTypes
<1>6. StreamServesCall(c)'
    BY <1>1, <1>2, <1>3 DEF CallFine, StreamServesCall
<1>7. SeenIsTold(c)'
    <2>1. pc[c] \in WriteLabels => seen' = seen
        BY <1>3 DEF CallFine, StreamServesCall, WriteLabels
    <2>2. pc[c] \in WriteLabels \cup ReadLabels \cup {"idle"}
        BY <1>3 DEF CallFine, StreamServesCall
    <2> QED
        BY <1>1, <1>2, <1>3, <2>1, <2>2 DEF CallFine, SeenIsTold, WriteLabels, ReadLabels, DirectLabels, State
<1>8. Uploading(c)' <=> Uploading(c)
    BY <1>1, <1>2 DEF Uploading, Putting
<1> QED
    BY <1>1, <1>4, <1>5, <1>6, <1>7, <1>8 DEF CallFine

\* The server takes the next request from the stream.
LEMMA WriteReceivesStep ==
    ASSUME RemoteInvariant, NEW c \in Calls, WriteReceives(c)
    PROVE  RemoteInvariant' /\ Store!Change
<1> USE DEF RemoteInvariant
<1> DEFINE h == handler[c]
           r == Head(stream[c].requests)
           d == IF h.pc = "new" THEN r.name ELSE h.digest
           ok == /\ IF h.pc = "new" THEN AcceptsFirst(r) ELSE Accepts(h, r)
                 /\ ~TooLong(h.data \o r.data, d)
<1>1. /\ CallFine(c) /\ stream[c].kind = "write" /\ h.pc \in {"new", "writing"} /\ stream[c].requests # <<>>
      /\ h \in Handler
    BY DEF WriteReceives, ServerTypes
<1>2. stream[c] \in Stream /\ stream[c].requests \in Seq(Message)
    BY <1>1 DEF ServerTypes, NoStream, Stream
<1>3. /\ r \in Message /\ Tail(stream[c].requests) \in Seq(Message)
      /\ Len(Tail(stream[c].requests)) = Len(stream[c].requests) - 1
      /\ \A i \in 1 .. Len(Tail(stream[c].requests)) : Tail(stream[c].requests)[i] = stream[c].requests[i + 1]
      /\ Len(stream[c].requests) \in Nat \ {0} /\ r = stream[c].requests[1]
    BY <1>1, <1>2, HeadTailProperties, EmptySeq
<1>4. CASE ok /\ HandlerGoesOn(c, Received(h, d, r)) /\ stream' = [stream EXCEPT ![c].requests = Tail(@)]
    <2>1. d = digest[c] /\ d \in Digests
        <3>1. \A i \in 1 .. Len(stream[c].requests) : stream[c].requests[i].name \in {digest[c], NoName}
            BY <1>1 DEF CallFine, StreamServesCall
        <3>2. r.name \in {digest[c], NoName}
            BY <1>3, <3>1
        <3>3. digest[c] \in Digests /\ (h.pc # "new" => h.digest = digest[c])
            BY <1>1 DEF CallFine, StreamServesCall
        <3> QED
            BY <1>4, <3>2, <3>3 DEF AcceptsFirst
    <2>2. h.data \o r.data \in Data
        BY <1>1, <1>3, ConcatProperties DEF Handler, Message, Data
    <2> DEFINE new == Received(h, d, r)
    <2>3. new \in Handler /\ new.pc = "writing" /\ new.digest = d
        BY <1>1, <1>3, <2>1, <2>2 DEF Received, Handler, Message, HandlerLabels
    <2> DEFINE s == [stream[c] EXCEPT !.requests = Tail(@)]
    <2>4. /\ s \in Stream /\ s.kind = stream[c].kind /\ s.backend = stream[c].backend
          /\ s.status = stream[c].status /\ s.requests = Tail(stream[c].requests)
        BY <1>2, <1>3 DEF Stream
    <2>5. stream' = [stream EXCEPT ![c] = s]
        BY <1>4
    <2> HIDE DEF s
    <2>6. stream' \in [Calls -> Stream \cup {NoStream}] /\ stream'[c] = s /\ \A u \in Calls \ {c} : stream'[u] = stream[u]
        BY <2>4, <2>5 DEF ServerTypes
    <2>7. \A i \in 1 .. Len(s.requests) : s.requests[i].name \in {digest[c], NoName}
        <3>1. \A i \in 1 .. Len(stream[c].requests) : stream[c].requests[i].name \in {digest[c], NoName}
            BY <1>1 DEF CallFine, StreamServesCall
        <3>2. ASSUME NEW i \in 1 .. Len(s.requests)
              PROVE  i + 1 \in 1 .. Len(stream[c].requests) /\ s.requests[i] = stream[c].requests[i + 1]
            BY <1>3, <2>4
        <3> QED
            BY <3>1, <3>2
    <2>8. HandlerGoesOn(c, new)
        BY <1>4
    <2>9. UNCHANGED <<store, seen, outcome, answer>>
        BY DEF WriteReceives, resultVars
    <2>10. pc[c] \notin ReadLabels /\ handler[c].pc # "none"
        BY <1>1 DEF CallFine, StreamServesCall
    <2> HIDE DEF new, h, r, d, ok
    <2>11. /\ \A u \in Calls \ {c} : SameCall(u)
           /\ store' \in [Backends -> [Digests -> Data]] => ServerTypes'
           /\ ClientTypes' /\ CallFine(c)'
           /\ UNCHANGED <<pc, digest, find>> /\ (Uploading(c)' <=> Uploading(c))
        <3>1. seen' \in [Calls -> Seen] /\ \A u \in Calls : seen'[u] = seen[u]
            BY <2>9 DEF ClientTypes
        <3> QED
            BY <1>1, <2>1, <2>3, <2>4, <2>6, <2>7, <2>8, <2>9, <2>10, <3>1, HandlerContinues
    <2>12. Operation(c)' = Operation(c) /\ ServerTypes'
        BY <2>9, <2>11 DEF Operation, Putting, Getting, ServerTypes
    <2> QED
        BY <2>9, <2>11, <2>12, SilentStep
<1>5. CASE HandlerReturns(c, "InvalidArgument")
    BY <1>1, <1>5, HandlerLeavesSilently DEF WriteReceives
<1> QED
    BY <1>4, <1>5 DEF WriteReceives

\* One blob of a store changes.
LEMMA StoredBlob ==
    ASSUME RemoteInvariant, NEW b \in Backends, NEW d \in Digests, NEW blob \in Data,
           store' = [store EXCEPT ![b][d] = blob]
    PROVE  /\ store' \in [Backends -> [Digests -> Data]]
           /\ b = BackendOf(d) => Content' = [Content EXCEPT ![d] = State(blob, d)]
           /\ b # BackendOf(d) => Content' = Content
<1>1. BackendOf(d) \in Backends /\ \A e \in Digests : BackendOf(e) \in Backends
    BY RoutingAssumption
<1>2. store' \in [Backends -> [Digests -> Data]]
    BY DEF RemoteInvariant, ServerTypes
<1>3. \A e \in Digests : store'[BackendOf(e)][e] = IF e = d /\ b = BackendOf(d) THEN blob ELSE store[BackendOf(e)][e]
    BY <1>1 DEF RemoteInvariant, ServerTypes
<1>4. Content' = [e \in Digests |-> State(store'[BackendOf(e)][e], e)]
    BY DEF Content, State
<1>5. Content = [e \in Digests |-> State(store[BackendOf(e)][e], e)]
    BY DEF Content
<1>6. CASE b = BackendOf(d)
    <2>1. ASSUME NEW e \in Digests
          PROVE  State(store'[BackendOf(e)][e], e) = IF e = d THEN State(blob, d) ELSE Content[e]
        <3>1. CASE e = d
            <4>1. store'[BackendOf(e)][e] = blob
                BY <1>3, <1>6, <3>1
            <4> QED
                BY <3>1, <4>1
        <3>2. CASE e # d
            <4>1. store'[BackendOf(e)][e] = store[BackendOf(e)][e]
                BY <1>3, <3>2
            <4> QED
                BY <1>5, <3>2, <4>1
        <3> QED
            BY <3>1, <3>2
    <2>2. Content' = [e \in Digests |-> IF e = d THEN State(blob, d) ELSE Content[e]]
        BY <1>4, <2>1
    <2>3. DOMAIN Content = Digests
        BY <1>5
    <2> QED
        BY <1>2, <1>6, <2>2, <2>3
<1>7. CASE b # BackendOf(d)
    <2>1. \A e \in Digests : store'[BackendOf(e)][e] = store[BackendOf(e)][e]
        BY <1>3, <1>7
    <2> QED
        BY <1>2, <1>4, <1>5, <1>7, <2>1
<1> QED
    BY <1>6, <1>7

\* An upload that is in progress has stored its blob.
LEMMA PutIsStored ==
    ASSUME NEW c \in Calls, Putting(c), Putting(c)', seen'[c] = "stored", digest'[c] = digest[c],
           \A u \in Calls \ {c} : SameCall(u), Content' = [Content EXCEPT ![digest[c]] = "whole"],
           digest[c] \in Uploads, Uploads' \subseteq Uploads, UNCHANGED <<outcome, answer>>
    PROVE  Store!Store(digest[c])
<1> DEFINE new == [kind |-> "put", digest |-> digest[c], seen |-> "stored"]
           f == [Operations[c] EXCEPT !.seen = "stored"]
<1>1. Operation(c)' = new
    BY DEF Operation
<1>2. Operations[c] = [kind |-> "put", digest |-> digest[c], seen |-> IF seen[c] = "stored" THEN "stored" ELSE "nothing"]
    BY DEF Operations, Operation
<1>3. f = new
    <2>1. f \in [kind : {"put"}, digest : {digest[c]}, seen : {"stored"}]
        BY <1>2
    <2>2. ASSUME NEW g \in [kind : {"put"}, digest : {digest[c]}, seen : {"stored"}]
          PROVE  g = new
        OBVIOUS
    <2> HIDE DEF f, new
    <2> QED
        BY <2>1, <2>2
<1>4. Operations' = [Operations EXCEPT ![c] = new]
    BY <1>1, MappedCalls
<1>5. Operations' = [Operations EXCEPT ![c].seen = "stored"]
    BY <1>3, <1>4
<1>6. Operations[c].kind = "put" /\ Operations[c].digest = digest[c]
    BY <1>2
<1> QED
    BY <1>5, <1>6 DEF Store!Store

\* A blob is stored: it is the one of the call's digest, also if the call is over.
LEMMA WriteStoresStep ==
    ASSUME RemoteInvariant, NEW c \in Calls, WriteStores(c)
    PROVE  RemoteInvariant' /\ Store!Change
<1> USE DEF RemoteInvariant
<1> DEFINE d == digest[c]
<1>1. /\ CallFine(c) /\ stream[c].kind = "write" /\ handler[c].pc \in {"new", "writing"}
      /\ Matches(handler[c].data, handler[c].digest) /\ handler[c] \in Handler
    BY DEF WriteStores, AtEOF, Complete, ServerTypes
<1>2. handler[c].digest = d /\ d \in Digests /\ stream[c].backend = BackendOf(d) /\ handler[c].data = Blob(d)
    <2>1. handler[c].pc # "new" => handler[c].digest = d
        BY <1>1 DEF CallFine, StreamServesCall
    <2>2. handler[c].pc = "new" => handler[c].finished = FALSE
        BY <1>1 DEF CallFine, StreamServesCall
    <2>3. handler[c].finished
        BY DEF WriteStores, Complete
    <2>4. handler[c].pc # "new"
        BY <2>2, <2>3
    <2> QED
        BY <1>1, <2>1, <2>4 DEF CallFine, StreamServesCall, Matches
<1>3. /\ store' = [store EXCEPT ![BackendOf(d)][d] = Blob(d)]
      /\ seen' = IF pc[c] = "idle" THEN seen ELSE [seen EXCEPT ![c] = "stored"]
      /\ UNCHANGED <<outcome, answer>>
    BY <1>2 DEF WriteStores, Note
<1>4. /\ seen' \in [Calls -> Seen] /\ \A u \in Calls \ {c} : seen'[u] = seen[u]
      /\ pc[c] = "idle" => seen'[c] = seen[c]
      /\ pc[c] # "idle" => seen'[c] = "stored"
    BY <1>3 DEF ClientTypes, Seen
<1>5. PICK status \in {"OK", "error"} : HandlerReturns(c, status)
    BY DEF WriteStores
<1>6. pc[c] \in WriteLabels \cup {"idle"} /\ handler[c].pc # "none"
    BY <1>1 DEF CallFine, StreamServesCall, WriteLabels, ReadLabels
<1>7. /\ \A u \in Calls \ {c} : SameCall(u)
      /\ ClientTypes' /\ stream' \in [Calls -> Stream \cup {NoStream}] /\ handler' \in [Calls -> Handler]
      /\ CallFine(c)' /\ pc'[c] = pc[c] /\ find' = find
      /\ pc[c] # "idle" => digest'[c] = digest[c]
      /\ Uploading(c)' => Uploading(c) /\ digest'[c] = digest[c]
    <2>1. pc[c] \notin ReadLabels
        BY <1>6 DEF WriteLabels, ReadLabels
    <2>2. pc[c] \in WriteLabels => seen'[c] = "stored"
        BY <1>4 DEF WriteLabels
    <2> QED
        BY <1>3, <1>4, <1>5, <1>6, <2>1, <2>2, HandlerLeaves
<1> HIDE DEF d
<1>8. BackendOf(d) \in Backends /\ Blob(d) \in Data
    BY <1>2, RoutingAssumption, StateOf
<1>9. store' \in [Backends -> [Digests -> Data]] /\ Content' = [Content EXCEPT ![d] = State(Blob(d), d)]
    <2> DEFINE b == BackendOf(d)
               blob == Blob(d)
    <2> HIDE DEF b, blob
    <2>1. store' = [store EXCEPT ![b][d] = blob] /\ b \in Backends /\ blob \in Data /\ b = BackendOf(d)
        BY <1>3, <1>8 DEF b, blob
    <2>2. store' \in [Backends -> [Digests -> Data]] /\ Content' = [Content EXCEPT ![d] = State(blob, d)]
        <3> HIDE DEF RemoteInvariant
        <3>1. d \in Digests
            BY <1>2
        <3> QED
            BY <2>1, <3>1, StoredBlob
    <2> QED
        BY <2>2 DEF blob
<1>10. RemoteInvariant'
    BY <1>7, <1>9, OtherCalls DEF ServerTypes
<1>11. Content' = [Content EXCEPT ![d] = "whole"]
    BY <1>2, <1>9, StateOf
<1>12. d \in Uploads /\ Uploads' \subseteq Uploads
    <2>1. Uploading(c) /\ digest[c] = d
        BY <1>1, <1>6 DEF Uploading, d
    <2> QED
        BY <1>7, <2>1, MappedCalls DEF Uploads
<1>13. CASE pc[c] = "idle"
    <2>1. Operation(c)' = Operation(c)
        BY <1>7, <1>13 DEF Operation, Putting, Getting
    <2>2. Operations' = Operations
        BY <1>7, <2>1, MappedCalls
    <2>3. Store!Store(d)
        BY <1>3, <1>11, <1>12, <2>2 DEF Store!Store
    <2> QED
        BY <1>2, <1>10, <2>3 DEF Store!Change
<1>14. CASE pc[c] # "idle"
    <2>1. Putting(c) /\ Putting(c)' /\ seen'[c] = "stored" /\ digest'[c] = d
        BY <1>4, <1>6, <1>7, <1>14 DEF Putting, WriteLabels, d
    <2>2. Store!Store(d)
        BY <1>3, <1>7, <1>11, <1>12, <2>1, PutIsStored DEF d
    <2> QED
        BY <1>2, <1>10, <2>2 DEF Store!Change
<1> QED
    BY <1>13, <1>14

---------------------------------------------------------------------------
\* A download looks a blob up.
LEMMA GetLooksUp ==
    ASSUME NEW c \in Calls, Getting(c), Getting(c)', seen[c] = "nothing", digest[c] \in Digests,
           digest'[c] = digest[c], seen'[c] = Content[digest[c]], \A u \in Calls \ {c} : SameCall(u),
           UNCHANGED <<store, outcome, answer>>, ~Uploading(c), ~Uploading(c)'
    PROVE  Store!LookUp(c)
<1> DEFINE new == [kind |-> "get", digest |-> digest[c], seen |-> Content[digest[c]]]
           f == [Operations[c] EXCEPT !.seen = Content[digest[c]]]
<1>1. Operation(c)' = new
    BY DEF Operation, Putting, Getting
<1>2. Operations[c] = [kind |-> "get", digest |-> digest[c], seen |-> "nothing"]
    BY DEF Operations, Operation, Putting, Getting
<1>3. f = new
    <2> DEFINE v == Content[digest[c]]
    <2> HIDE DEF v
    <2>1. f \in [kind : {"get"}, digest : {digest[c]}, seen : {v}]
        BY <1>2 DEF v
    <2>2. ASSUME NEW g \in [kind : {"get"}, digest : {digest[c]}, seen : {v}]
          PROVE  g = new
        BY DEF v
    <2> HIDE DEF f, new
    <2> QED
        BY <2>1, <2>2
<1>4. Operations' = [Operations EXCEPT ![c] = new] /\ Uploads' = Uploads
    BY <1>1, MappedCalls
<1>5. Operations[c].kind = "get" /\ Operations[c].digest = digest[c] /\ Operations[c].seen = "nothing"
    BY <1>2
<1>6. Operations' = [Operations EXCEPT ![c].seen = Content[Operations[c].digest]]
    BY <1>3, <1>4, <1>5
<1>7. Content' = Content
    BY DEF Content, State
<1> QED
    BY <1>4, <1>5, <1>6, <1>7 DEF Store!LookUp

\* The server looks a blob up, also for a call that is over.
LEMMA ReadBeginsStep ==
    ASSUME RemoteInvariant, NEW c \in Calls, ReadBegins(c)
    PROVE  RemoteInvariant' /\ Store!Change
<1> USE DEF RemoteInvariant
<1> DEFINE d == digest[c]
           blob == store[stream[c].backend][d]
           h == [handler[c] EXCEPT
                    !.pc = IF Len(blob) = SizeBytes[d] THEN "reading" ELSE "discarding",
                    !.digest = d, !.data = blob]
<1>1. /\ CallFine(c) /\ stream[c].kind = "read" /\ handler[c].pc = "new" /\ handler[c] \in Handler
      /\ UNCHANGED <<store, outcome, answer>>
    BY DEF ReadBegins, ServerTypes
<1>2. d \in Digests /\ stream[c].backend = BackendOf(d) /\ BackendOf(d) \in Backends
    BY <1>1, RoutingAssumption DEF CallFine, StreamServesCall
<1>3. blob \in Data /\ Content[d] = State(blob, d) /\ State(blob, d) \in Seen
    BY <1>2, StateOf DEF ServerTypes, Content, Seen
<1>4. /\ pc[c] \in ReadLabels \cup {"idle"}
      /\ pc[c] \in ReadLabels => seen[c] = "nothing" /\ stream[c].status \notin {"OK", "NotFound"}
    BY <1>1 DEF CallFine, StreamServesCall, SeenIsTold, WriteLabels, ReadLabels
<1>5. /\ seen' \in [Calls -> Seen] /\ \A u \in Calls \ {c} : seen'[u] = seen[u]
      /\ pc[c] = "idle" => seen'[c] = seen[c]
      /\ pc[c] # "idle" => seen'[c] = State(blob, d)
    <2>1. seen' = IF pc[c] = "idle" THEN seen ELSE [seen EXCEPT ![c] = State(blob, d)]
        BY DEF ReadBegins, Note
    <2> HIDE DEF blob, d
    <2> QED
        BY <1>3, <2>1 DEF ClientTypes
<1>6. pc[c] \in ReadLabels <=> pc[c] # "idle"
    BY <1>4 DEF ReadLabels
<1>7. /\ \A u \in Calls \ {c} : SameCall(u)
      /\ ClientTypes' /\ ServerTypes' /\ CallFine(c)' /\ pc'[c] = pc[c] /\ find' = find
      /\ pc[c] # "idle" => digest'[c] = d
      /\ ~Uploading(c) /\ ~Uploading(c)'
    <2>1. CASE blob = Absent /\ HandlerReturns(c, "NotFound")
        <3>1. pc[c] \in ReadLabels => seen'[c] = "absent"
            BY <1>2, <1>5, <1>6, <2>1, StateOf
        <3>2. pc[c] \notin WriteLabels
            BY <1>4 DEF WriteLabels, ReadLabels
        <3> HIDE DEF blob
        <3> QED
            BY <1>1, <1>5, <2>1, <3>1, <3>2, HandlerLeaves DEF ServerTypes
    <2>2. CASE HandlerGoesOn(c, h) /\ UNCHANGED stream
        <3>1. h \in Handler /\ h.pc \in {"reading", "discarding"} /\ h.digest = d /\ h.data = blob
            BY <1>1, <1>2, <1>3 DEF Handler, HandlerLabels
        <3>2. \A i \in 1 .. Len(stream[c].requests) : stream[c].requests[i].name \in {digest[c], NoName}
            BY <1>1 DEF CallFine, StreamServesCall
        <3> HIDE DEF h, blob
        <3>3. /\ stream' \in [Calls -> Stream \cup {NoStream}] /\ stream'[c] = stream[c]
              /\ \A u \in Calls \ {c} : stream'[u] = stream[u]
            BY <2>2 DEF ServerTypes
        <3>4. /\ \A u \in Calls \ {c} : SameCall(u)
              /\ store' \in [Backends -> [Digests -> Data]] => ServerTypes'
              /\ ClientTypes' /\ CallFine(c)'
              /\ UNCHANGED <<pc, digest, find>> /\ (Uploading(c)' <=> Uploading(c))
            BY <1>1, <1>4, <1>5, <1>6, <2>2, <3>1, <3>2, <3>3, HandlerContinues
        <3>5. ~Uploading(c)
            BY <1>1, <1>4 DEF Uploading, Putting, ReadLabels
        <3> QED
            BY <1>1, <3>4, <3>5 DEF ServerTypes
    <2> QED
        BY <2>1, <2>2 DEF ReadBegins
<1>8. CASE pc[c] = "idle"
    <2>1. Operation(c)' = Operation(c)
        BY <1>7, <1>8 DEF Operation, Putting, Getting
    <2> QED
        BY <1>1, <1>7, <2>1, SilentStep
<1>9. CASE pc[c] # "idle"
    <2>1. RemoteInvariant'
        BY <1>7, OtherCalls
    <2>2. Getting(c) /\ Getting(c)'
        BY <1>4, <1>7, <1>9 DEF Getting, ReadLabels
    <2>3. seen'[c] = Content[d] /\ seen[c] = "nothing"
        BY <1>3, <1>4, <1>5, <1>6, <1>9
    <2>4. Store!LookUp(c)
        BY <1>1, <1>2, <1>7, <1>9, <2>2, <2>3, GetLooksUp
    <2> QED
        BY <2>1, <2>4 DEF Store!Change
<1> QED
    BY <1>8, <1>9

\* The server sends a chunk, or stops doing so at the end of a bad blob.
LEMMA ReadGoesOnStep ==
    ASSUME RemoteInvariant, NEW c \in Calls, ReadSends(c) \/ ReadRejects(c)
    PROVE  RemoteInvariant' /\ Store!Change
<1>1. /\ CallFine(c) /\ handler[c].pc = "reading" /\ handler[c] \in Handler
      /\ UNCHANGED <<store, seen, outcome, answer>> /\ seen \in [Calls -> Seen]
      /\ store \in [Backends -> [Digests -> Data]]
    BY DEF RemoteInvariant, ReadSends, ReadRejects, ServerTypes, ClientTypes, resultVars
<1>2. /\ stream[c].kind = "read" /\ handler[c].digest = digest[c]
      /\ pc[c] \in ReadLabels => seen[c] = State(handler[c].data, digest[c])
      /\ \A i \in 1 .. Len(stream[c].requests) : stream[c].requests[i].name \in {digest[c], NoName}
    BY <1>1 DEF CallFine, StreamServesCall, SeenIsTold
<1>3. stream[c] \in Stream
    BY <1>2 DEF RemoteInvariant, ServerTypes, NoStream
<1>4. \E h \in Handler :
         /\ HandlerGoesOn(c, h) /\ h.pc \in {"reading", "discarding"}
         /\ h.digest = handler[c].digest /\ h.data = handler[c].data
    <2>1. CASE ReadSends(c)
        <3>1. PICK n \in 1 .. readChunkSize : HandlerGoesOn(c, [handler[c] EXCEPT !.sent = @ + n])
            BY <2>1 DEF ReadSends
        <3>2. n \in Nat
            BY RemoteAssumption
        <3> DEFINE h == [handler[c] EXCEPT !.sent = @ + n]
        <3>3. h \in Handler /\ h.pc = "reading" /\ h.digest = handler[c].digest /\ h.data = handler[c].data
            BY <1>1, <3>2 DEF Handler
        <3> HIDE DEF h
        <3> QED
            BY <3>1, <3>3 DEF h
    <2>2. CASE ReadRejects(c)
        <3> DEFINE h == [handler[c] EXCEPT !.pc = "discarding"]
        <3>1. h \in Handler /\ h.pc = "discarding" /\ h.digest = handler[c].digest /\ h.data = handler[c].data
            BY <1>1 DEF Handler, HandlerLabels
        <3>2. HandlerGoesOn(c, h)
            BY <2>2 DEF ReadRejects
        <3> HIDE DEF h
        <3> QED
            BY <3>1, <3>2
    <2> QED
        BY <2>1, <2>2
<1>5. PICK h \in Handler :
         /\ HandlerGoesOn(c, h) /\ h.pc \in {"reading", "discarding"}
         /\ h.digest = handler[c].digest /\ h.data = handler[c].data
    BY <1>4
<1>6. /\ stream' \in [Calls -> Stream \cup {NoStream}] /\ \A u \in Calls \ {c} : stream'[u] = stream[u]
      /\ stream'[c].kind = stream[c].kind /\ stream'[c].backend = stream[c].backend
      /\ stream'[c].status = stream[c].status /\ stream'[c].requests = stream[c].requests
    <2>1. CASE ReadSends(c)
        <3>1. PICK n \in 1 .. readChunkSize :
                 /\ handler[c].sent + n <= Len(handler[c].data)
                 /\ stream' = [stream EXCEPT ![c].chunks =
                       Append(@, SubSeq(handler[c].data, handler[c].sent + 1, handler[c].sent + n))]
            BY <2>1 DEF ReadSends
        <3> DEFINE chunk == SubSeq(handler[c].data, handler[c].sent + 1, handler[c].sent + n)
        <3>2. chunk \in Data
            <4>1. n \in Nat
                BY RemoteAssumption
            <4>2. handler[c].sent \in Nat /\ handler[c].data \in Data
                BY <1>1 DEF Handler
            <4>3. handler[c].sent + n \in Nat
                BY <4>1, <4>2
            <4> QED
                BY <3>1, <4>2, <4>3, PartsAreData
        <3> HIDE DEF chunk
        <3>3. Append(stream[c].chunks, chunk) \in Seq(Data)
            BY <1>3, <3>2, AppendProperties DEF Stream
        <3> DEFINE new == [stream[c] EXCEPT !.chunks = Append(@, chunk)]
        <3>4. /\ new \in Stream /\ new.kind = stream[c].kind /\ new.backend = stream[c].backend
              /\ new.status = stream[c].status /\ new.requests = stream[c].requests
            BY <1>3, <3>3 DEF Stream
        <3>5. stream' = [stream EXCEPT ![c] = new]
            BY <3>1 DEF chunk
        <3> HIDE DEF new
        <3> QED
            BY <3>4, <3>5 DEF RemoteInvariant, ServerTypes
    <2>2. CASE ReadRejects(c)
        BY <2>2 DEF ReadRejects, RemoteInvariant, ServerTypes
    <2> QED
        BY <2>1, <2>2
<1>7. /\ \A u \in Calls \ {c} : SameCall(u)
      /\ store' \in [Backends -> [Digests -> Data]] => ServerTypes'
      /\ ClientTypes' /\ CallFine(c)'
      /\ UNCHANGED <<pc, digest, find>> /\ (Uploading(c)' <=> Uploading(c))
    BY <1>1, <1>2, <1>5, <1>6, HandlerContinues
<1>8. Operation(c)' = Operation(c) /\ ServerTypes'
    BY <1>1, <1>7 DEF Operation, Putting, Getting
<1> QED
    BY <1>1, <1>7, <1>8, SilentStep

\* The server discards a blob, which may be a good one by now.
LEMMA ReadDiscardsStep ==
    ASSUME RemoteInvariant, NEW c \in Calls, ReadDiscards(c)
    PROVE  RemoteInvariant' /\ Store!Change
<1> DEFINE d == digest[c]
           b == BackendOf(d)
<1>1. /\ CallFine(c) /\ handler[c].pc = "discarding" /\ HandlerReturns(c, "error")
      /\ UNCHANGED <<seen, outcome, answer>> /\ seen \in [Calls -> Seen]
    BY DEF RemoteInvariant, ReadDiscards, ClientTypes, resultVars
<1>2. d \in Digests /\ b \in Backends /\ stream[c].backend = b /\ handler[c].digest = d /\ stream[c].kind = "read"
    BY <1>1, RoutingAssumption DEF CallFine, StreamServesCall
<1>3. store' = [store EXCEPT ![b][d] = Absent] /\ Absent \in Data
    BY <1>2 DEF ReadDiscards, Data, Absent
<1>4. /\ \A u \in Calls \ {c} : SameCall(u)
      /\ ClientTypes' /\ stream' \in [Calls -> Stream \cup {NoStream}] /\ handler' \in [Calls -> Handler]
      /\ CallFine(c)' /\ pc'[c] = pc[c] /\ find' = find
      /\ pc[c] # "idle" => digest'[c] = digest[c]
      /\ ~Uploading(c) /\ ~Uploading(c)'
    BY <1>1, <1>2, HandlerLeaves
<1>5. Operation(c)' = Operation(c)
    BY <1>1, <1>4 DEF Operation, Putting, Getting
<1>6. Operations' = Operations /\ Uploads' = Uploads
    BY <1>4, <1>5, MappedCalls
<1> HIDE DEF b, d
<1>7. store' \in [Backends -> [Digests -> Data]] /\ Content' = [Content EXCEPT ![d] = State(Absent, d)]
    BY <1>2, <1>3, StoredBlob DEF b
<1>8. RemoteInvariant'
    BY <1>4, <1>7, OtherCalls DEF ServerTypes, RemoteInvariant
<1>9. State(Absent, d) = "absent"
    BY <1>2, StateOf
<1>10. d \in Doubts
    BY <1>1, <1>2 DEF Doubts, ServerDoubts
<1>11. Store!Lose(d)
    BY <1>1, <1>6, <1>7, <1>9, <1>10 DEF Store!Lose
<1> QED
    BY <1>2, <1>8, <1>11 DEF Store!Change

---------------------------------------------------------------------------
\* A step of a client that has no stream.
LEMMA DirectStep ==
    ASSUME RemoteInvariant, NEW c \in Calls, pc[c] \in DirectLabels, NEW label \in DirectLabels, Goto(c, label),
           UNCHANGED <<digest, source, offset, find, stream, handler, outcome, answer>>,
           got' \in [Calls -> Data], seen' \in [Calls -> Seen],
           \A u \in Calls \ {c} : got'[u] = got[u] /\ seen'[u] = seen[u],
           label \notin {"storing", "looking"},
           label = "stored" /\ Matches(source[c], digest[c]) => seen'[c] = "stored",
           label = "fetched" => seen'[c] = State(got'[c], digest[c])
    PROVE  /\ \A u \in Calls \ {c} : SameCall(u)
           /\ ClientTypes' /\ CallFine(c)' /\ pc'[c] = label /\ digest[c] \in Digests
           /\ handler[c].pc = "none"
           /\ store' \in [Backends -> [Digests -> Data]] => RemoteInvariant'
<1> USE DEF RemoteInvariant
<1>1. CallFine(c) /\ digest[c] \in Digests /\ answer[c] = {} /\ handler[c].pc = "none"
    BY DEF CallFine, StreamServesCall, SeenIsTold, DirectLabels, WriteLabels, ReadLabels
<1>2. pc' \in [Calls -> Labels] /\ pc'[c] = label /\ \A u \in Calls \ {c} : pc'[u] = pc[u]
    BY DEF Goto, ClientTypes, Labels
<1>3. ClientTypes' /\ \A u \in Calls \ {c} : SameCall(u)
    BY <1>2 DEF ClientTypes, SameCall
<1>4. CallFine(c)'
    <2>1. StreamServesCall(c)'
        BY <1>1, <1>2 DEF StreamServesCall, DirectLabels, WriteLabels, ReadLabels
    <2>2. SeenIsTold(c)'
        BY <1>1, <1>2 DEF SeenIsTold, DirectLabels, WriteLabels, ReadLabels, State, Matches
    <2> QED
        BY <2>1, <2>2 DEF CallFine
<1>5. store' \in [Backends -> [Digests -> Data]] => RemoteInvariant'
    BY <1>3, <1>4, OtherCalls DEF ServerTypes
<1> QED
    BY <1>1, <1>2, <1>3, <1>4, <1>5

\* Redis, S3 and HTTP return what there is.
LEMMA FetchDirectlyStep ==
    ASSUME RemoteInvariant, NEW c \in Calls, FetchDirectly(c)
    PROVE  RemoteInvariant' /\ Store!Change
<1> DEFINE d == digest[c]
           blob == store[BackendOf(d)][d]
<1>1. /\ CallFine(c) /\ pc[c] = "looking" /\ Goto(c, "fetched") /\ seen' = [seen EXCEPT ![c] = State(blob, d)]
      /\ got' = [got EXCEPT ![c] = blob]
      /\ UNCHANGED <<store, digest, source, offset, find, stream, handler, outcome, answer>>
    BY DEF RemoteInvariant, FetchDirectly
<1>2. d \in Digests /\ seen[c] = "nothing" /\ BackendOf(d) \in Backends
    BY <1>1, RoutingAssumption DEF CallFine, SeenIsTold, DirectLabels
<1>3. blob \in Data /\ Content[d] = State(blob, d) /\ State(blob, d) \in Seen
      /\ store \in [Backends -> [Digests -> Data]]
    BY <1>2, StateOf DEF RemoteInvariant, ServerTypes, Content, Seen
<1> HIDE DEF blob, d
<1>4. /\ got' \in [Calls -> Data] /\ seen' \in [Calls -> Seen] /\ got'[c] = blob /\ seen'[c] = State(blob, d)
      /\ \A u \in Calls \ {c} : got'[u] = got[u] /\ seen'[u] = seen[u]
    BY <1>1, <1>3 DEF RemoteInvariant, ClientTypes
<1>5. /\ \A u \in Calls \ {c} : SameCall(u)
      /\ pc'[c] = "fetched" /\ handler[c].pc = "none"
      /\ store' \in [Backends -> [Digests -> Data]] => RemoteInvariant'
    <2>1. "looking" \in DirectLabels /\ "fetched" \in DirectLabels
        BY DEF DirectLabels
    <2>2. seen'[c] = State(got'[c], digest[c])
        BY <1>4 DEF d
    <2> QED
        BY <1>1, <1>4, <2>1, <2>2, DirectStep
<1>6. Getting(c) /\ Getting(c)' /\ ~Uploading(c) /\ ~Uploading(c)'
    BY <1>1, <1>5 DEF Getting, Putting, Uploading
<1>7. Store!LookUp(c)
    BY <1>1, <1>2, <1>3, <1>4, <1>5, <1>6, GetLooksUp DEF d
<1> QED
    BY <1>1, <1>3, <1>5, <1>7 DEF Store!Change

\* merkleBlobAccess discards a bad blob, unless it is in an HTTP cache.
LEMMA DiscardDirectlyStep ==
    ASSUME RemoteInvariant, NEW c \in Calls, DiscardDirectly(c)
    PROVE  RemoteInvariant' /\ Store!Change
<1> DEFINE d == digest[c]
           b == BackendOf(d)
<1>1. /\ CallFine(c) /\ pc[c] = "fetched" /\ Goto(c, "discarded")
      /\ store' = (IF Kind[b] = "direct" THEN [store EXCEPT ![b][d] = Absent] ELSE store)
      /\ UNCHANGED <<digest, source, offset, got, find, stream, handler, seen, outcome, answer>>
    BY DEF RemoteInvariant, DiscardDirectly, resultVars
<1>2. d \in Digests /\ b \in Backends /\ Absent \in Data
    BY <1>1, RoutingAssumption DEF CallFine, SeenIsTold, DirectLabels, Data, Absent
<1>3. got \in [Calls -> Data] /\ seen \in [Calls -> Seen] /\ store \in [Backends -> [Digests -> Data]]
    BY DEF RemoteInvariant, ClientTypes, ServerTypes
<1> HIDE DEF b, d
<1>4. /\ \A u \in Calls \ {c} : SameCall(u)
      /\ pc'[c] = "discarded" /\ handler[c].pc = "none" /\ ClientTypes' /\ CallFine(c)'
      /\ store' \in [Backends -> [Digests -> Data]] => RemoteInvariant'
    <2>1. "discarded" \in DirectLabels /\ "fetched" \in DirectLabels
        BY DEF DirectLabels
    <2> QED
        BY <1>1, <1>3, <2>1, DirectStep
<1>5. Operation(c)' = Operation(c) /\ ~Uploading(c) /\ ~Uploading(c)'
    BY <1>1, <1>4 DEF Operation, Putting, Getting, Uploading
<1>6. Operations' = Operations /\ Uploads' = Uploads
    BY <1>4, <1>5, MappedCalls
<1>7. CASE store' = store
    <2>1. Content' = Content
        BY <1>7 DEF Content, State
    <2>2. Store!GiveUp
        BY <1>1, <1>6, <2>1 DEF Store!GiveUp
    <2> QED
        BY <1>3, <1>4, <1>7, <2>2 DEF Store!Change
<1>8. CASE store' = [store EXCEPT ![b][d] = Absent]
    <2>1. store' \in [Backends -> [Digests -> Data]] /\ Content' = [Content EXCEPT ![d] = State(Absent, d)]
        BY <1>2, <1>8, StoredBlob DEF b
    <2>2. State(Absent, d) = "absent"
        BY <1>2, StateOf
    <2>3. d \in Doubts
        BY <1>1 DEF DiscardDirectly, Doubts, ClientDoubts, d
    <2>4. Store!Lose(d)
        BY <1>1, <1>6, <2>1, <2>2, <2>3 DEF Store!Lose
    <2> QED
        BY <1>2, <1>4, <2>1, <2>4 DEF Store!Change
<1> QED
    BY <1>1, <1>7, <1>8

\* Redis, S3 or an HTTP cache gets a blob; an HTTP cache may get a bad one.
LEMMA StoreDirectlyStep ==
    ASSUME RemoteInvariant, NEW c \in Calls, StoreDirectly(c)
    PROVE  RemoteInvariant' /\ Store!Change
<1> DEFINE d == digest[c]
           b == BackendOf(d)
           blob == First(source[c], SizeBytes[d])
           ok == Matches(blob, d)
<1>1. /\ CallFine(c) /\ pc[c] = "storing" /\ Goto(c, "stored")
      /\ store' = [store EXCEPT ![b][d] = blob]
      /\ Matches(source[c], d) \/ Kind[b] = "remote"
      /\ seen' = [seen EXCEPT ![c] = IF ok THEN "stored" ELSE "spoilt"]
      /\ UNCHANGED <<digest, source, offset, got, find, stream, handler, outcome, answer>>
    BY DEF RemoteInvariant, StoreDirectly
<1>2. d \in Digests /\ b \in Backends /\ seen[c] = "nothing" /\ source[c] \in Seq(Pieces) /\ SizeBytes[d] \in Nat
    BY <1>1, RoutingAssumption DEF CallFine, SeenIsTold, DirectLabels
<1>3. got \in [Calls -> Data] /\ seen \in [Calls -> Seen] /\ blob \in Data /\ blob # Absent
    <2>1. blob \in Seq(Pieces)
        BY <1>2, FirstPieces
    <2> QED
        BY <2>1, PiecesAreData DEF RemoteInvariant, ClientTypes
<1>4. (ok <=> blob = Blob(d)) /\ (Matches(source[c], d) => blob = source[c])
    BY <1>2, FirstPieces, BlobPieces DEF Matches
<1> HIDE DEF b, d, blob, ok
<1>5. /\ seen' \in [Calls -> Seen] /\ seen'[c] = (IF ok THEN "stored" ELSE "spoilt")
      /\ \A u \in Calls \ {c} : seen'[u] = seen[u]
    BY <1>1, <1>3 DEF Seen
<1>6. /\ \A u \in Calls \ {c} : SameCall(u)
      /\ pc'[c] = "stored" /\ handler[c].pc = "none"
      /\ store' \in [Backends -> [Digests -> Data]] => RemoteInvariant'
    <2>1. "storing" \in DirectLabels /\ "stored" \in DirectLabels
        BY DEF DirectLabels
    <2>2. Matches(source[c], digest[c]) => seen'[c] = "stored"
        BY <1>4, <1>5 DEF ok, d
    <2> QED
        BY <1>1, <1>3, <1>5, <2>1, <2>2, DirectStep
<1>7. store' \in [Backends -> [Digests -> Data]] /\ Content' = [Content EXCEPT ![d] = State(blob, d)]
    BY <1>1, <1>2, <1>3, StoredBlob DEF b
<1>8. Putting(c) /\ Putting(c)' /\ Uploading(c) /\ Uploading(c)' /\ digest'[c] = d /\ digest[c] = d
    BY <1>1, <1>6 DEF Putting, Uploading, d
<1>9. d \in Uploads /\ Uploads' = Uploads
    BY <1>6, <1>8, MappedCalls DEF Uploads
<1>10. CASE ok
    <2>1. Content' = [Content EXCEPT ![d] = "whole"]
        BY <1>2, <1>4, <1>7, <1>10, StateOf
    <2>2. Store!Store(d)
        BY <1>1, <1>5, <1>6, <1>8, <1>9, <1>10, <2>1, PutIsStored
    <2> QED
        BY <1>2, <1>6, <1>7, <2>2 DEF Store!Change
<1>11. CASE ~ok
    <2>1. Content' = [Content EXCEPT ![d] = "damaged"]
        BY <1>3, <1>4, <1>7, <1>11 DEF State
    <2>2. d \in Unconfirmed
        BY <1>1, <1>2, <1>4, <1>11 DEF Unconfirmed, b, ok
    <2>3. Operation(c)' = Operation(c)
        BY <1>2, <1>5, <1>8, <1>11 DEF Operation
    <2>4. Operations' = Operations
        BY <1>6, <2>3, MappedCalls
    <2>5. Store!Spoil(d)
        BY <1>1, <1>9, <2>1, <2>2, <2>4 DEF Store!Spoil
    <2> QED
        BY <1>2, <1>6, <1>7, <2>5 DEF Store!Change
<1> QED
    BY <1>10, <1>11

---------------------------------------------------------------------------
\* A store loses or damages a blob.  Where the blob does not belong this goes
\* unnoticed.
LEMMA StoreFaultStep ==
    ASSUME RemoteInvariant, NEW b \in Backends, NEW d \in Digests, Lose(b, d) \/ Damage(b, d)
    PROVE  RemoteInvariant' /\ Store!Change
<1>1. UNCHANGED <<pc, digest, source, offset, got, find, stream, handler, seen, outcome, answer>>
    BY DEF Lose, Damage, clientVars, resultVars
<1>2. ASSUME NEW blob \in Data, store' = [store EXCEPT ![b][d] = blob]
      PROVE  /\ RemoteInvariant' /\ Operations' = Operations /\ Uploads' = Uploads
             /\ b = BackendOf(d) => Content' = [Content EXCEPT ![d] = State(blob, d)]
             /\ b # BackendOf(d) => Store!Change
    <2>1. /\ store' \in [Backends -> [Digests -> Data]]
          /\ b = BackendOf(d) => Content' = [Content EXCEPT ![d] = State(blob, d)]
          /\ b # BackendOf(d) => Content' = Content
        BY <1>2, StoredBlob
    <2>2. ClientTypes' /\ ServerTypes'
        BY <1>1, <2>1 DEF RemoteInvariant, ClientTypes, ServerTypes
    <2>3. \A c \in Calls : CallFine(c)'
        BY <1>1 DEF RemoteInvariant, CallFine, StreamServesCall, SeenIsTold, State, Matches
    <2>4. Operations' = Operations /\ Uploads' = Uploads
        BY <1>1 DEF Operations, Operation, Uploads, Uploading, Putting, Getting
    <2>5. b # BackendOf(d) => Store!Change
        BY <1>1, <2>1, <2>4 DEF Store!Change, Store!GiveUp
    <2> QED
        BY <2>1, <2>2, <2>3, <2>4, <2>5 DEF RemoteInvariant
<1>3. CASE Lose(b, d)
    <2>1. Absent \in Data /\ store' = [store EXCEPT ![b][d] = Absent] /\ State(Absent, d) = "absent"
        BY <1>3, StateOf DEF Lose, Data, Absent
    <2>2. b = BackendOf(d) => Store!Lose(d)
        BY <1>1, <1>2, <1>3, <2>1 DEF Store!Lose, Lose, Vanishing
    <2> QED
        BY <1>2, <2>1, <2>2 DEF Store!Change
<1>4. CASE Damage(b, d)
    <2>1. PICK blob \in Spoilt[d] : store' = [store EXCEPT ![b][d] = blob]
        BY <1>4 DEF Damage
    <2>2. store[b][d] = Blob(d)
        BY <1>4 DEF Damage
    <2>3. blob \in Data /\ blob # Absent
        BY RemoteAssumption, PiecesAreData
    <2>4. b = BackendOf(d) => Content[d] = "whole"
        BY <2>2, StateOf DEF Content
    <2>5. State(blob, d) \in {"whole", "damaged"}
        BY <2>3 DEF State
    <2>6. CASE b = BackendOf(d) /\ State(blob, d) = "damaged"
        <3>1. Store!Damage(d)
            BY <1>1, <1>2, <2>1, <2>3, <2>4, <2>6 DEF Store!Damage
        <3> QED
            BY <1>2, <2>1, <2>3, <3>1 DEF Store!Change
    <2>7. CASE b = BackendOf(d) /\ State(blob, d) = "whole"
        <3>1. Content' = Content
            <4>1. Content' = [Content EXCEPT ![d] = "whole"]
                BY <1>2, <2>1, <2>3, <2>7
            <4>2. Content = [e \in Digests |-> Content[e]]
                BY DEF Content
            <4>3. Content' = [e \in Digests |-> Content[e]]
                BY <2>4, <2>7, <4>1, <4>2
            <4> QED
                BY <4>2, <4>3
        <3>2. Store!GiveUp
            BY <1>1, <1>2, <2>1, <2>3, <3>1 DEF Store!GiveUp
        <3> QED
            BY <1>2, <2>1, <2>3, <3>2 DEF Store!Change
    <2> QED
        BY <1>2, <2>1, <2>3, <2>5, <2>6, <2>7
<1> QED
    BY <1>3, <1>4

\* Every step keeps the invariant and is one of the abstract store.
LEMMA RemoteStep ==
    ASSUME RemoteInvariant, Next
    PROVE  RemoteInvariant' /\ Store!Change
<1>1. ASSUME NEW c \in Calls, ClientNext(c) PROVE RemoteInvariant' /\ Store!Change
    <2>1. CASE \E d \in Digests : Exists(c, d) \/ HeadRequest(c, d) \/ FindMissingBlobs(c, d)
        <3>1. PICK d \in Digests : LookFor(c, d)
            BY <2>1 DEF Exists, HeadRequest, FindMissingBlobs
        <3> QED
            BY <3>1, LookForStep
    <2> QED
        BY <1>1, <2>1, SendStep, PutReturns, GetReturns, FindReturns, UploadEndStep, RecvChunkStep,
           StoreDirectlyStep, FetchDirectlyStep, DiscardDirectlyStep DEF ClientNext
<1>2. ASSUME NEW c \in Calls, HandlerNext(c) PROVE RemoteInvariant' /\ Store!Change
    BY <1>2, WriteReceivesStep, WriteStoresStep, HandlerEndStep, ReadBeginsStep, ReadGoesOnStep, ReadDiscardsStep
       DEF HandlerNext
<1>3. ASSUME NEW c \in Calls, Fault(c) PROVE RemoteInvariant' /\ Store!Change
    BY <1>3, FaultReturns, GetReturns, HandlerEndStep, FindFailsStep DEF Fault
<1>4. ASSUME NEW c \in Calls, NEW d \in Digests, BeginPut(c, d) \/ BeginUpload(c, d) \/ BeginGet(c, d)
      PROVE  RemoteInvariant' /\ Store!Change
    BY <1>4, PutBegins, GetBegins
<1> QED
    BY <1>1, <1>2, <1>3, <1>4, FindBegins, SendStep, ContextStep, StoreFaultStep DEF Next

\* What readers of other calls doubt, and of a call that is in a step.
ServerDoubtsKnown(c) ==
    \/ handler'[c] = handler[c]
    \/ handler'[c].pc \notin {"reading", "discarding"}
    \/ ServerDoubts(c) /\ handler'[c].digest = handler[c].digest
    \/ ~ServerDoubts(c)'
    \/ handler'[c].digest \in Digests /\ Content[handler'[c].digest] = "damaged"

ClientDoubtsKnown(c) ==
    \/ pc'[c] # "fetched"
    \/ UNCHANGED <<pc[c], got[c], digest[c]>>
    \/ ~ClientDoubts(c)'
    \/ digest'[c] \in Digests /\ Content[digest'[c]] = "damaged"

\* Readers come to doubt a blob only when they look it up and it is damaged.
LEMMA DoubtsKnown ==
    ASSUME \A c \in Calls : ServerDoubtsKnown(c) /\ ClientDoubtsKnown(c)
    PROVE  Store!Doubt
<1> DEFINE Known == Doubts \cup {d \in Digests : Content[d] = "damaged"}
<1>1. ASSUME NEW c \in Calls, ServerDoubts(c)' PROVE handler'[c].digest \in Known
    <2>1. CASE handler'[c] = handler[c]
        <3>1. ServerDoubts(c)
            BY <1>1, <2>1 DEF ServerDoubts, Matches
        <3> QED
            BY <2>1, <3>1 DEF Doubts
    <2>2. CASE ServerDoubts(c) /\ handler'[c].digest = handler[c].digest
        BY <2>2 DEF Doubts
    <2>3. CASE handler'[c].digest \in Digests /\ Content[handler'[c].digest] = "damaged"
        BY <2>3
    <2>4. handler'[c].pc \in {"reading", "discarding"}
        BY <1>1 DEF ServerDoubts
    <2> QED
        BY <1>1, <2>1, <2>2, <2>3, <2>4 DEF ServerDoubtsKnown
<1>2. ASSUME NEW c \in Calls, ClientDoubts(c)' PROVE digest'[c] \in Known
    <2>1. CASE UNCHANGED <<pc[c], got[c], digest[c]>>
        <3>1. ClientDoubts(c)
            BY <1>2, <2>1 DEF ClientDoubts, Matches
        <3> QED
            BY <2>1, <3>1 DEF Doubts
    <2>2. CASE digest'[c] \in Digests /\ Content[digest'[c]] = "damaged"
        BY <2>2
    <2>3. pc'[c] = "fetched"
        BY <1>2 DEF ClientDoubts
    <2> QED
        BY <1>2, <2>1, <2>2, <2>3 DEF ClientDoubtsKnown
<1>3. Doubts' \subseteq Known
    BY <1>1, <1>2 DEF Doubts
<1> QED
    BY <1>3 DEF Store!Doubt

\* A client returns, or goes on otherwise than by fetching a blob.
LEMMA ClientLeavesKnown ==
    ASSUME RemoteInvariant, NEW c \in Calls, NEW code, NEW broken, LeaveWith(c, code, broken)
    PROVE  \A u \in Calls : ClientDoubtsKnown(u)
<1>1. /\ pc' = [pc EXCEPT ![c] = "idle"] /\ got' = [got EXCEPT ![c] = <<>>]
      /\ digest' = [digest EXCEPT ![c] = IF handler[c].pc = "none" THEN NoName ELSE @]
    BY DEF LeaveWith, Goto
<1>2. pc'[c] = "idle" /\ \A u \in Calls \ {c} : UNCHANGED <<pc[u], got[u], digest[u]>>
    BY <1>1 DEF RemoteInvariant, ClientTypes
<1> QED
    BY <1>2 DEF ClientDoubtsKnown

LEMMA ClientGoesKnown ==
    ASSUME RemoteInvariant, NEW c \in Calls, NEW label, label # "fetched", Goto(c, label),
           \A u \in Calls \ {c} : got'[u] = got[u] /\ digest'[u] = digest[u]
    PROVE  \A u \in Calls : ClientDoubtsKnown(u)
<1>1. pc'[c] = label /\ \A u \in Calls \ {c} : pc'[u] = pc[u]
    BY DEF Goto, RemoteInvariant, ClientTypes
<1> QED
    BY <1>1 DEF ClientDoubtsKnown

\* The state of a handler changes.
LEMMA ServerChanges ==
    ASSUME RemoteInvariant, NEW c \in Calls, NEW h, handler' = [handler EXCEPT ![c] = h],
           \/ h.pc \notin {"reading", "discarding"}
           \/ ServerDoubts(c) /\ h.digest = handler[c].digest
           \/ h.pc = "reading" /\ Matches(h.data, h.digest)
           \/ h.digest \in Digests /\ Content[h.digest] = "damaged"
    PROVE  \A u \in Calls : ServerDoubtsKnown(u)
<1>1. handler'[c] = h /\ \A u \in Calls \ {c} : handler'[u] = handler[u]
    BY DEF RemoteInvariant, ServerTypes
<1>2. h.pc = "reading" /\ Matches(h.data, h.digest) => ~ServerDoubts(c)'
    BY <1>1 DEF ServerDoubts, Matches
<1> QED
    BY <1>1, <1>2 DEF ServerDoubtsKnown

\* What a call is served with.
LEMMA ServedKnown ==
    ASSUME RemoteInvariant, NEW c \in Calls, \E kind, b : Serve(c, kind, b)
    PROVE  \A u \in Calls : ServerDoubtsKnown(u)
<1>1. handler' = [handler EXCEPT ![c] = NewHandler] /\ NewHandler.pc = "new"
    BY DEF Serve, NewHandler, NoHandler
<1> QED
    BY <1>1, ServerChanges

\* Clients leave handlers alone once they are served, and fetch what there is.
LEMMA ClientKnown ==
    ASSUME RemoteInvariant, NEW c \in Calls,
           \/ \E d \in Digests : BeginPut(c, d) \/ BeginUpload(c, d) \/ BeginGet(c, d)
           \/ \E ds \in Queries : BeginFindMissing(c, ds)
           \/ Upload(c) \/ ClientNext(c)
    PROVE  \A u \in Calls : ServerDoubtsKnown(u) /\ ClientDoubtsKnown(u)
<1>1. ASSUME handler' = handler PROVE \A u \in Calls : ServerDoubtsKnown(u)
    BY <1>1 DEF ServerDoubtsKnown
<1>2. ASSUME UNCHANGED <<pc, got, digest>> PROVE \A u \in Calls : ClientDoubtsKnown(u)
    BY <1>2 DEF ClientDoubtsKnown
<1>3. ASSUME NEW d \in Digests, BeginPut(c, d) \/ BeginUpload(c, d) \/ BeginGet(c, d)
      PROVE  \A u \in Calls : ServerDoubtsKnown(u) /\ ClientDoubtsKnown(u)
    <2>1. digest' = [digest EXCEPT ![c] = d] /\ got' = got
        BY <1>3 DEF BeginPut, BeginUpload, BeginGet, Begin
    <2>2. \A u \in Calls \ {c} : got'[u] = got[u] /\ digest'[u] = digest[u]
        BY <2>1 DEF RemoteInvariant, ClientTypes
    <2>3. \E label : label # "fetched" /\ Goto(c, label)
        BY <1>3 DEF BeginPut, BeginUpload, BeginGet
    <2>4. handler' = handler \/ \E kind, b : Serve(c, kind, b)
        BY <1>3 DEF BeginPut, BeginUpload, BeginGet
    <2> QED
        BY <1>1, <2>2, <2>3, <2>4, ClientGoesKnown, ServedKnown
<1>4. ASSUME NEW ds \in Queries, BeginFindMissing(c, ds)
      PROVE  \A u \in Calls : ServerDoubtsKnown(u) /\ ClientDoubtsKnown(u)
    <2>1. digest' = [digest EXCEPT ![c] = NoName] /\ got' = got /\ handler' = handler /\ Goto(c, "finding")
        BY <1>4 DEF BeginFindMissing, Begin
    <2>2. \A u \in Calls \ {c} : got'[u] = got[u] /\ digest'[u] = digest[u]
        BY <2>1 DEF RemoteInvariant, ClientTypes
    <2> QED
        BY <1>1, <2>1, <2>2, ClientGoesKnown
<1>5. ASSUME Upload(c) \/ SendChunk(c) \/ \E d \in Digests : LookFor(c, d)
      PROVE  UNCHANGED <<pc, got, digest, handler>>
    BY <1>5 DEF Upload, SendChunk, SendRequest, LookFor, clientVars
<1>6. ASSUME \/ PutRejects(c) \/ SendFails(c) \/ CloseAndRecv(c) \/ StoredDirectly(c) \/ RefusedSilently(c)
             \/ RecvEnd(c) \/ FetchedDirectly(c) \/ DiscardedDirectly(c) \/ FindMissingReturns(c)
      PROVE  handler' = handler /\ \E code : LeaveWith(c, code, FALSE)
    BY <1>6 DEF PutRejects, SendFails, CloseAndRecv, StoredDirectly, RefusedSilently, RecvEnd, FetchedDirectly,
                DiscardedDirectly, FindMissingReturns, ReturnWith
<1>7. ASSUME SendLastChunk(c) \/ StoreDirectly(c) \/ DiscardDirectly(c)
      PROVE  UNCHANGED <<got, digest, handler>> /\ \E label : label # "fetched" /\ Goto(c, label)
    BY <1>7 DEF SendLastChunk, SendRequest, StoreDirectly, DiscardDirectly
<1>8. ASSUME UploadEnds(c)
      PROVE  /\ handler' = handler
             /\ \/ UNCHANGED <<got, digest>> /\ Goto(c, "awaiting")
                \/ LeaveWith(c, "error", FALSE)
    BY <1>8 DEF UploadEnds, ReturnWith
<1>9. ASSUME RecvChunk(c)
      PROVE  \A u \in Calls : ServerDoubtsKnown(u) /\ ClientDoubtsKnown(u)
    <2>1. got' = [got EXCEPT ![c] = @ \o Head(stream[c].chunks)] /\ Goto(c, "reading") /\ UNCHANGED <<digest, handler>>
        BY <1>9 DEF RecvChunk
    <2>2. \A u \in Calls \ {c} : got'[u] = got[u] /\ digest'[u] = digest[u]
        BY <2>1 DEF RemoteInvariant, ClientTypes
    <2> QED
        BY <1>1, <2>1, <2>2, ClientGoesKnown
<1>10. ASSUME FetchDirectly(c)
       PROVE  \A u \in Calls : ServerDoubtsKnown(u) /\ ClientDoubtsKnown(u)
    <2> DEFINE d == digest[c]
               blob == store[BackendOf(d)][d]
    <2>1. /\ pc[c] = "looking" /\ Goto(c, "fetched") /\ got' = [got EXCEPT ![c] = blob]
          /\ UNCHANGED <<digest, handler>>
        BY <1>10 DEF FetchDirectly
    <2>2. d \in Digests /\ digest'[c] = d /\ Content[d] = State(blob, d)
        BY <2>1 DEF RemoteInvariant, CallFine, SeenIsTold, DirectLabels, Content
    <2> HIDE DEF d, blob
    <2>3. got'[c] = blob /\ \A u \in Calls \ {c} : UNCHANGED <<pc[u], got[u], digest[u]>>
        BY <2>1 DEF RemoteInvariant, ClientTypes, Goto
    <2>4. ClientDoubts(c)' => State(blob, d) = "damaged"
        BY <2>2, <2>3 DEF ClientDoubts, Matches, State
    <2> QED
        BY <1>1, <2>1, <2>2, <2>3, <2>4 DEF ClientDoubtsKnown
<1>11. ASSUME UNCHANGED <<got, digest, handler>>, NEW label, label # "fetched", Goto(c, label)
       PROVE  \A u \in Calls : ServerDoubtsKnown(u) /\ ClientDoubtsKnown(u)
    BY <1>1, <1>11, ClientGoesKnown
<1>12. ASSUME handler' = handler, NEW code, LeaveWith(c, code, FALSE)
       PROVE  \A u \in Calls : ServerDoubtsKnown(u) /\ ClientDoubtsKnown(u)
    BY <1>1, <1>12, ClientLeavesKnown
<1>13. CASE ClientNext(c)
    <2>1. CASE \E d \in Digests : Exists(c, d) \/ HeadRequest(c, d) \/ FindMissingBlobs(c, d)
        BY <1>1, <1>2, <1>5, <2>1 DEF Exists, HeadRequest, FindMissingBlobs
    <2>2. CASE SendChunk(c)
        BY <1>1, <1>2, <1>5, <2>2
    <2>3. CASE UploadEnds(c)
        BY <1>8, <1>11, <1>12, <2>3
    <2> QED
        BY <1>6, <1>7, <1>9, <1>10, <1>11, <1>12, <1>13, <2>1, <2>2, <2>3 DEF ClientNext
<1> QED
    BY <1>1, <1>2, <1>3, <1>4, <1>5, <1>13

\* byteStreamServer.Read looks a blob up, and doubts it if it is damaged.
LEMMA ReadBeginsKnown ==
    ASSUME RemoteInvariant, NEW c \in Calls, ReadBegins(c)
    PROVE  \A u \in Calls : ServerDoubtsKnown(u)
<1> DEFINE d == digest[c]
           blob == store[stream[c].backend][d]
           h == [handler[c] EXCEPT !.pc = IF Len(blob) = SizeBytes[d] THEN "reading" ELSE "discarding",
                                   !.digest = d, !.data = blob]
<1>1. CallFine(c) /\ handler[c].pc = "new" /\ handler[c] \in Handler
    BY DEF ReadBegins, RemoteInvariant, ServerTypes
<1>2. d \in Digests /\ Content[d] = State(blob, d)
    BY <1>1 DEF CallFine, StreamServesCall, Content
<1>3. HandlerReturns(c, "NotFound") \/ (blob # Absent /\ HandlerGoesOn(c, h))
    BY DEF ReadBegins
<1>4. h.digest = d /\ h.data = blob /\ h.pc = IF Len(blob) = SizeBytes[d] THEN "reading" ELSE "discarding"
    BY <1>1 DEF Handler
<1> HIDE DEF d, blob, h
<1>5. CASE HandlerReturns(c, "NotFound")
    <2>1. handler' = [handler EXCEPT ![c] = NoHandler] /\ NoHandler.pc = "none"
        BY <1>5 DEF HandlerReturns, NoHandler
    <2> QED
        BY <2>1, ServerChanges
<1>6. CASE blob # Absent /\ HandlerGoesOn(c, h)
    <2>1. handler' = [handler EXCEPT ![c] = h]
        BY <1>6 DEF HandlerGoesOn
    <2>2. Len(blob) # SizeBytes[d] => blob # Blob(d)
        BY <1>2, BlobPieces
    <2>3. \/ h.pc = "reading" /\ Matches(h.data, h.digest)
          \/ Content[d] = "damaged"
        BY <1>2, <1>4, <1>6, <2>2 DEF Matches, State
    <2> QED
        BY <1>2, <1>4, <2>1, <2>3, ServerChanges
<1> QED
    BY <1>3, <1>5, <1>6

\* A handler that goes on or returns.
LEMMA HandlerKnown ==
    ASSUME RemoteInvariant, NEW c \in Calls, HandlerNext(c) \/ HandlerFails(c)
    PROVE  \A u \in Calls : ServerDoubtsKnown(u) /\ ClientDoubtsKnown(u)
<1>1. ASSUME NEW status, HandlerReturns(c, status)
      PROVE  \A u \in Calls : ServerDoubtsKnown(u) /\ ClientDoubtsKnown(u)
    <2>1. /\ handler' = [handler EXCEPT ![c] = NoHandler] /\ NoHandler.pc = "none"
          /\ digest' = [digest EXCEPT ![c] = IF pc[c] = "idle" THEN NoName ELSE @]
          /\ UNCHANGED <<pc, got>>
        BY <1>1 DEF HandlerReturns, NoHandler
    <2>2. \A u \in Calls : pc'[u] = "idle" \/ digest'[u] = digest[u]
        BY <2>1 DEF RemoteInvariant, ClientTypes
    <2>3. \A u \in Calls : ClientDoubtsKnown(u)
        BY <2>1, <2>2 DEF ClientDoubtsKnown
    <2> QED
        BY <2>1, <2>3, ServerChanges
<1>2. ASSUME NEW h, HandlerGoesOn(c, h)
      PROVE  handler' = [handler EXCEPT ![c] = h] /\ \A u \in Calls : ClientDoubtsKnown(u)
    BY <1>2 DEF HandlerGoesOn, clientVars, ClientDoubtsKnown
<1>3. handler[c] \in Handler
    BY DEF RemoteInvariant, ServerTypes
<1>4. ASSUME WriteRejects(c) \/ WriteStores(c) \/ ReadEnds(c) \/ ReadDiscards(c) \/ HandlerAborts(c) \/ HandlerFails(c)
      PROVE  \E status : HandlerReturns(c, status)
    BY <1>4 DEF WriteRejects, WriteStores, ReadEnds, ReadDiscards, HandlerAborts, HandlerFails
<1>5. ASSUME WriteReceives(c)
      PROVE  \A u \in Calls : ServerDoubtsKnown(u) /\ ClientDoubtsKnown(u)
    <2>1. \/ \E status : HandlerReturns(c, status)
          \/ \E d, r : HandlerGoesOn(c, Received(handler[c], d, r))
        BY <1>5 DEF WriteReceives
    <2>2. \A d, r : Received(handler[c], d, r).pc = "writing"
        BY <1>3 DEF Received, Handler
    <2> QED
        BY <1>1, <1>2, <2>1, <2>2, ServerChanges
<1>6. ASSUME ReadBegins(c)
      PROVE  \A u \in Calls : ClientDoubtsKnown(u)
    <2>1. \E status : HandlerReturns(c, status) \/ \E h : HandlerGoesOn(c, h)
        BY <1>6 DEF ReadBegins
    <2> QED
        BY <1>1, <1>2, <2>1
<1>7. ASSUME ReadSends(c)
      PROVE  \A u \in Calls : ServerDoubtsKnown(u) /\ ClientDoubtsKnown(u)
    <2>1. PICK n : handler[c].pc = "reading" /\ HandlerGoesOn(c, [handler[c] EXCEPT !.sent = @ + n])
        BY <1>7 DEF ReadSends
    <2> DEFINE h == [handler[c] EXCEPT !.sent = @ + n]
    <2>2. h.pc = "reading" /\ h.digest = handler[c].digest /\ h.data = handler[c].data /\ HandlerGoesOn(c, h)
        BY <1>3, <2>1 DEF Handler
    <2> HIDE DEF h
    <2>3. ServerDoubts(c) \/ Matches(h.data, h.digest)
        BY <2>1, <2>2 DEF ServerDoubts
    <2> QED
        BY <1>2, <2>2, <2>3, ServerChanges
<1>8. ASSUME ReadRejects(c)
      PROVE  \A u \in Calls : ServerDoubtsKnown(u) /\ ClientDoubtsKnown(u)
    <2> DEFINE h == [handler[c] EXCEPT !.pc = "discarding"]
    <2>1. HandlerGoesOn(c, h) /\ ServerDoubts(c)
        BY <1>8 DEF ReadRejects, ServerDoubts
    <2>2. h.digest = handler[c].digest
        BY <1>3 DEF Handler
    <2> HIDE DEF h
    <2> QED
        BY <1>2, <2>1, <2>2, ServerChanges
<1> QED
    BY <1>1, <1>4, <1>5, <1>6, <1>7, <1>8, ReadBeginsKnown DEF HandlerNext

LEMMA DoubtsStep ==
    ASSUME RemoteInvariant, Next
    PROVE  Store!Doubt
<1>1. ASSUME NEW c \in Calls, BreakStream(c) \/ CallFails(c) \/ CloseEarly(c)
      PROVE  \A u \in Calls : ServerDoubtsKnown(u) /\ ClientDoubtsKnown(u)
    <2>1. handler' = handler /\ \E code, broken : LeaveWith(c, code, broken)
        BY <1>1 DEF BreakStream, CallFails, CloseEarly, ReturnWith
    <2> QED
        BY <2>1, ClientLeavesKnown DEF ServerDoubtsKnown
<1>2. ASSUME UNCHANGED <<handler, pc, got, digest>>
      PROVE  \A u \in Calls : ServerDoubtsKnown(u) /\ ClientDoubtsKnown(u)
    BY <1>2 DEF ServerDoubtsKnown, ClientDoubtsKnown
<1>3. ASSUME NEW c \in Calls, ContextDone(c) \/ \E b \in Backends : FindFails(c, b)
      PROVE  UNCHANGED <<handler, pc, got, digest>>
    BY <1>3 DEF ContextDone, FindFails, clientVars
<1>4. ASSUME NEW b \in Backends, NEW d \in Digests, Lose(b, d) \/ Damage(b, d)
      PROVE  UNCHANGED <<handler, pc, got, digest>>
    BY <1>4 DEF Lose, Damage, clientVars
<1>5. ASSUME NEW c \in Calls, Fault(c)
      PROVE  \A u \in Calls : ServerDoubtsKnown(u) /\ ClientDoubtsKnown(u)
    BY <1>1, <1>2, <1>3, <1>5, HandlerKnown DEF Fault
<1>6. \A u \in Calls : ServerDoubtsKnown(u) /\ ClientDoubtsKnown(u)
    BY <1>2, <1>3, <1>4, <1>5, ClientKnown, HandlerKnown DEF Next
<1> QED
    BY <1>6, DoubtsKnown

\* No call or store changes.
LEMMA RemoteStutter ==
    ASSUME RemoteInvariant, UNCHANGED vars
    PROVE  RemoteInvariant' /\ UNCHANGED Store!vars
<1> USE DEF vars, clientVars, resultVars
<1>1. ClientTypes' /\ ServerTypes'
    BY DEF RemoteInvariant, ClientTypes, ServerTypes
<1>2. \A c \in Calls : CallFine(c)'
    BY DEF RemoteInvariant, CallFine, StreamServesCall, SeenIsTold, State, Matches
<1>3. Operations' = Operations /\ Uploads' = Uploads /\ Content' = Content
    BY DEF Operations, Operation, Uploads, Uploading, Putting, Getting, Content, State
<1>4. Doubts' = Doubts
    BY DEF Doubts, ServerDoubts, ClientDoubts, Matches
<1> QED
    BY <1>1, <1>2, <1>3, <1>4 DEF RemoteInvariant, Store!vars

---------------------------------------------------------------------------
\* Streams and handlers serve the call that they belong to, also once it is over,
\* and what a call has seen is what its status will say.
THEOREM RemoteInvariantHolds == Spec => []RemoteInvariant
<1>1. Init => RemoteInvariant
    BY RemoteInit
<1>2. RemoteInvariant /\ [Next]_vars => RemoteInvariant'
    BY RemoteStep, RemoteStutter
<1> QED
    BY <1>1, <1>2, PTL DEF Spec

\* Clients, streams, servers, adapters and stores together are the store that
\* BlobStore describes: every answer was true during the call.
THEOREM RemoteImplementsBlobStore == Spec => Implements
<1>1. Init => Store!Init
    BY RemoteInit
<1>2. RemoteInvariant /\ [Next]_vars => [Store!Next]_(Store!vars)
    BY RemoteStep, RemoteStutter, DoubtsStep DEF Store!Next
<1> QED
    BY <1>1, <1>2, RemoteInvariantHolds, PTL DEF Spec, Implements, Store!Spec

---------------------------------------------------------------------------
\* The protocol of an upload of ours.  Position is how much of the blob has been
\* sent up to and including request i of those on their way, after what the
\* handler has received.
Position(h, reqs, i) == IF i = 0 THEN Len(h.data) ELSE reqs[i].offset + Len(reqs[i].data)

\* The requests on their way continue where the handler stands, one after the
\* other, with the parts of blob s, up to where the client stands.  Only the last
\* one ends the upload, and the stream is half-closed only after it.
InStep(d, s, label, end, closed, h, reqs) ==
    /\ \A i \in 1 .. Len(reqs) :
          /\ reqs[i].offset = Position(h, reqs, i - 1)
          /\ reqs[i].offset = 0 => reqs[i].name = d
          /\ \A j \in 1 .. Len(reqs[i].data) : reqs[i].data[j] = s[reqs[i].offset + j]
          /\ reqs[i].finish = TRUE => i = Len(reqs) /\ label = "closing"
    /\ \A i \in 0 .. Len(reqs) : Position(h, reqs, i) <= SizeBytes[d]
    /\ Position(h, reqs, Len(reqs)) = end
    /\ \A j \in 1 .. Len(h.data) : h.data[j] = s[j]
    /\ h.pc = "new" => Len(h.data) = 0
    /\ h.finished = TRUE => label = "closing" /\ Len(reqs) = 0
    /\ label = "closing" => /\ end = SizeBytes[d]
                            /\ IF Len(reqs) = 0 THEN h.finished = TRUE ELSE reqs[Len(reqs)].finish = TRUE
    /\ closed = TRUE => label = "closing"

\* The blob that a call of ours uploads, and how much of it has been sent.
Uploaded(c) == IF pc[c] = "closing" THEN Blob(digest[c]) ELSE source[c]
SentUpTo(c) == IF pc[c] = "closing" THEN SizeBytes[digest[c]] ELSE offset[c]

SpeaksProtocol(c) ==
    /\ pc[c] # "sending" => offset[c] = 0
    /\ pc[c] \in {"sending", "closing"} =>
          /\ stream[c].status # "InvalidArgument"
          /\ handler[c].pc # "none" =>
                InStep(digest[c], Uploaded(c), pc[c], SentUpTo(c), stream[c].closed, handler[c], stream[c].requests)

ProtocolInvariant == \A c \in Calls : SpeaksProtocol(c)

\* A new stream has nothing on its way.
LEMMA InStepAtFirst ==
    ASSUME NEW d \in Digests, NEW s, NEW h \in Handler, h.pc = "new", h.data = <<>>, h.finished = FALSE
    PROVE  InStep(d, s, "sending", 0, FALSE, h, <<>>)
<1>1. Len(h.data) = 0 /\ SizeBytes[d] \in Nat
    BY RoutingAssumption
<1> QED
    BY <1>1 DEF InStep, Position

\* The client sends the next part of the blob.
LEMMA InStepSends ==
    ASSUME NEW d \in Digests, NEW s \in Data, NEW off \in Nat, NEW m \in Nat, off <= m, m <= Len(s), m <= SizeBytes[d],
           NEW closed, NEW h \in Handler, NEW reqs \in Seq(Message), NEW name, NEW finish \in BOOLEAN,
           NEW label \in {"sending", "closing"}, finish = TRUE <=> label = "closing",
           label = "closing" => m = SizeBytes[d], off = 0 => name = d,
           InStep(d, s, "sending", off, closed, h, reqs)
    PROVE  InStep(d, s, label, m, finish, h, Append(reqs, Request(name, off, SubSeq(s, off + 1, m), finish)))
<1> DEFINE data == SubSeq(s, off + 1, m)
           r == Request(name, off, data, finish)
           t == Append(reqs, r)
           k == Len(reqs)
<1>1. /\ Len(data) = m - off /\ Len(data) \in Nat
      /\ \A j \in 1 .. Len(data) : data[j] = s[off + j]
    <2>1. \A i \in off + 1 .. m : s[i] \in Pieces \cup {<<"absent", 0>>}
        BY ElementOfSeq DEF Data
    <2>2. CASE off < m
        BY <2>1, <2>2, SubSeqProperties DEF Data
    <2>3. CASE off = m
        <3>1. Len(data) = 0
            BY <2>1, <2>3, SubSeqProperties DEF Data
        <3> QED
            BY <2>3, <3>1
    <2> QED
        BY <2>2, <2>3
<1> HIDE DEF data
<1>2. r.name = name /\ r.offset = off /\ r.data = data /\ r.finish = finish
    BY DEF Request
<1> HIDE DEF r
<1>3. /\ k \in Nat /\ Len(t) = k + 1 /\ t[k + 1] = r /\ \A i \in 1 .. k : t[i] = reqs[i]
    BY AppendProperties, LenProperties
<1> HIDE DEF t, k
<1>4. \A i \in 0 .. k : Position(h, t, i) = Position(h, reqs, i)
    BY <1>3 DEF Position
<1>5. Position(h, reqs, k) = off
    BY DEF InStep, k
<1>6. Position(h, t, k + 1) = m
    BY <1>1, <1>2, <1>3 DEF Position
<1>7. ASSUME NEW i \in 1 .. k + 1
      PROVE  /\ t[i].offset = Position(h, t, i - 1)
             /\ t[i].offset = 0 => t[i].name = d
             /\ \A j \in 1 .. Len(t[i].data) : t[i].data[j] = s[t[i].offset + j]
             /\ t[i].finish = TRUE => i = k + 1 /\ label = "closing"
    <2>1. CASE i = k + 1
        <3>1. t[i] = r /\ i - 1 = k
            BY <1>3, <2>1
        <3> QED
            BY <1>1, <1>2, <1>3, <1>4, <1>5, <2>1, <3>1
    <2>2. CASE i # k + 1
        <3>1. i \in 1 .. k /\ i - 1 \in 0 .. k
            BY <1>3, <2>2
        <3>2. t[i] = reqs[i] /\ Position(h, t, i - 1) = Position(h, reqs, i - 1)
            BY <1>3, <1>4, <3>1
        <3> QED
            BY <3>1, <3>2 DEF InStep, k
    <2> QED
        BY <2>1, <2>2
<1>8. \A i \in 0 .. k + 1 : Position(h, t, i) <= SizeBytes[d]
    <2>1. \A i \in 0 .. k : Position(h, reqs, i) <= SizeBytes[d]
        BY DEF InStep, k
    <2> QED
        BY <1>3, <1>4, <1>6, <2>1
<1>9. h.finished # TRUE
    BY DEF InStep
<1>10. (\A j \in 1 .. Len(h.data) : h.data[j] = s[j]) /\ (h.pc = "new" => Len(h.data) = 0)
    BY DEF InStep
<1>11. label = "closing" => m = SizeBytes[d] /\ t[Len(t)].finish = TRUE /\ Len(t) # 0
    <2>1. label = "closing" => finish = TRUE
        OBVIOUS
    <2>2. t[Len(t)] = r /\ Len(t) # 0
        BY <1>3
    <2> QED
        BY <1>2, <2>1, <2>2
<1>12. InStep(d, s, label, m, finish, h, t)
    <2> HIDE DEF Position
    <2> QED
        BY <1>3, <1>6, <1>7, <1>8, <1>9, <1>10, <1>11 DEF InStep
<1> QED
    BY <1>12 DEF t, r, data

\* Both parts of a concatenation.
LEMMA ConcatParts ==
    ASSUME NEW a \in Data, NEW b \in Data
    PROVE  /\ a \o b \in Data /\ Len(a) \in Nat /\ Len(b) \in Nat /\ Len(a \o b) = Len(a) + Len(b)
           /\ \A i \in 1 .. Len(a) : (a \o b)[i] = a[i]
           /\ \A i \in 1 .. Len(b) : (a \o b)[Len(a) + i] = b[i]
BY ConcatProperties, LenProperties DEF Data

\* The server accepts the next request, and is still in step.
LEMMA InStepReceives ==
    ASSUME NEW d \in Digests, NEW s, NEW label, NEW end, NEW closed, NEW h \in Handler, NEW reqs \in Seq(Message),
           reqs # <<>>, InStep(d, s, label, end, closed, h, reqs)
    PROVE  /\ Head(reqs).offset = Len(h.data) /\ h.finished = FALSE
           /\ h.pc = "new" => Head(reqs).name = d /\ Head(reqs).offset = 0
           /\ ~TooLong(h.data \o Head(reqs).data, d)
           /\ InStep(d, s, label, end, closed, Received(h, d, Head(reqs)), Tail(reqs))
<1> DEFINE r == Head(reqs)
           t == Tail(reqs)
           k == Len(reqs)
           data == h.data \o r.data
           g == Received(h, d, r)
<1>1. /\ r \in Message /\ t \in Seq(Message) /\ Len(t) = k - 1 /\ k \in Nat \ {0} /\ r = reqs[1]
      /\ \A i \in 1 .. Len(t) : t[i] = reqs[i + 1]
    BY HeadTailProperties, EmptySeq
<1>2. /\ data \in Data /\ Len(data) = Len(h.data) + Len(r.data) /\ Len(h.data) \in Nat /\ Len(r.data) \in Nat
      /\ \A i \in 1 .. Len(h.data) : data[i] = h.data[i]
      /\ \A i \in 1 .. Len(r.data) : data[Len(h.data) + i] = r.data[i]
    <2>1. h.data \in Data /\ r.data \in Data
        BY <1>1 DEF Handler, Message
    <2> QED
        BY <2>1, ConcatParts
<1>3. g.pc = "writing" /\ g.data = data /\ g.finished = r.finish
    BY DEF Received, Handler
<1> HIDE DEF r, t, k, data, g
<1>4. /\ r.offset = Position(h, reqs, 0)
      /\ r.offset = 0 => r.name = d
      /\ \A j \in 1 .. Len(r.data) : r.data[j] = s[r.offset + j]
      /\ r.finish = TRUE => 1 = k /\ label = "closing"
    <2>1. 1 \in 1 .. k /\ 1 - 1 = 0
        BY <1>1
    <2> QED
        BY <1>1, <2>1 DEF InStep, k
<1>5. r.offset = Len(h.data)
    BY <1>4 DEF Position
<1>6. h.finished = FALSE
    <2>1. h.finished # TRUE
        BY <1>1 DEF InStep, k
    <2>2. h.finished \in BOOLEAN
        BY DEF Handler
    <2> QED
        BY <2>1, <2>2
<1>7. h.pc = "new" => r.name = d /\ r.offset = 0
    BY <1>4, <1>5 DEF InStep
<1>8. Position(h, reqs, 1) = Len(data)
    BY <1>1, <1>2, <1>5 DEF Position
<1>9. \A i \in 0 .. k : Position(h, reqs, i) <= SizeBytes[d]
    BY DEF InStep, k
<1>10. ~TooLong(data, d)
    <2>1. Len(data) <= SizeBytes[d]
        BY <1>1, <1>8, <1>9
    <2>2. SizeBytes[d] \in Nat
        BY RoutingAssumption
    <2>3. Len(data) \in Nat
        BY <1>2, LenProperties DEF Data
    <2> QED
        BY <2>1, <2>2, <2>3 DEF TooLong
<1>11. \A i \in 0 .. Len(t) : Position(g, t, i) = Position(h, reqs, i + 1)
    <2>1. Position(g, t, 0) = Position(h, reqs, 1)
        BY <1>3, <1>8 DEF Position
    <2>2. ASSUME NEW i \in 1 .. Len(t) PROVE Position(g, t, i) = Position(h, reqs, i + 1)
        BY <1>1 DEF Position
    <2> QED
        BY <1>1, <2>1, <2>2
<1>12. ASSUME NEW i \in 1 .. Len(t)
       PROVE  /\ t[i].offset = Position(g, t, i - 1)
              /\ t[i].offset = 0 => t[i].name = d
              /\ \A j \in 1 .. Len(t[i].data) : t[i].data[j] = s[t[i].offset + j]
              /\ t[i].finish = TRUE => i = Len(t) /\ label = "closing"
    <2>1. i + 1 \in 1 .. k /\ t[i] = reqs[i + 1] /\ i - 1 \in 0 .. Len(t) /\ (i + 1) - 1 = i /\ (i - 1) + 1 = i
        BY <1>1
    <2>2. /\ reqs[i + 1].offset = Position(h, reqs, (i + 1) - 1)
          /\ reqs[i + 1].offset = 0 => reqs[i + 1].name = d
          /\ \A j \in 1 .. Len(reqs[i + 1].data) : reqs[i + 1].data[j] = s[reqs[i + 1].offset + j]
          /\ reqs[i + 1].finish = TRUE => i + 1 = k /\ label = "closing"
        BY <2>1 DEF InStep, k
    <2>3. Position(g, t, i - 1) = Position(h, reqs, i)
        BY <1>11, <2>1
    <2> QED
        BY <1>1, <2>1, <2>2, <2>3
<1>13. \A i \in 0 .. Len(t) : Position(g, t, i) <= SizeBytes[d]
    BY <1>1, <1>9, <1>11
<1>14. Position(g, t, Len(t)) = end
    <2>1. Position(h, reqs, k) = end
        BY DEF InStep, k
    <2> QED
        BY <1>1, <1>11, <2>1
<1>15. \A j \in 1 .. Len(g.data) : g.data[j] = s[j]
    <2>1. \A j \in 1 .. Len(h.data) : h.data[j] = s[j]
        BY DEF InStep
    <2>2. ASSUME NEW j \in 1 .. Len(h.data) + Len(r.data) PROVE data[j] = s[j]
        <3>1. CASE j <= Len(h.data)
            <4>1. j \in 1 .. Len(h.data)
                BY <1>2, <3>1
            <4> QED
                BY <1>2, <2>1, <4>1
        <3>2. CASE j > Len(h.data)
            <4>1. PICK i \in 1 .. Len(r.data) : j = Len(h.data) + i
                <5>1. j - Len(h.data) \in 1 .. Len(r.data) /\ j = Len(h.data) + (j - Len(h.data))
                    <6> DEFINE m == Len(h.data)
                               n == Len(r.data)
                    <6>1. m \in Nat /\ n \in Nat /\ j \in 1 .. m + n /\ j > m
                        BY <1>2, <3>2
                    <6> HIDE DEF m, n
                    <6>2. j - m \in 1 .. n /\ j = m + (j - m)
                        BY <6>1
                    <6> QED
                        BY <6>2 DEF m, n
                <5> QED
                    BY <5>1
            <4> QED
                BY <1>2, <1>4, <1>5, <4>1
        <3> QED
            BY <1>2, <3>1, <3>2
    <2> QED
        BY <1>2, <1>3, <2>2
<1>16. g.finished = TRUE => label = "closing" /\ Len(t) = 0
    BY <1>1, <1>3, <1>4
<1>17. label = "closing" => /\ end = SizeBytes[d]
                            /\ IF Len(t) = 0 THEN g.finished = TRUE ELSE t[Len(t)].finish = TRUE
    <2> SUFFICES ASSUME label = "closing"
                 PROVE  /\ end = SizeBytes[d]
                        /\ IF Len(t) = 0 THEN g.finished = TRUE ELSE t[Len(t)].finish = TRUE
        OBVIOUS
    <2>1. end = SizeBytes[d] /\ reqs[k].finish = TRUE
        BY <1>1 DEF InStep, k
    <2>2. CASE Len(t) = 0
        BY <1>1, <1>3, <2>1, <2>2
    <2>3. CASE Len(t) # 0
        <3>1. Len(t) \in 1 .. Len(t) /\ Len(t) + 1 = k
            BY <1>1, <2>3
        <3> QED
            BY <1>1, <2>1, <2>3, <3>1
    <2> QED
        BY <2>1, <2>2, <2>3
<1>18. closed = TRUE => label = "closing"
    BY DEF InStep
<1>19. InStep(d, s, label, end, closed, g, t)
    BY <1>3, <1>12, <1>13, <1>14, <1>15, <1>16, <1>17, <1>18 DEF InStep
<1> QED
    BY <1>5, <1>6, <1>7, <1>10, <1>19 DEF r, t, g, data

\* At the end of the stream the whole blob has arrived.
LEMMA InStepAtEnd ==
    ASSUME NEW d \in Digests, NEW label, NEW end, NEW h \in Handler, h.pc # "none", h.pc # "new" => h.digest = d,
           InStep(d, Blob(d), label, end, TRUE, h, <<>>)
    PROVE  label = "closing" /\ (h.pc # "new" => Complete(h))
<1>1. label = "closing" /\ h.finished = TRUE /\ Len(h.data) = SizeBytes[d]
      /\ \A j \in 1 .. Len(h.data) : h.data[j] = Blob(d)[j]
    BY DEF InStep, Position
<1>2. h.data \in Data /\ SizeBytes[d] \in Nat
    BY RoutingAssumption DEF Handler
<1>3. h.data = [j \in 1 .. Len(h.data) |-> h.data[j]]
    BY <1>2 DEF Data
<1>4. Blob(d) = [j \in 1 .. SizeBytes[d] |-> Blob(d)[j]]
    BY DEF Blob
<1>5. h.data = Blob(d)
    BY <1>1, <1>3, <1>4
<1> QED
    BY <1>1, <1>5 DEF Complete, Matches

---------------------------------------------------------------------------
Ours == {"sending", "closing"}

\* A call that a step leaves alone keeps to the protocol.
SameUpload(c) == UNCHANGED <<pc[c], digest[c], source[c], offset[c], stream[c], handler[c]>>
OnlyUpload(c) == \A u \in Calls \ {c} : SameUpload(u)

LEMMA UploadsStay ==
    ASSUME NEW c \in Calls, SpeaksProtocol(c), SameUpload(c)
    PROVE  SpeaksProtocol(c)'
<1>1. Uploaded(c)' = Uploaded(c) /\ SentUpTo(c)' = SentUpTo(c)
    BY DEF SameUpload, Uploaded, SentUpTo, Blob
<1> DEFINE Ok == InStep(digest[c], Uploaded(c), pc[c], SentUpTo(c), stream[c].closed, handler[c], stream[c].requests)
<1>2. Ok' <=> InStep(digest'[c], Uploaded(c)', pc'[c], SentUpTo(c)', stream'[c].closed, handler'[c], stream'[c].requests)
    BY DEF InStep, Position
<1>3. UNCHANGED <<digest[c], pc[c], stream[c], handler[c], offset[c]>>
    BY DEF SameUpload
<1>4. Ok' <=> Ok
    BY <1>1, <1>2, <1>3
<1> HIDE DEF Ok
<1> QED
    BY <1>3, <1>4 DEF SpeaksProtocol, Ok

LEMMA OtherUploads ==
    ASSUME ProtocolInvariant, NEW c \in Calls, OnlyUpload(c), SpeaksProtocol(c)'
    PROVE  ProtocolInvariant'
BY UploadsStay DEF ProtocolInvariant, OnlyUpload

\* A call is about something else, or over.
LEMMA NoUpload ==
    ASSUME ProtocolInvariant, NEW c \in Calls, OnlyUpload(c), pc'[c] \notin Ours,
           offset'[c] = 0 \/ (pc[c] # "sending" /\ offset'[c] = offset[c])
    PROVE  ProtocolInvariant'
<1>1. offset'[c] = 0
    BY DEF ProtocolInvariant, SpeaksProtocol
<1> QED
    BY <1>1, OtherUploads DEF SpeaksProtocol, Ours

LEMMA UploadLeaves ==
    ASSUME RemoteInvariant, ProtocolInvariant, NEW c \in Calls, NEW code, NEW broken, LeaveWith(c, code, broken),
           UNCHANGED handler
    PROVE  ProtocolInvariant'
<1>1. pc'[c] \notin Ours /\ OnlyUpload(c) /\ offset'[c] = 0
    BY DEF LeaveWith, Goto, RemoteInvariant, ClientTypes, ServerTypes, OnlyUpload, SameUpload, Ours
<1> QED
    BY <1>1, NoUpload

\* A handler returns; it has not rejected an upload of ours.
LEMMA UploadServed ==
    ASSUME RemoteInvariant, ProtocolInvariant, NEW c \in Calls, handler[c].pc # "none", NEW status \in Statuses,
           HandlerReturns(c, status), pc[c] \in Ours => status # "InvalidArgument"
    PROVE  ProtocolInvariant'
<1>1. OnlyUpload(c)
    BY DEF HandlerReturns, RemoteInvariant, ClientTypes, ServerTypes, OnlyUpload, SameUpload
<1>2. handler'[c].pc = "none" /\ pc'[c] = pc[c] /\ offset'[c] = offset[c]
    BY DEF HandlerReturns, RemoteInvariant, ServerTypes, NoHandler
<1>3. pc[c] # "idle" => stream'[c].status = status
    <2>1. stream[c] \in Stream
        BY DEF RemoteInvariant, ServerTypes, CallFine, StreamServesCall, NoStream
    <2> DEFINE new == [stream[c] EXCEPT !.status = status, !.requests = <<>>]
    <2>2. new.status = status
        BY <2>1 DEF Stream
    <2> HIDE DEF new
    <2>3. pc[c] # "idle" => stream'[c] = new
        BY DEF HandlerReturns, RemoteInvariant, ServerTypes, new
    <2> QED
        BY <2>2, <2>3
<1>4. SpeaksProtocol(c)'
    BY <1>2, <1>3 DEF ProtocolInvariant, SpeaksProtocol, Ours
<1> QED
    BY <1>1, <1>4, OtherUploads

\* Put opens its stream.
LEMMA UploadBegins ==
    ASSUME RemoteInvariant, ProtocolInvariant, NEW c \in Calls, NEW d \in Digests, BeginPut(c, d)
    PROVE  ProtocolInvariant'
<1>1. /\ OnlyUpload(c) /\ digest'[c] = d /\ offset' = offset /\ pc[c] = "idle"
      /\ pc'[c] \in {"sending", "storing"}
    BY DEF BeginPut, Begin, Goto, Serve, RemoteInvariant, ClientTypes, ServerTypes, OnlyUpload, SameUpload
<1>2. CASE pc'[c] = "storing"
    BY <1>1, <1>2, NoUpload DEF Ours
<1>3. CASE pc'[c] = "sending"
    <2>1. Serve(c, "write", BackendOf(d))
        BY <1>3 DEF BeginPut, Goto, RemoteInvariant, ClientTypes
    <2>2. /\ stream'[c] = OpenStream("write", BackendOf(d)) /\ handler'[c] = NewHandler
        BY <2>1 DEF Serve, RemoteInvariant, ServerTypes
    <2>3. /\ stream'[c].status = "open" /\ stream'[c].closed = FALSE /\ stream'[c].requests = <<>>
        BY <2>2 DEF OpenStream
    <2>4. handler'[c] \in Handler /\ handler'[c].pc = "new" /\ handler'[c].data = <<>> /\ handler'[c].finished = FALSE
        <3>1. <<>> \in Data
            BY DEF Data
        <3>2. NewHandler \in Handler
            BY <3>1 DEF NewHandler, NoHandler, Handler, HandlerLabels
        <3>3. NewHandler.pc = "new" /\ NewHandler.data = <<>> /\ NewHandler.finished = FALSE
            BY DEF NewHandler, NoHandler
        <3> QED
            BY <2>2, <3>2, <3>3
    <2>5. offset[c] = 0
        BY <1>1 DEF ProtocolInvariant, SpeaksProtocol
    <2>6. InStep(d, source'[c], "sending", 0, FALSE, handler'[c], <<>>)
        BY <2>4, InStepAtFirst
    <2>7. Uploaded(c)' = source'[c] /\ SentUpTo(c)' = 0
        BY <1>1, <1>3, <2>5 DEF Uploaded, SentUpTo
    <2>8. SpeaksProtocol(c)'
        BY <1>1, <1>3, <2>3, <2>6, <2>7 DEF SpeaksProtocol
    <2> QED
        BY <1>1, <2>8, OtherUploads
<1> QED
    BY <1>1, <1>2, <1>3

\* Put sends a request.
LEMMA UploadSends ==
    ASSUME RemoteInvariant, ProtocolInvariant, NEW c \in Calls, SendChunk(c) \/ SendLastChunk(c)
    PROVE  ProtocolInvariant'
<1> DEFINE d == digest[c]
           s == source[c]
           off == offset[c]
<1>1. /\ pc[c] = "sending" /\ d \in Digests /\ s \in Data /\ off \in Nat /\ stream[c].kind = "write"
      /\ handler[c] \in Handler /\ SizeBytes[d] \in Nat /\ Len(s) \in Nat
    <2>1. pc[c] = "sending" /\ CallFine(c) /\ s \in Data /\ off \in Nat /\ handler[c] \in Handler
        BY DEF SendChunk, SendLastChunk, RemoteInvariant, ClientTypes, ServerTypes
    <2>2. d \in Digests /\ stream[c].kind = "write"
        BY <2>1 DEF CallFine, StreamServesCall, SeenIsTold, WriteLabels
    <2>3. Len(s) \in Nat
        BY <2>1, LenProperties DEF Data
    <2> QED
        BY <2>1, <2>2, <2>3, RoutingAssumption
<1>2. stream[c] \in Stream /\ stream[c].requests \in Seq(Message)
    BY <1>1 DEF RemoteInvariant, ServerTypes, NoStream, Stream
<1>3. /\ stream[c].status # "InvalidArgument"
      /\ handler[c].pc # "none" =>
            InStep(d, s, "sending", off, stream[c].closed, handler[c], stream[c].requests) /\ off <= SizeBytes[d]
    <2>1. SpeaksProtocol(c) /\ Uploaded(c) = s /\ SentUpTo(c) = off
        BY <1>1 DEF ProtocolInvariant, Uploaded, SentUpTo
    <2>2. /\ stream[c].status # "InvalidArgument"
          /\ handler[c].pc # "none" => InStep(d, s, "sending", off, stream[c].closed, handler[c], stream[c].requests)
        BY <1>1, <2>1 DEF SpeaksProtocol
    <2>3. InStep(d, s, "sending", off, stream[c].closed, handler[c], stream[c].requests) => off <= SizeBytes[d]
        <3>1. Len(stream[c].requests) \in 0 .. Len(stream[c].requests)
            BY <1>2, LenProperties
        <3> QED
            BY <3>1 DEF InStep
    <2> QED
        BY <2>2, <2>3
<1> HIDE DEF d, s, off
<1>4. ASSUME NEW m \in Nat, NEW label \in Ours, NEW finish \in BOOLEAN, finish = TRUE <=> label = "closing",
             handler[c].pc # "none" => off <= m, m <= Len(s), m <= SizeBytes[d],
             label = "closing" => m = SizeBytes[d] /\ s = Blob(d),
             SendRequest(c, SubSeq(s, off + 1, m), finish), pc'[c] = label,
             \A u \in Calls \ {c} : pc'[u] = pc[u] /\ source'[u] = source[u] /\ offset'[u] = offset[u],
             label = "sending" => source'[c] = s /\ offset'[c] = m,
             label = "closing" => offset'[c] = 0
      PROVE  ProtocolInvariant'
    <2> DEFINE r == Request(NameToSend(c), off, SubSeq(s, off + 1, m), finish)
    <2>1. r \in Message
        <3>1. NameToSend(c) \in Digests \cup {NoName}
            BY <1>1 DEF NameToSend, d
        <3>2. SubSeq(s, off + 1, m) \in Data
            BY <1>1, <1>4, PartsAreData
        <3> QED
            BY <1>1, <3>1, <3>2 DEF Request, Message
    <2>2. stream' = [stream EXCEPT ![c].requests = Append(@, r), ![c].closed = finish]
        BY <1>4 DEF SendRequest, HalfCloses, off
    <2>3. /\ \A u \in Calls \ {c} : stream'[u] = stream[u]
          /\ stream'[c].status = stream[c].status /\ stream'[c].closed = finish
          /\ stream'[c].requests = Append(stream[c].requests, r)
        <3> HIDE DEF r
        <3> QED
            BY <1>1, <1>4, <2>1, <2>2, RequestAdded DEF RemoteInvariant
    <2>4. handler' = handler /\ digest' = digest
        BY <1>4 DEF SendRequest
    <2>5. OnlyUpload(c)
        BY <1>4, <2>3, <2>4 DEF OnlyUpload, SameUpload
    <2>6. handler[c].pc # "none" => InStep(d, s, label, m, finish, handler[c], Append(stream[c].requests, r))
        <3>1. off = 0 => NameToSend(c) = d
            BY DEF NameToSend, off, d
        <3>2. label \in {"sending", "closing"}
            BY DEF Ours
        <3> DEFINE name == NameToSend(c)
                   closed == stream[c].closed
                   h == handler[c]
                   reqs == stream[c].requests
        <3>3. ASSUME h.pc # "none"
              PROVE  InStep(d, s, label, m, finish, h, Append(reqs, Request(name, off, SubSeq(s, off + 1, m), finish)))
            <4>1. InStep(d, s, "sending", off, closed, h, reqs) /\ off <= m
                BY <1>3, <1>4, <3>3
            <4>2. h \in Handler /\ reqs \in Seq(Message) /\ (off = 0 => name = d)
                BY <1>1, <1>2, <3>1
            <4>3. /\ m <= Len(s) /\ m <= SizeBytes[d] /\ (label = "closing" => m = SizeBytes[d])
                  /\ d \in Digests /\ s \in Data /\ off \in Nat
                BY <1>1, <1>4
            <4>4. finish = TRUE <=> label = "closing"
                BY <1>4
            <4> HIDE DEF name, closed, h, reqs
            <4> QED
                BY <3>2, <4>1, <4>2, <4>3, <4>4, InStepSends, Zenon
        <3> QED
            BY <3>3
    <2>7. Uploaded(c)' = s /\ SentUpTo(c)' = m
        BY <1>4, <2>4 DEF Uploaded, SentUpTo, Ours, d, Blob
    <2> HIDE DEF r
    <2>8. SpeaksProtocol(c)'
        <3>1. pc'[c] # "sending" => offset'[c] = 0
            BY <1>4 DEF Ours
        <3> QED
            BY <1>3, <1>4, <2>3, <2>4, <2>6, <2>7, <3>1 DEF SpeaksProtocol, d
    <2> QED
        BY <2>5, <2>8, OtherUploads
<1>5. CASE SendChunk(c)
    <2>1. PICK n \in 1 .. readChunkSize :
             /\ off + n <= Len(s) /\ ~TooLong(First(s, off + n), d)
             /\ SendRequest(c, SubSeq(s, off + 1, off + n), FALSE)
             /\ offset' = [offset EXCEPT ![c] = @ + n]
        BY <1>5 DEF SendChunk, Sent, off, s, d
    <2>2. n \in Nat /\ off + n \in Nat /\ off <= off + n
        BY <1>1, RemoteAssumption
    <2>3. off + n <= SizeBytes[d]
        <3>1. Len(First(s, off + n)) = off + n
            <4>1. CASE off + n < Len(s)
                <5>1. \A i \in 1 .. off + n : s[i] \in Pieces \cup {<<"absent", 0>>}
                    BY <1>1, <2>1, ElementOfSeq DEF Data
                <5>2. Len(SubSeq(s, 1, off + n)) = off + n
                    BY <1>1, <2>2, <5>1, SubSeqProperties DEF Data
                <5> QED
                    BY <4>1, <5>2 DEF First
            <4>2. CASE ~(off + n < Len(s))
                BY <1>1, <2>1, <2>2, <4>2 DEF First
            <4> QED
                BY <4>1, <4>2
        <3> QED
            BY <1>1, <2>1, <2>2, <3>1 DEF TooLong
    <2>4. /\ pc' = pc /\ source' = source
          /\ offset'[c] = off + n /\ \A u \in Calls \ {c} : offset'[u] = offset[u]
        BY <1>5, <2>1 DEF SendChunk, RemoteInvariant, ClientTypes, off
    <2> DEFINE m == off + n
    <2>5. /\ m \in Nat /\ off <= m /\ m <= Len(s) /\ m <= SizeBytes[d] /\ offset'[c] = m
          /\ SendRequest(c, SubSeq(s, off + 1, m), FALSE) /\ source'[c] = s /\ pc'[c] = "sending"
        BY <1>1, <2>1, <2>2, <2>3, <2>4 DEF s
    <2> HIDE DEF m
    <2> QED
        BY <1>4, <2>4, <2>5 DEF Ours
<1>6. CASE SendLastChunk(c)
    <2>1. s = Blob(d) /\ SendRequest(c, SubSeq(s, off + 1, Len(s)), TRUE)
        BY <1>6 DEF SendLastChunk, Matches, Rest, s, d, off
    <2>2. Len(s) = SizeBytes[d]
        BY <1>1, <2>1 DEF Blob
    <2>3. /\ pc'[c] = "closing" /\ offset'[c] = 0
          /\ \A u \in Calls \ {c} : pc'[u] = pc[u] /\ source'[u] = source[u] /\ offset'[u] = offset[u]
        BY <1>6 DEF SendLastChunk, Goto, RemoteInvariant, ClientTypes
    <2>4. handler[c].pc # "none" => off <= Len(s)
        BY <1>3, <2>2
    <2> DEFINE m == Len(s)
    <2>5. m \in Nat /\ m <= Len(s) /\ m <= SizeBytes[d] /\ m = SizeBytes[d] /\ (handler[c].pc # "none" => off <= m)
        BY <1>1, <2>2, <2>4
    <2>6. SendRequest(c, SubSeq(s, off + 1, m), TRUE)
        BY <2>1
    <2> HIDE DEF m
    <2> QED
        BY <1>4, <2>1, <2>3, <2>5, <2>6 DEF Ours
<1> QED
    BY <1>5, <1>6

\* The server gets a request, or the end of a stream.
LEMMA UploadReceived ==
    ASSUME RemoteInvariant, ProtocolInvariant, NEW c \in Calls, WriteReceives(c) \/ WriteRejects(c)
    PROVE  ProtocolInvariant'
<1> DEFINE h == handler[c]
           r == Head(stream[c].requests)
           d == digest[c]
<1>1. /\ CallFine(c) /\ stream[c].kind = "write" /\ h.pc \in {"new", "writing"} /\ h \in Handler
    BY DEF WriteReceives, WriteRejects, AtEOF, RemoteInvariant, ServerTypes
<1>2. /\ d \in Digests /\ (h.pc # "new" => h.digest = d) /\ (h.pc = "new" => h.finished = FALSE)
      /\ stream[c] \in Stream /\ stream[c].requests \in Seq(Message)
    <2>1. stream[c] \in Stream
        BY <1>1 DEF RemoteInvariant, ServerTypes, NoStream
    <2> QED
        BY <1>1, <2>1 DEF CallFine, StreamServesCall, Stream
<1>3. \A st, g : HandlerReturns(c, st) \/ HandlerGoesOn(c, g) => pc' = pc /\ offset' = offset
    BY DEF HandlerReturns, HandlerGoesOn, clientVars
<1>4. CASE pc[c] \notin Ours
    <2>1. CASE \E st \in Statuses : HandlerReturns(c, st)
        BY <1>1, <1>4, <2>1, UploadServed
    <2>2. CASE WriteReceives(c) /\ HandlerGoesOn(c, Received(h, IF h.pc = "new" THEN r.name ELSE h.digest, r))
               /\ stream' = [stream EXCEPT ![c].requests = Tail(@)]
        <3> DEFINE g == Received(h, IF h.pc = "new" THEN r.name ELSE h.digest, r)
        <3> HIDE DEF g
        <3>1. HandlerGoesOn(c, g)
            BY <2>2 DEF g
        <3>2. OnlyUpload(c) /\ pc'[c] = pc[c] /\ offset'[c] = offset[c]
            BY <2>2, <3>1 DEF HandlerGoesOn, clientVars, RemoteInvariant, ServerTypes, OnlyUpload, SameUpload
        <3> QED
            BY <1>4, <3>2, NoUpload DEF Ours
    <2> QED
        BY <2>1, <2>2 DEF WriteReceives, WriteRejects, Statuses
<1>5. CASE pc[c] \in Ours
    <2>1. /\ InStep(d, Uploaded(c), pc[c], SentUpTo(c), stream[c].closed, h, stream[c].requests)
          /\ stream[c].status # "InvalidArgument" /\ (pc[c] # "sending" => offset[c] = 0)
        BY <1>1, <1>5 DEF ProtocolInvariant, SpeaksProtocol, Ours
    <2>2. CASE WriteReceives(c)
        <3>1. stream[c].requests # <<>>
            BY <2>2 DEF WriteReceives
        <3>2. /\ r.offset = Len(h.data) /\ h.finished = FALSE
              /\ h.pc = "new" => r.name = d /\ r.offset = 0
              /\ ~TooLong(h.data \o r.data, d)
              /\ InStep(d, Uploaded(c), pc[c], SentUpTo(c), stream[c].closed, Received(h, d, r), Tail(stream[c].requests))
            BY <1>1, <1>2, <2>1, <3>1, InStepReceives
        <3>3. d = IF h.pc = "new" THEN r.name ELSE h.digest
            BY <1>2, <3>2
        <3>4. IF h.pc = "new" THEN AcceptsFirst(r) ELSE Accepts(h, r)
            <4>1. d # NoName
                BY <1>2, RemoteAssumption
            <4> QED
                BY <3>2, <4>1 DEF AcceptsFirst, Accepts
        <3>5. HandlerGoesOn(c, Received(h, d, r)) /\ stream' = [stream EXCEPT ![c].requests = Tail(@)]
            BY <2>2, <3>2, <3>3, <3>4 DEF WriteReceives
        <3> DEFINE g == Received(h, d, r)
                   new == [stream[c] EXCEPT !.requests = Tail(@)]
        <3>6. /\ new.status = stream[c].status /\ new.closed = stream[c].closed
              /\ new.requests = Tail(stream[c].requests)
            BY <1>2 DEF Stream
        <3> HIDE DEF g, new
        <3>7. HandlerGoesOn(c, g) /\ stream' = [stream EXCEPT ![c] = new]
            BY <3>5 DEF g, new
        <3>8. /\ OnlyUpload(c) /\ UNCHANGED <<pc, digest, source, offset>>
              /\ handler'[c] = g /\ stream'[c] = new
            BY <3>7 DEF HandlerGoesOn, clientVars, RemoteInvariant, ServerTypes, OnlyUpload, SameUpload
        <3>9. Uploaded(c)' = Uploaded(c) /\ SentUpTo(c)' = SentUpTo(c)
            BY <3>8 DEF Uploaded, SentUpTo, Blob
        <3>10. InStep(d, Uploaded(c), pc[c], SentUpTo(c), stream[c].closed, g, Tail(stream[c].requests))
            BY <3>2 DEF g
        <3>11. SpeaksProtocol(c)'
            BY <2>1, <3>6, <3>8, <3>9, <3>10 DEF SpeaksProtocol
        <3> QED
            BY <3>8, <3>11, OtherUploads
    <2>3. CASE WriteRejects(c)
        <3>1. stream[c].closed = TRUE /\ stream[c].requests = <<>> /\ ~Complete(h)
            BY <1>2, <2>3 DEF WriteRejects, AtEOF, Stream
        <3>2. InStep(d, Uploaded(c), pc[c], SentUpTo(c), TRUE, h, <<>>)
            BY <2>1, <3>1
        <3>3. pc[c] = "closing"
            BY <3>2 DEF InStep
        <3>4. Uploaded(c) = Blob(d)
            BY <3>3 DEF Uploaded
        <3>5. h.pc # "new" => Complete(h)
            BY <1>1, <1>2, <3>2, <3>4, InStepAtEnd
        <3>6. h.finished = TRUE
            BY <3>2, <3>3 DEF InStep
        <3> QED
            BY <1>2, <3>1, <3>5, <3>6
    <2> QED
        BY <2>2, <2>3
<1> QED
    BY <1>4, <1>5

\* Every step keeps to the protocol.
LEMMA ProtocolStep ==
    ASSUME RemoteInvariant, ProtocolInvariant, Next
    PROVE  ProtocolInvariant'
<1>1. /\ pc \in [Calls -> Labels] /\ digest \in [Calls -> Digests \cup {NoName}] /\ source \in [Calls -> Data]
      /\ offset \in [Calls -> Nat] /\ stream \in [Calls -> Stream \cup {NoStream}] /\ handler \in [Calls -> Handler]
    BY DEF RemoteInvariant, ClientTypes, ServerTypes
<1>2. ASSUME NEW c \in Calls,
             \/ PutRejects(c) \/ SendFails(c) \/ CloseAndRecv(c) \/ StoredDirectly(c) \/ RefusedSilently(c)
             \/ RecvEnd(c) \/ CloseEarly(c) \/ FetchedDirectly(c) \/ DiscardedDirectly(c)
             \/ FindMissingReturns(c) \/ BreakStream(c) \/ CallFails(c)
      PROVE  ProtocolInvariant'
    <2>1. UNCHANGED handler /\ \E code, broken : LeaveWith(c, code, broken)
        BY <1>2 DEF PutRejects, SendFails, CloseAndRecv, StoredDirectly, RefusedSilently, RecvEnd, CloseEarly,
           FetchedDirectly, DiscardedDirectly, FindMissingReturns, BreakStream, CallFails, ReturnWith
    <2> QED
        BY <2>1, UploadLeaves
<1>3. ASSUME NEW c \in Calls, pc[c] # "sending", offset' = offset, OnlyUpload(c), pc'[c] \notin Ours
      PROVE  ProtocolInvariant'
    BY <1>3, NoUpload
<1>4. ASSUME NEW c \in Calls, StoreDirectly(c) \/ FetchDirectly(c) \/ DiscardDirectly(c)
      PROVE  ProtocolInvariant'
    <2>1. OnlyUpload(c) /\ pc'[c] \notin Ours /\ pc[c] # "sending" /\ offset' = offset
        BY <1>1, <1>4 DEF StoreDirectly, FetchDirectly, DiscardDirectly, Goto, OnlyUpload, SameUpload, Ours
    <2> QED
        BY <1>3, <2>1
<1>5. ASSUME NEW c \in Calls, UploadEnds(c) PROVE ProtocolInvariant'
    <2>1. CASE ReturnWith(c, "error")
        BY <1>5, <2>1, UploadLeaves DEF UploadEnds, ReturnWith
    <2>2. CASE /\ stream' = [stream EXCEPT ![c].closed = TRUE]
               /\ Goto(c, "awaiting") /\ UNCHANGED <<digest, source, offset, got, find, resultVars>>
        <3>1. OnlyUpload(c) /\ pc'[c] \notin Ours /\ pc[c] # "sending" /\ offset' = offset
            BY <1>1, <1>5, <2>2 DEF UploadEnds, Goto, OnlyUpload, SameUpload, Ours
        <3> QED
            BY <1>3, <3>1
    <2> QED
        BY <1>5, <2>1, <2>2 DEF UploadEnds
<1>6. ASSUME NEW c \in Calls, RecvChunk(c) \/ Upload(c) \/ ContextDone(c) PROVE ProtocolInvariant'
    <2>1. OnlyUpload(c)
        <3>1. \E new : stream' = [stream EXCEPT ![c] = new]
            BY <1>6 DEF RecvChunk, Upload, ContextDone
        <3>2. \A u \in Calls \ {c} : stream'[u] = stream[u]
            BY <1>1, <3>1
        <3>3. \A u \in Calls \ {c} : pc'[u] = pc[u] /\ UNCHANGED <<digest, source, offset, handler>>
            BY <1>1, <1>6 DEF RecvChunk, Upload, ContextDone, Goto, clientVars
        <3> QED
            BY <3>2, <3>3 DEF OnlyUpload, SameUpload
    <2>2. pc'[c] \notin Ours /\ pc[c] # "sending" /\ offset' = offset
        BY <1>1, <1>6 DEF RecvChunk, Upload, ContextDone, Goto, clientVars, Ours
    <2> QED
        BY <1>3, <2>1, <2>2
<1>7. ASSUME UNCHANGED <<pc, digest, source, offset, stream, handler>> PROVE ProtocolInvariant'
    BY <1>7, UploadsStay DEF ProtocolInvariant, SameUpload
<1>8. ASSUME NEW c \in Calls, NEW d \in Digests, LookFor(c, d) PROVE ProtocolInvariant'
    BY <1>7, <1>8 DEF LookFor, clientVars
<1>9. ASSUME NEW c \in Calls, NEW b \in Backends, FindFails(c, b) PROVE ProtocolInvariant'
    BY <1>7, <1>9 DEF FindFails, clientVars
<1>10. ASSUME NEW b \in Backends, NEW d \in Digests, Lose(b, d) \/ Damage(b, d) PROVE ProtocolInvariant'
    BY <1>7, <1>10 DEF Lose, Damage, clientVars
<1>11. ASSUME NEW c \in Calls, WriteStores(c) \/ HandlerAborts(c) \/ HandlerFails(c)
       PROVE  ProtocolInvariant'
    <2>1. handler[c].pc # "none" /\ \E status \in {"OK", "error"} : HandlerReturns(c, status)
        BY <1>11 DEF WriteStores, HandlerAborts, HandlerFails, AtEOF
    <2> QED
        BY <2>1, UploadServed DEF Statuses
<1>12. ASSUME NEW c \in Calls,
              ReadBegins(c) \/ ReadSends(c) \/ ReadEnds(c) \/ ReadRejects(c) \/ ReadDiscards(c)
       PROVE  ProtocolInvariant'
    <2>1. handler[c].pc # "none" /\ pc[c] \notin Ours
        <3>1. CallFine(c)
            BY DEF RemoteInvariant
        <3>2. stream[c].kind = "read" /\ handler[c].pc # "none"
            BY <1>12, <3>1 DEF ReadBegins, ReadSends, ReadEnds, ReadRejects, ReadDiscards, CallFine, StreamServesCall
        <3> QED
            BY <3>1, <3>2 DEF CallFine, StreamServesCall, WriteLabels, Ours
    <2>2. CASE \E status \in Statuses : HandlerReturns(c, status)
        BY <2>1, <2>2, UploadServed
    <2>3. CASE \E h : HandlerGoesOn(c, h) /\ \A u \in Calls \ {c} : stream'[u] = stream[u]
        <3>1. OnlyUpload(c) /\ pc' = pc /\ offset' = offset
            BY <1>1, <2>3 DEF HandlerGoesOn, clientVars, OnlyUpload, SameUpload
        <3> QED
            BY <1>3, <2>1, <3>1 DEF Ours
    <2>4. CASE ReadBegins(c)
        <3>1. \/ \E status \in Statuses : HandlerReturns(c, status)
              \/ UNCHANGED stream /\ \E h : HandlerGoesOn(c, h)
            BY <2>4 DEF ReadBegins, Statuses
        <3> QED
            BY <2>2, <2>3, <3>1
    <2>5. CASE ReadSends(c)
        <3>1. \E new, h : stream' = [stream EXCEPT ![c] = new] /\ HandlerGoesOn(c, h)
            BY <2>5 DEF ReadSends
        <3>2. \A u \in Calls \ {c} : stream'[u] = stream[u]
            BY <1>1, <3>1
        <3> QED
            BY <2>3, <3>1, <3>2
    <2>6. CASE ReadRejects(c)
        <3>1. UNCHANGED stream /\ \E h : HandlerGoesOn(c, h)
            BY <2>6 DEF ReadRejects
        <3> QED
            BY <2>3, <3>1
    <2>7. CASE ReadEnds(c) \/ ReadDiscards(c)
        BY <2>2, <2>7 DEF ReadEnds, ReadDiscards, Statuses
    <2> QED
        BY <1>12, <2>4, <2>5, <2>6, <2>7
<1>13. ASSUME NEW c \in Calls, NEW d \in Digests, BeginUpload(c, d) \/ BeginGet(c, d) PROVE ProtocolInvariant'
    <2>1. OnlyUpload(c) /\ pc'[c] \notin Ours /\ pc[c] # "sending" /\ offset' = offset
        BY <1>1, <1>13 DEF BeginUpload, BeginGet, Begin, Serve, Goto, OnlyUpload, SameUpload, Ours
    <2> QED
        BY <1>3, <2>1
<1>14. ASSUME NEW c \in Calls, NEW ds \in Queries, BeginFindMissing(c, ds) PROVE ProtocolInvariant'
    <2>1. OnlyUpload(c) /\ pc'[c] \notin Ours /\ pc[c] # "sending" /\ offset' = offset
        BY <1>1, <1>14 DEF BeginFindMissing, Begin, Goto, OnlyUpload, SameUpload, Ours
    <2> QED
        BY <1>3, <2>1
<1>15. ASSUME NEW c \in Calls, ClientNext(c) PROVE ProtocolInvariant'
    BY <1>2, <1>4, <1>5, <1>6, <1>8, <1>15, UploadSends DEF ClientNext, Exists, HeadRequest, FindMissingBlobs
<1>16. ASSUME NEW c \in Calls, HandlerNext(c) PROVE ProtocolInvariant'
    BY <1>11, <1>12, <1>16, UploadReceived DEF HandlerNext
<1>17. ASSUME NEW c \in Calls, Fault(c) PROVE ProtocolInvariant'
    BY <1>2, <1>9, <1>11, <1>17 DEF Fault
<1> QED
    BY <1>6, <1>10, <1>13, <1>14, <1>15, <1>16, <1>17, UploadBegins DEF Next

\* An upload of ours is never rejected as an invalid one: the requests that are
\* on their way to byteStreamServer.Write always continue what it has received.
THEOREM ClientAlwaysSpeaksProtocol == Spec => []ClientSpeaksProtocol
<1>1. Init => ProtocolInvariant
    BY DEF Init, ProtocolInvariant, SpeaksProtocol
<1>2. RemoteInvariant /\ ProtocolInvariant /\ [Next]_vars => ProtocolInvariant'
    <2>1. RemoteInvariant /\ ProtocolInvariant /\ UNCHANGED vars => ProtocolInvariant'
        BY UploadsStay DEF ProtocolInvariant, SameUpload, vars, clientVars
    <2> QED
        BY <2>1, ProtocolStep
<1>3. ProtocolInvariant => ClientSpeaksProtocol
    BY DEF ProtocolInvariant, SpeaksProtocol, ClientSpeaksProtocol
<1> QED
    BY <1>1, <1>2, <1>3, RemoteInvariantHolds, PTL DEF Spec

---------------------------------------------------------------------------
\* Nobody waits in vain.  A stream that has not ended has a handler, and whoever
\* waits for the end of an upload has half-closed its stream.
StreamAttended(label, st, h) ==
    /\ label \in WriteLabels \cup ReadLabels /\ st.status = "open" => h.pc # "none"
    /\ label \in {"closing", "awaiting"} => st.closed = TRUE

Attended(c) == StreamAttended(pc[c], stream[c], handler[c])

AttendedInvariant == \A c \in Calls : Attended(c)

\* A client is blocked in Send, in CloseAndRecv or in Recv.
ClientWaits(c) ==
    /\ \/ pc[c] = "sending" /\ Len(stream[c].requests) >= Window
       \/ pc[c] \in {"closing", "awaiting"}
       \/ pc[c] \in {"opening", "reading"} /\ stream[c].chunks = <<>>
    /\ stream[c].status = "open"

\* The safety part of StreamsEnd, on clients that wait: when
\* contentAddressableStorageBlobAccess or Bazel is blocked on a stream, the handler
\* that it waits for has not returned and is not blocked itself, neither in Recv,
\* for a message or the half-close that the client owes it, nor in Send.
NoCircularWait ==
    \A c \in Calls : ClientWaits(c) => handler[c].pc # "none" /\ ~HandlerWaits(c)

\* Other calls are as they were.
OthersAttended(c) == \A u \in Calls \ {c} : pc'[u] = pc[u] /\ stream'[u] = stream[u] /\ handler'[u] = handler[u]

LEMMA AttendedFromOne ==
    ASSUME AttendedInvariant, NEW c \in Calls, OthersAttended(c), Attended(c)'
    PROVE  AttendedInvariant'
BY DEF AttendedInvariant, OthersAttended, Attended

\* A client that has left waits for nothing.
LEMMA LeavingAttended ==
    ASSUME RemoteInvariant, AttendedInvariant, NEW c \in Calls, NEW code, NEW broken,
           LeaveWith(c, code, broken), UNCHANGED handler
    PROVE  AttendedInvariant'
<1>1. pc' = [pc EXCEPT ![c] = "idle"] /\ \E new : stream' = [stream EXCEPT ![c] = new]
    BY DEF LeaveWith, Goto
<1>2. pc'[c] = "idle" /\ OthersAttended(c)
    BY <1>1 DEF OthersAttended, RemoteInvariant, ClientTypes, ServerTypes
<1>3. Attended(c)'
    BY <1>2 DEF Attended, StreamAttended, WriteLabels, ReadLabels
<1> QED
    BY <1>2, <1>3, AttendedFromOne

\* A handler that returns leaves a status behind.
LEMMA ReturningAttended ==
    ASSUME RemoteInvariant, AttendedInvariant, NEW c \in Calls, handler[c].pc # "none",
           NEW status \in Statuses \ {"open"}, HandlerReturns(c, status)
    PROVE  AttendedInvariant'
<1>1. /\ handler' = [handler EXCEPT ![c] = NoHandler] /\ pc' = pc
      /\ stream' = [stream EXCEPT ![c] =
            IF pc[c] = "idle" THEN NoStream ELSE [stream[c] EXCEPT !.status = status, !.requests = <<>>]]
    BY DEF HandlerReturns
<1>2. OthersAttended(c)
    BY <1>1 DEF OthersAttended, RemoteInvariant, ServerTypes
<1>3. Attended(c)'
    <2>1. CASE pc[c] \notin WriteLabels \cup ReadLabels
        BY <1>1, <2>1 DEF Attended, StreamAttended, WriteLabels, ReadLabels
    <2>2. CASE pc[c] \in WriteLabels \cup ReadLabels
        <3>1. stream[c] \in Stream
            <4>1. StreamServesCall(c) /\ stream[c] \in Stream \cup {NoStream}
                BY DEF RemoteInvariant, CallFine, ServerTypes
            <4>2. stream[c].kind \in {"write", "read"}
                BY <4>1, <2>2 DEF StreamServesCall
            <4> QED
                BY <4>1, <4>2 DEF NoStream
        <3>2. stream'[c].status = status /\ stream'[c].closed = stream[c].closed
            BY <1>1, <2>2, <3>1 DEF RemoteInvariant, ServerTypes, Stream, WriteLabels, ReadLabels
        <3>3. Attended(c)
            BY DEF AttendedInvariant
        <3> QED
            BY <1>1, <3>2, <3>3 DEF Attended, StreamAttended
    <2> QED
        BY <2>1, <2>2
<1> QED
    BY <1>2, <1>3, AttendedFromOne

\* A step within a stream that neither ends it nor opens it again.
LEMMA GoingOnAttended ==
    ASSUME RemoteInvariant, AttendedInvariant, NEW c \in Calls, OthersAttended(c),
           stream'[c].status = stream[c].status, handler[c].pc # "none" => handler'[c].pc # "none",
           \/ pc'[c] = pc[c] /\ stream'[c].closed = stream[c].closed
           \/ pc[c] \in WriteLabels \cup ReadLabels /\ pc'[c] \notin {"closing", "awaiting"}
           \/ pc[c] \in WriteLabels \cup ReadLabels /\ stream'[c].closed = TRUE
    PROVE  AttendedInvariant'
<1>1. Attended(c)
    BY DEF AttendedInvariant
<1>2. Attended(c)'
    BY <1>1 DEF Attended, StreamAttended, WriteLabels, ReadLabels
<1> QED
    BY <1>2, AttendedFromOne

\* Every step of a client.
LEMMA ClientAttended ==
    ASSUME RemoteInvariant, AttendedInvariant, NEW c \in Calls, ClientNext(c)
    PROVE  AttendedInvariant'
<1>1. pc \in [Calls -> Labels] /\ stream \in [Calls -> Stream \cup {NoStream}] /\ handler \in [Calls -> Handler]
    BY DEF RemoteInvariant, ClientTypes, ServerTypes
<1>2. pc[c] \in WriteLabels \cup ReadLabels => stream[c] \in Stream
    <2>1. StreamServesCall(c)
        BY DEF RemoteInvariant, CallFine
    <2>2. pc[c] \in WriteLabels \cup ReadLabels => stream[c].kind \in {"write", "read"}
        BY <2>1 DEF StreamServesCall
    <2> QED
        BY <1>1, <2>2 DEF NoStream
<1>3. CASE \/ PutRejects(c) \/ SendFails(c) \/ CloseAndRecv(c) \/ StoredDirectly(c) \/ RefusedSilently(c)
           \/ RecvEnd(c) \/ FetchedDirectly(c) \/ DiscardedDirectly(c) \/ FindMissingReturns(c)
    <2>1. UNCHANGED handler /\ \E code, broken : LeaveWith(c, code, broken)
        BY <1>3 DEF PutRejects, SendFails, CloseAndRecv, StoredDirectly, RefusedSilently, RecvEnd,
           FetchedDirectly, DiscardedDirectly, FindMissingReturns, ReturnWith
    <2> QED
        BY <2>1, LeavingAttended
<1>4. CASE \/ StoreDirectly(c) \/ FetchDirectly(c) \/ DiscardDirectly(c)
    <2>1. OthersAttended(c) /\ pc'[c] \in {"stored", "fetched", "discarded"}
        BY <1>1, <1>4 DEF StoreDirectly, FetchDirectly, DiscardDirectly, Goto, OthersAttended
    <2>2. Attended(c)'
        BY <2>1 DEF Attended, StreamAttended, WriteLabels, ReadLabels
    <2> QED
        BY <2>1, <2>2, AttendedFromOne
<1>5. CASE SendChunk(c) \/ SendLastChunk(c)
    <2>1. PICK finish \in BOOLEAN :
             /\ pc[c] = "sending" /\ \E data : SendRequest(c, data, finish)
             /\ \/ finish = FALSE /\ pc' = pc
                \/ finish = TRUE /\ pc' = [pc EXCEPT ![c] = "closing"]
        <3>1. CASE SendChunk(c)
            <4>1. pc[c] = "sending" /\ pc' = pc /\ \E data : SendRequest(c, data, FALSE)
                BY <3>1 DEF SendChunk
            <4> QED
                BY <4>1
        <3>2. CASE SendLastChunk(c)
            <4>1. pc[c] = "sending" /\ pc' = [pc EXCEPT ![c] = "closing"] /\ \E data : SendRequest(c, data, TRUE)
                BY <3>2 DEF SendLastChunk, Goto
            <4> QED
                BY <4>1
        <3> QED
            BY <1>5, <3>1, <3>2
    <2>2. stream[c] \in Stream /\ handler' = handler
        BY <1>2, <2>1 DEF WriteLabels, SendRequest, resultVars
    <2>3. stream'[c].closed = finish /\ stream'[c].status = stream[c].status
        BY <1>1, <2>1, <2>2 DEF SendRequest, HalfCloses, Stream
    <2>4. OthersAttended(c)
        BY <1>1, <2>1, <2>2 DEF SendRequest, OthersAttended
    <2>5. pc'[c] = "sending" \/ finish = TRUE
        BY <1>1, <2>1
    <2> QED
        BY <2>1, <2>2, <2>3, <2>4, <2>5, GoingOnAttended DEF WriteLabels
<1>6. CASE UploadEnds(c)
    <2>1. CASE ReturnWith(c, "error")
        BY <1>6, <2>1, LeavingAttended DEF UploadEnds, ReturnWith
    <2>2. CASE stream' = [stream EXCEPT ![c].closed = TRUE] /\ Goto(c, "awaiting")
        <3>1. pc[c] = "uploading" /\ stream[c] \in Stream /\ handler' = handler
            BY <1>2, <1>6 DEF UploadEnds, WriteLabels
        <3>2. stream'[c].closed = TRUE /\ stream'[c].status = stream[c].status
            BY <1>1, <2>2, <3>1 DEF Stream
        <3>3. OthersAttended(c)
            BY <1>1, <2>2, <3>1 DEF OthersAttended, Goto
        <3> QED
            BY <3>1, <3>2, <3>3, GoingOnAttended DEF WriteLabels
    <2> QED
        BY <1>6, <2>1, <2>2 DEF UploadEnds
<1>7. CASE RecvChunk(c)
    <2>1. /\ pc[c] \in ReadLabels /\ stream[c] \in Stream /\ handler' = handler
          /\ stream' = [stream EXCEPT ![c].chunks = Tail(@)] /\ pc' = [pc EXCEPT ![c] = "reading"]
        BY <1>2, <1>7 DEF RecvChunk, ReadLabels, Goto
    <2>2. stream'[c].status = stream[c].status /\ pc'[c] = "reading"
        BY <1>1, <2>1 DEF Stream
    <2>3. OthersAttended(c)
        BY <1>1, <2>1 DEF OthersAttended
    <2> QED
        BY <2>1, <2>2, <2>3, GoingOnAttended
<1>8. CASE \E d \in Digests : Exists(c, d) \/ HeadRequest(c, d) \/ FindMissingBlobs(c, d)
    BY <1>8 DEF Exists, HeadRequest, FindMissingBlobs, LookFor, clientVars, AttendedInvariant, Attended
<1> QED
    BY <1>3, <1>4, <1>5, <1>6, <1>7, <1>8 DEF ClientNext

\* Every step of a handler.
LEMMA HandlerAttended ==
    ASSUME RemoteInvariant, AttendedInvariant, NEW c \in Calls, HandlerNext(c) \/ HandlerFails(c)
    PROVE  AttendedInvariant'
<1>1. stream \in [Calls -> Stream \cup {NoStream}] /\ handler \in [Calls -> Handler]
    BY DEF RemoteInvariant, ServerTypes
<1>2. handler[c].pc # "none"
    BY DEF HandlerNext, HandlerFails, WriteReceives, WriteRejects, WriteStores, AtEOF, ReadBegins, ReadSends, ReadEnds,
       ReadRejects, ReadDiscards, HandlerAborts
<1>3. stream[c] \in Stream
    <2>1. StreamServesCall(c)
        BY DEF RemoteInvariant, CallFine
    <2> QED
        BY <1>1, <1>2, <2>1 DEF StreamServesCall, NoStream
<1>4. CASE \E status \in Statuses \ {"open"} : HandlerReturns(c, status)
    BY <1>2, <1>4, ReturningAttended
<1>5. ASSUME NEW h, h.pc # "none", HandlerGoesOn(c, h),
             \/ stream' = stream
             \/ stream' = [stream EXCEPT ![c].requests = Tail(@)]
             \/ \E new : stream' = [stream EXCEPT ![c].chunks = new]
      PROVE  AttendedInvariant'
    <2>1. handler' = [handler EXCEPT ![c] = h] /\ pc' = pc
        BY <1>5 DEF HandlerGoesOn, clientVars
    <2>2. stream'[c].status = stream[c].status /\ stream'[c].closed = stream[c].closed
        BY <1>1, <1>3, <1>5 DEF Stream
    <2>3. OthersAttended(c) /\ handler'[c] = h
        BY <1>1, <1>5, <2>1 DEF OthersAttended
    <2> QED
        BY <1>5, <2>1, <2>2, <2>3, GoingOnAttended
<1>6. CASE WriteRejects(c) \/ WriteStores(c) \/ ReadEnds(c) \/ ReadDiscards(c) \/ HandlerAborts(c) \/ HandlerFails(c)
    BY <1>4, <1>6 DEF WriteRejects, WriteStores, ReadEnds, ReadDiscards, HandlerAborts, HandlerFails, Statuses
<1>7. CASE WriteReceives(c)
    <2>1. \/ \E status \in Statuses \ {"open"} : HandlerReturns(c, status)
          \/ /\ stream' = [stream EXCEPT ![c].requests = Tail(@)]
             /\ \E d, r : HandlerGoesOn(c, Received(handler[c], d, r))
        BY <1>7 DEF WriteReceives, Statuses
    <2>2. ASSUME NEW d, NEW r PROVE Received(handler[c], d, r).pc = "writing"
        BY <1>1 DEF Received, Handler
    <2> QED
        BY <1>4, <1>5, <2>1, <2>2
<1>8. CASE ReadBegins(c)
    <2>1. \/ \E status \in Statuses \ {"open"} : HandlerReturns(c, status)
          \/ /\ stream' = stream
             /\ \E label \in {"reading", "discarding"} : \E d, blob :
                   HandlerGoesOn(c, [handler[c] EXCEPT !.pc = label, !.digest = d, !.data = blob])
        BY <1>8 DEF ReadBegins, Statuses
    <2>2. ASSUME NEW label \in {"reading", "discarding"}, NEW d, NEW blob
          PROVE  [handler[c] EXCEPT !.pc = label, !.digest = d, !.data = blob].pc # "none"
        BY <1>1 DEF Handler
    <2> QED
        BY <1>4, <1>5, <2>1, <2>2
<1>9. CASE ReadSends(c)
    <2>1. PICK n, new : /\ HandlerGoesOn(c, [handler[c] EXCEPT !.sent = n])
                        /\ stream' = [stream EXCEPT ![c].chunks = new]
        BY <1>9 DEF ReadSends
    <2>2. [handler[c] EXCEPT !.sent = n].pc # "none"
        BY <1>1, <1>2 DEF Handler
    <2> QED
        BY <1>5, <2>1, <2>2
<1>10. CASE ReadRejects(c)
    <2>1. stream' = stream /\ HandlerGoesOn(c, [handler[c] EXCEPT !.pc = "discarding"])
        BY <1>10 DEF ReadRejects
    <2>2. [handler[c] EXCEPT !.pc = "discarding"].pc # "none"
        BY <1>1 DEF Handler
    <2> QED
        BY <1>5, <2>1, <2>2
<1> QED
    BY <1>6, <1>7, <1>8, <1>9, <1>10 DEF HandlerNext

\* Every step.
LEMMA AttendedStep ==
    ASSUME RemoteInvariant, AttendedInvariant, Next
    PROVE  AttendedInvariant'
<1>1. pc \in [Calls -> Labels] /\ stream \in [Calls -> Stream \cup {NoStream}] /\ handler \in [Calls -> Handler]
    BY DEF RemoteInvariant, ClientTypes, ServerTypes
<1>2. ASSUME NEW c \in Calls, NEW d \in Digests, BeginPut(c, d) \/ BeginUpload(c, d) \/ BeginGet(c, d)
      PROVE  AttendedInvariant'
    <2>1. /\ pc'[c] \in {"sending", "storing", "uploading", "opening", "looking"} /\ OthersAttended(c)
          /\ pc'[c] \in {"sending", "uploading", "opening"} => handler'[c] = NewHandler
        BY <1>1, <1>2 DEF BeginPut, BeginUpload, BeginGet, Begin, Goto, Serve, OthersAttended
    <2>2. NewHandler.pc = "new"
        BY DEF NewHandler, NoHandler
    <2>3. Attended(c)'
        BY <2>1, <2>2 DEF Attended, StreamAttended, WriteLabels, ReadLabels
    <2> QED
        BY <2>1, <2>3, AttendedFromOne
<1>3. ASSUME NEW c \in Calls, NEW ds \in Queries, BeginFindMissing(c, ds) PROVE AttendedInvariant'
    <2>1. pc'[c] = "finding" /\ OthersAttended(c)
        BY <1>1, <1>3 DEF BeginFindMissing, Goto, OthersAttended
    <2>2. Attended(c)'
        BY <2>1 DEF Attended, StreamAttended, WriteLabels, ReadLabels
    <2> QED
        BY <2>1, <2>2, AttendedFromOne
<1>4. ASSUME NEW c \in Calls, Upload(c) \/ ContextDone(c) PROVE AttendedInvariant'
    <2>1. StreamServesCall(c)
        BY DEF RemoteInvariant, CallFine
    <2>2. stream[c] \in Stream /\ pc' = pc /\ handler' = handler
        BY <1>1, <1>4, <2>1 DEF StreamServesCall, NoStream, WriteLabels, Upload, ContextDone, clientVars
    <2>3. \/ \E new : stream' = [stream EXCEPT ![c].requests = new]
          \/ stream' = [stream EXCEPT ![c].broken = TRUE]
        BY <1>4 DEF Upload, ContextDone
    <2>4. stream'[c].status = stream[c].status /\ stream'[c].closed = stream[c].closed /\ OthersAttended(c)
        BY <1>1, <2>2, <2>3 DEF Stream, OthersAttended
    <2> QED
        BY <2>2, <2>4, GoingOnAttended
<1>5. ASSUME NEW c \in Calls, Fault(c) PROVE AttendedInvariant'
    <2>1. CASE BreakStream(c) \/ CallFails(c) \/ CloseEarly(c)
        BY <2>1, LeavingAttended DEF BreakStream, CallFails, CloseEarly, ReturnWith
    <2>2. CASE HandlerFails(c)
        BY <2>2, HandlerAttended
    <2>3. CASE \E b \in Backends : FindFails(c, b)
        BY <2>3 DEF FindFails, clientVars, AttendedInvariant, Attended
    <2> QED
        BY <1>5, <2>1, <2>2, <2>3 DEF Fault
<1>6. ASSUME NEW b \in Backends, NEW d \in Digests, Lose(b, d) \/ Damage(b, d) PROVE AttendedInvariant'
    BY <1>6 DEF Lose, Damage, clientVars, AttendedInvariant, Attended
<1> QED
    BY <1>2, <1>3, <1>4, <1>5, <1>6, ClientAttended, HandlerAttended DEF Next

\* A client that is blocked has a handler to wait for, and this one can go on.
LEMMA AttendedSuffices ==
    ASSUME RemoteInvariant, AttendedInvariant, NEW c \in Calls, ClientWaits(c)
    PROVE  handler[c].pc # "none" /\ ~HandlerWaits(c)
<1>1. StreamServesCall(c) /\ Attended(c) /\ stream[c] \in Stream \cup {NoStream}
    BY DEF RemoteInvariant, CallFine, ServerTypes, AttendedInvariant
<1>2. pc[c] \in WriteLabels \cup ReadLabels /\ stream[c].status = "open"
    BY DEF ClientWaits, WriteLabels, ReadLabels
<1>3. handler[c].pc # "none"
    BY <1>1, <1>2 DEF Attended, StreamAttended
<1>4. stream[c] \in Stream
    BY <1>1, <1>2 DEF StreamServesCall, NoStream
<1>5. Window \in Nat \ {0} /\ Len(<<>>) = 0
    BY RemoteAssumption
<1>6. CASE pc[c] = "sending"
    <2>1. stream[c].kind = "write" /\ handler[c].pc # "reading" /\ stream[c].requests # <<>>
        BY <1>1, <1>3, <1>5, <1>6 DEF ClientWaits, StreamServesCall, WriteLabels
    <2> QED
        BY <1>3, <2>1 DEF HandlerWaits
<1>7. CASE pc[c] \in {"closing", "awaiting"}
    <2>1. stream[c].kind = "write" /\ handler[c].pc # "reading" /\ stream[c].closed = TRUE
        BY <1>1, <1>3, <1>7 DEF Attended, StreamAttended, StreamServesCall, WriteLabels
    <2> QED
        BY <1>3, <2>1 DEF HandlerWaits
<1>8. CASE pc[c] \in ReadLabels
    <2>1. stream[c].kind = "read" /\ Len(stream[c].chunks) < Window
        BY <1>1, <1>5, <1>8 DEF ClientWaits, StreamServesCall, ReadLabels
    <2> QED
        BY <1>3, <1>5, <2>1 DEF HandlerWaits
<1> QED
    BY <1>6, <1>7, <1>8 DEF ClientWaits, ReadLabels

\* Whoever is blocked on a stream waits for a handler that is there and can go on,
\* for any size of chunks and any number of messages in flight.
THEOREM NoCircularWaitEver == Spec => []NoCircularWait
<1>1. Init => AttendedInvariant
    BY DEF Init, AttendedInvariant, Attended, StreamAttended, WriteLabels, ReadLabels
<1>2. RemoteInvariant /\ AttendedInvariant /\ [Next]_vars => AttendedInvariant'
    <2>1. AttendedInvariant /\ UNCHANGED vars => AttendedInvariant'
        BY DEF AttendedInvariant, Attended, vars, clientVars
    <2> QED
        BY <2>1, AttendedStep
<1>3. RemoteInvariant /\ AttendedInvariant => NoCircularWait
    BY AttendedSuffices DEF NoCircularWait
<1> QED
    BY <1>1, <1>2, <1>3, RemoteInvariantHolds, PTL DEF Spec
=============================================================================
