----------------------------- MODULE BlobStore -----------------------------
(***************************************************************************)
(* What clients may rely on when they use a BlobAccess for the Content     *)
(* Addressable Storage, however many adapters, streams and servers are in  *)
(* between: a map from digests to blobs that may lose or damage blobs at   *)
(* any time, and whose answers were true at some moment during the call.   *)
(* Some stores lose blobs by themselves; others lose only blobs that a     *)
(* reader found damaged, and what was stored in their place before the     *)
(* reader deleted them.  Any call may fail.                                *)
(***************************************************************************)
CONSTANTS
    Digests,
    Calls,
    Queries,      \* sets of digests that FindMissing is called with
    Vanishing,    \* digests whose blobs may get lost without a reason
    Unconfirmed   \* digests of which an upload may be acknowledged and not stored,
                  \* or store something else than the blob

VARIABLES
    content,  \* digest -> "absent", "whole" or "damaged"
    uploads,  \* digests that an upload, maybe one given up by its client, may store
    doubts,   \* digests of which a reader has found a damaged blob, and may delete it
    op,       \* call -> the operation in progress and what it has seen
    outcome,  \* call -> status that the last operation returned
    answer    \* call -> digests that the last FindMissing returned

vars == <<content, uploads, doubts, op, outcome, answer>>

Idle == [kind |-> "idle"]
Outcomes == {"none", "OK", "NotFound", "error"}

Init ==
    /\ content = [d \in Digests |-> "absent"]
    /\ uploads = {}
    /\ doubts = {}
    /\ op = [c \in Calls |-> Idle]
    /\ outcome = [c \in Calls |-> "none"]
    /\ answer = [c \in Calls |-> {}]

\* A call begins: nothing has been stored or seen yet.
Begin(c, new) ==
    /\ op[c] = Idle
    /\ op' = [op EXCEPT ![c] = new]
    /\ outcome' = [outcome EXCEPT ![c] = "none"]
    /\ answer' = [answer EXCEPT ![c] = {}]
    /\ UNCHANGED content

BeginPut(c, d) ==
    /\ Begin(c, [kind |-> "put", digest |-> d, seen |-> "nothing"])
    /\ uploads' = uploads \cup {d}

BeginGet(c, d) ==
    /\ Begin(c, [kind |-> "get", digest |-> d, seen |-> "nothing"])
    /\ UNCHANGED uploads

BeginFindMissing(c, ds) ==
    /\ Begin(c, [kind |-> "find", digests |-> ds, looked |-> {}, missing |-> {}])
    /\ UNCHANGED uploads

\* A blob is stored, whole, for a call that uploads it or has given up doing so.
Store(d) ==
    /\ d \in uploads
    /\ content' = [content EXCEPT ![d] = "whole"]
    /\ \/ UNCHANGED op
       \/ \E c \in Calls :
             /\ op[c].kind = "put" /\ op[c].digest = d
             /\ op' = [op EXCEPT ![c].seen = "stored"]
    /\ uploads' \subseteq uploads
    /\ UNCHANGED <<outcome, answer>>

Spoil(d) ==
    /\ d \in uploads \cap Unconfirmed
    /\ content' = [content EXCEPT ![d] = "damaged"]
    /\ UNCHANGED <<uploads, op, outcome, answer>>

\* A download finds out what there is.
LookUp(c) ==
    /\ op[c].kind = "get" /\ op[c].seen = "nothing"
    /\ op' = [op EXCEPT ![c].seen = content[op[c].digest]]
    /\ UNCHANGED <<content, uploads, outcome, answer>>

\* FindMissing finds out about one digest.
LookFor(c, d) ==
    /\ op[c].kind = "find" /\ d \in op[c].digests \ op[c].looked
    /\ op' = [op EXCEPT ![c].looked = @ \cup {d},
                        ![c].missing = IF content[d] = "absent" THEN @ \cup {d} ELSE @]
    /\ UNCHANGED <<content, uploads, outcome, answer>>

\* When an operation may return what.
MayReturn(o, code) ==
    \/ code = "error"
    \/ o.kind = "put" /\ code = "OK" /\ (o.seen = "stored" \/ o.digest \in Unconfirmed)
    \/ o.kind = "get" /\ code = "OK" /\ o.seen = "whole"
    \/ o.kind = "get" /\ code = "NotFound" /\ o.seen = "absent"
    \/ o.kind = "find" /\ code = "OK" /\ o.looked = o.digests

Return(c) ==
    /\ op[c] # Idle
    /\ op' = [op EXCEPT ![c] = Idle]
    /\ \E code \in Outcomes \ {"none"} :
          /\ MayReturn(op[c], code)
          /\ outcome' = [outcome EXCEPT ![c] = code]
          /\ answer' = [answer EXCEPT ![c] = IF op[c].kind = "find" /\ code = "OK" THEN op[c].missing ELSE {}]
    /\ uploads' \subseteq uploads
    /\ UNCHANGED content

\* An upload given up by its client is given up by the server as well.
GiveUp ==
    /\ uploads' \subseteq uploads
    /\ UNCHANGED <<content, op, outcome, answer>>

\* Blobs get lost, and bad ones are discarded, or deteriorate.
Lose(d) ==
    /\ d \in Vanishing \cup doubts
    /\ content' = [content EXCEPT ![d] = "absent"]
    /\ UNCHANGED <<uploads, op, outcome, answer>>

Damage(d) ==
    /\ content[d] = "whole"
    /\ content' = [content EXCEPT ![d] = "damaged"]
    /\ UNCHANGED <<uploads, op, outcome, answer>>

Change ==
    \/ GiveUp
    \/ \E c \in Calls :
          \/ LookUp(c) \/ Return(c)
          \/ \E d \in Digests : BeginPut(c, d) \/ BeginGet(c, d) \/ LookFor(c, d)
          \/ \E ds \in Queries : BeginFindMissing(c, ds)
    \/ \E d \in Digests : Store(d) \/ Spoil(d) \/ Lose(d) \/ Damage(d)

\* Readers, also those given up by their clients, come to doubt only what is
\* damaged at the time.
Doubt == doubts' \subseteq doubts \cup {d \in Digests : content[d] = "damaged"}

Next == Change /\ Doubt

Spec == Init /\ [][Next]_vars
===========================================================================
