---------------------------- MODULE OffsetTable ----------------------------
(***************************************************************************)
(* The hash table of fileOffsetStore (pkg/blobstore/circular) and the      *)
(* cache of cachingOffsetStore in front of it, as operators on the table.  *)
(* A record of the table holds a digest, the attempt it is stored with,    *)
(* the offset and the length of the blob's data.  The FNV-1a hash of       *)
(* digest and attempt, modulo the number of slots, is the constant Hash.   *)
(*                                                                         *)
(* The table and the cursors are the state that the offset store by itself *)
(* (FileOffsetStore) and the whole backend (CircularBlobAccess) share.     *)
(***************************************************************************)
EXTENDS Cursors

CONSTANTS
    Digests,            \* blob digests (simpleDigest)
    Slots,              \* slots of the offset file
    Hash,               \* <<digest, attempt>> -> slot
    maximumIterations,  \* 8 in the code
    NoDigest,           \* the digest of 40 zero bytes
    CacheSlot,          \* digest -> slot of the cache
    SizeBytes,          \* digest -> size of the blob
    MaxWrite            \* bound: nothing is allocated beyond this offset

Attempts == 0 .. maximumIterations - 1

ASSUME OffsetTableAssumption ==
    /\ maximumIterations \in Nat /\ maximumIterations >= 2
    /\ NoDigest \notin Digests
    /\ Hash \in [(Digests \cup {NoDigest}) \X Attempts -> Slots]
    /\ DOMAIN CacheSlot = Digests
    /\ SizeBytes \in [Digests -> Nat] /\ MaxWrite \in Nat
    /\ \A d \in Digests : MaxWrite + SizeBytes[d] + chunkSize + dataSize < Width

VARIABLES
    table,   \* the offset file
    cursors  \* the cursors of the state store, passed to every call

Record == [digest : Digests \cup {NoDigest}, attempt : Attempts,
           offset : UInt64, length : Nat]

\* What a slot that was never written reads as.
ZeroRecord == [digest |-> NoDigest, attempt |-> 0, offset |-> 0, length |-> 0]

EmptyTable == [s \in Slots |-> ZeroRecord]

\* getSlot and getPositionOfSlot.
Slot(r) == Hash[<<r.digest, r.attempt>>]

ContainsRecord(c, r) == Contains(c, r.offset, r.length)

---------------------------------------------------------------------------
\* Mutation of IsHit: whatever the slot holds is taken for the digest's record.
IsHitAny(t, c, d, i) == ContainsRecord(c, t[Hash[<<d, i - 1>>]])

\* fileOffsetStore.Get finds d's record in iteration i ...
IsHit(t, c, d, i) ==
    LET r == t[Hash[<<d, i - 1>>]]
    IN  ContainsRecord(c, r) /\ r.digest = d /\ r.attempt = i - 1

\* ... or goes on, past a valid record of another digest or attempt.
GoesOn(t, c, d, i) ==
    LET r == t[Hash[<<d, i - 1>>]]
    IN  /\ ContainsRecord(c, r)
        /\ ~IsHit(t, c, d, i)
        /\ Slot(r) = Hash[<<d, i - 1>>]

\* fileOffsetStore.Get: the set of the records it returns, empty or a singleton.
TableGet(t, c, d) ==
    {t[Hash[<<d, i - 1>>]] : i \in
        {i \in 1 .. maximumIterations - 1 :
            IsHit(t, c, d, i) /\ \A j \in 1 .. i - 1 : GoesOn(t, c, d, j)}}

\* fileOffsetStore.putRecord: the table, and the record that still needs a
\* place if more is TRUE.
Overwritable(c, old, slot) ==
    \/ ~ContainsRecord(c, old)
    \/ old.attempt >= maximumIterations - 1
    \/ Slot(old) # slot

\* Mutation of PutRecord: the old record is displaced however new it is.
PutRecordAlways(t, r, c) ==
    LET slot == Slot(r) old == t[slot] IN
    IF Overwritable(c, old, slot)
    THEN [table |-> [t EXCEPT ![slot] = r], record |-> r, more |-> FALSE]
    ELSE [table |-> [t EXCEPT ![slot] = r],
          record |-> [old EXCEPT !.attempt = @ + 1], more |-> TRUE]

\* Mutation of PutRecord: the older of two records keeps its place.
PutRecordOldest(t, r, c) ==
    LET slot == Slot(r) old == t[slot] IN
    IF Overwritable(c, old, slot)
    THEN [table |-> [t EXCEPT ![slot] = r], record |-> r, more |-> FALSE]
    ELSE IF old.offset >= r.offset
    THEN [table |-> [t EXCEPT ![slot] = r],
          record |-> [old EXCEPT !.attempt = @ + 1], more |-> TRUE]
    ELSE IF r.attempt >= maximumIterations - 1
    THEN [table |-> t, record |-> r, more |-> FALSE]
    ELSE [table |-> t, record |-> [r EXCEPT !.attempt = @ + 1], more |-> TRUE]

PutRecord(t, r, c) ==
    LET slot == Slot(r) old == t[slot] IN
    IF Overwritable(c, old, slot)
    THEN [table |-> [t EXCEPT ![slot] = r], record |-> r, more |-> FALSE]
    ELSE IF old.offset <= r.offset
    THEN [table |-> [t EXCEPT ![slot] = r],
          record |-> [old EXCEPT !.attempt = @ + 1], more |-> TRUE]
    ELSE IF r.attempt >= maximumIterations - 1
    THEN [table |-> t, record |-> r, more |-> FALSE]
    ELSE [table |-> t, record |-> [r EXCEPT !.attempt = @ + 1], more |-> TRUE]

\* fileOffsetStore.Put after n rounds of its loop.
PutRounds(t, d, offset, length, c, n) ==
    LET new == [digest |-> d, attempt |-> 0, offset |-> offset, length |-> length]
        round[i \in 0 .. n] ==
            IF i = 0 THEN [table |-> t, record |-> new, more |-> TRUE]
            ELSE IF round[i - 1].more
            THEN PutRecord(round[i - 1].table, round[i - 1].record, c)
            ELSE round[i - 1]
    IN  round[n]

\* fileOffsetStore.Put: what is displaced in the last round is dropped.
TablePut(t, d, offset, length, c) ==
    PutRounds(t, d, offset, length, c, maximumIterations).table

---------------------------------------------------------------------------
\* The cache: one entry per slot, initially of the zero digest.
CacheEntry(d, offset, length) == [digest |-> d, offset |-> offset, length |-> length]

EmptyCache == [s \in {CacheSlot[d] : d \in Digests} |-> CacheEntry(NoDigest, 0, 0)]

\* cachingOffsetStore.Get answers from the cache.
CacheHit(cache, c, d) ==
    LET e == cache[CacheSlot[d]]
    IN  e.digest = d /\ Contains(c, e.offset, e.length)

\* cachingOffsetStore.Get: its answer (empty or a singleton) ...
CachedGet(cache, t, c, d) ==
    IF CacheHit(cache, c, d) THEN {cache[CacheSlot[d]]}
    ELSE {CacheEntry(d, r.offset, r.length) : r \in TableGet(t, c, d)}

\* ... and the cache that the answer leaves behind.
CacheAfterGet(cache, t, c, d) ==
    IF CachedGet(cache, t, c, d) = {} THEN cache
    ELSE [cache EXCEPT ![CacheSlot[d]] = CHOOSE e \in CachedGet(cache, t, c, d) : TRUE]

\* cachingOffsetStore.Put, after the file was written.
CacheAfterPut(cache, d, offset, length) ==
    [cache EXCEPT ![CacheSlot[d]] = CacheEntry(d, offset, length)]
===========================================================================
