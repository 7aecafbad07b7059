-------------------------- MODULE StorageRouting --------------------------
(***************************************************************************)
(* How a stack of BlobAccess adapters decides which backend holds a blob:  *)
(* sizeDistinguishingBlobAccess on top of two shardingBlobAccess objects,  *)
(* one for small and one for large blobs.                                  *)
(***************************************************************************)
EXTENDS Integers, Sequences, FiniteSets

CONSTANTS
    Digests,          \* digests that clients use
    SizeBytes,        \* digest -> size of its blob, in pieces
    cutoffSizeBytes,  \* of sizeDistinguishingBlobAccess
    Backends,         \* the undrained backends
    Drained,          \* a shard without a backend
    Shards,           \* side -> sequence of [backend, weight]
    RandomSequence    \* digest -> first outputs of xorshift64* seeded with its hash

Sides == {"small", "large"}

\* Which of its two backends sizeDistinguishingBlobAccess picks.
Side(d) == IF SizeBytes[d] <= cutoffSizeBytes THEN "small" ELSE "large"

\* NewWeightedShardPermuter: sums of the weights of shards 1 to i.
cumulativeWeights(side) ==
    LET sum[i \in 0..Len(Shards[side])] ==
            IF i = 0 THEN 0 ELSE sum[i - 1] + Shards[side][i].weight
    IN  sum

\* One round of GetShard: binary search for the shard a random number stands for.
ShardOf(side, random) ==
    LET total == cumulativeWeights(side)[Len(Shards[side])]
        holds(i) == random % total < cumulativeWeights(side)[i]
    IN  CHOOSE i \in DOMAIN Shards[side] : holds(i) /\ \A j \in 1..(i - 1) : ~holds(j)

\* getBackend: GetShard goes on until a shard is undrained.
getBackend(side, d) ==
    LET backend(k) == Shards[side][ShardOf(side, RandomSequence[d][k])].backend
        k == CHOOSE k \in DOMAIN RandomSequence[d] :
                backend(k) # Drained /\ \A j \in 1..(k - 1) : backend(j) = Drained
    IN  backend(k)

\* The backend that Get and Put go to.
Backend == [d \in Digests |-> getBackend(Side(d), d)]
BackendOf(d) == Backend[d]

\* createBlobAccess: weights are positive, and some shard is undrained.
ValidSharding(side) ==
    /\ \A i \in DOMAIN Shards[side] :
          /\ Shards[side][i].weight \in Nat \ {0}
          /\ Shards[side][i].backend \in Backends \cup {Drained}
    /\ \E i \in DOMAIN Shards[side] : Shards[side][i].backend # Drained

\* The random sequences are long enough to meet an undrained shard.
ASSUME RoutingAssumption ==
    /\ SizeBytes \in [Digests -> Nat]
    /\ Drained \notin Backends
    /\ \A side \in Sides : ValidSharding(side)
    /\ \A d \in Digests : BackendOf(d) \in Backends
===========================================================================
