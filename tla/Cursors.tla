------------------------------ MODULE Cursors ------------------------------
(***************************************************************************)
(* The cursor arithmetic of the circular storage backend                   *)
(* (pkg/blobstore/circular): Cursors.Contains and the Allocate and         *)
(* Invalidate computations of the three state stores that are stacked on   *)
(* each other, as operators on a pair of cursors.  Offsets are uint64:     *)
(* Width is the number of values the type has.                             *)
(***************************************************************************)
EXTENDS Integers

CONSTANTS
    Width,      \* 2^64
    dataSize,   \* size of the data file
    chunkSize   \* DataAllocationChunkSizeBytes

ASSUME CursorsAssumption ==
    /\ Width \in Nat /\ dataSize \in Nat \ {0} /\ chunkSize \in Nat \ {0}
    /\ 2 * dataSize <= Width

UInt64 == 0 .. Width - 1

CursorPair == [Read : UInt64, Write : UInt64]

\* Addition of uint64 values.
Add(a, b) == IF a + b < Width THEN a + b ELSE a + b - Width

\* positiveSizedBlobStateStore, and the first lines of Contains.
Positive(size) == IF size < 1 THEN 1 ELSE size

\* Cursors.Contains.
Contains(c, offset, length) ==
    /\ offset >= c.Read
    /\ offset <= c.Write
    /\ Add(offset, Positive(length)) <= c.Write

\* Mutation of FileAllocate: the read cursor is never moved.
FileAllocateKeepsRead(c, size) == [Read |-> c.Read, Write |-> Add(c.Write, size)]

\* fileStateStore.Allocate: the cursors it stores.
FileAllocate(c, size) ==
    LET w == Add(c.Write, size)
    IN  [Read  |-> IF c.Read > w THEN w
                   ELSE IF Add(c.Read, dataSize) < w THEN w - dataSize
                   ELSE c.Read,
         Write |-> w]

\* fileStateStore.Invalidate: the cursors it stores.
FileInvalidate(c, offset, size) ==
    LET r == Add(offset, size)
    IN  [Read |-> r, Write |-> IF c.Write < r THEN r ELSE c.Write]

\* bulkAllocatingStateStore: its write cursor, moved back in range.
InRange(writeCursor, c) ==
    LET w == IF writeCursor < c.Read THEN c.Read ELSE writeCursor
    IN  IF w > c.Write THEN c.Write ELSE w

RoundUp(size) == ((size + chunkSize - 1) \div chunkSize) * chunkSize

\* Mutation of BulkCursors: a chunk is allocated for the whole blob only when
\* the current chunk is used up.
BulkCursorsLate(c, writeCursor, size) ==
    IF c.Write = InRange(writeCursor, c) THEN FileAllocate(c, RoundUp(size)) ELSE c

\* bulkAllocatingStateStore.Allocate: the cursors of the store below, which is
\* asked for more space if what is left of the current chunk is too small.
BulkCursors(c, writeCursor, size) ==
    LET spaceLeft == c.Write - InRange(writeCursor, c)
    IN  IF size > spaceLeft THEN FileAllocate(c, RoundUp(size - spaceLeft)) ELSE c

\* Both stores' answer to Allocate: the offset, and the new bulk write cursor.
BulkOffset(c, writeCursor) == InRange(writeCursor, c)
BulkWriteCursor(c, writeCursor, size) == Add(InRange(writeCursor, c), size)
===========================================================================
