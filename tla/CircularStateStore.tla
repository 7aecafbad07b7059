------------------------ MODULE CircularStateStore ------------------------
(***************************************************************************)
(* The state store of the circular storage backend as bbb_storage stacks   *)
(* it: positiveSizedBlobStateStore on bulkAllocatingStateStore on          *)
(* fileStateStore.  Calls are serialised by circularBlobAccess's lock.     *)
(* Writes of the state file may fail, in which case the file may hold the  *)
(* old or the new cursors, and the process may be killed and restarted at  *)
(* any time; the file survives.                                            *)
(***************************************************************************)
EXTENDS Cursors, FiniteSets

CONSTANTS
    Sizes,           \* blob sizes
    MaxAllocations,  \* bound: calls of Allocate that succeed
    MaxFaults        \* bound: failed writes and restarts

ASSUME StateStoreAssumption ==
    /\ Sizes \subseteq Nat
    /\ \A s \in Sizes : s + dataSize + 2 * chunkSize < Width
    /\ MaxAllocations \in Nat /\ MaxFaults \in Nat

VARIABLES
    file,         \* the cursors in the state file
    cursors,      \* fileStateStore.cursors
    writeCursor,  \* bulkAllocatingStateStore.writeCursor
    allocations,  \* history: what Allocate has handed out
    limit,        \* history: the 64-bit counters have come near their limit
    faults

vars == <<file, cursors, writeCursor, allocations, limit, faults>>

\* Initially the state file is empty; ReadAt returns io.EOF.
Init ==
    /\ file = [Read |-> 0, Write |-> 0]
    /\ cursors = file
    /\ writeCursor = Width - 1
    /\ allocations = {}
    /\ limit = FALSE
    /\ faults = 0

End(a) == a.offset + Positive(a.size)

Valid(a) == Contains(cursors, a.offset, a.size)

\* Adding dataSize to the read cursor wraps around, or the write cursor has.
NearLimit(old, new) == new.Write < old.Write \/ new.Read + dataSize >= Width

\* Mutation of Put: the state file is not written.
PutMemoryOnly(new) ==
    /\ file' = file
    /\ cursors' = new
    /\ limit' = (limit \/ NearLimit(cursors, new))

\* fileStateStore.put: the file first, then the copy in memory.
Put(new) ==
    /\ file' = new
    /\ cursors' = new
    /\ limit' = (limit \/ NearLimit(cursors, new))

\* Allocate.  The state file is written only if the current chunk is too small.
Allocate(size) ==
    LET s == Positive(size)
        new == BulkCursors(cursors, writeCursor, s)
    IN  /\ Cardinality(allocations) < MaxAllocations
        /\ IF new = cursors THEN UNCHANGED <<file, cursors, limit>> ELSE Put(new)
        /\ writeCursor' = BulkWriteCursor(cursors, writeCursor, s)
        /\ allocations' = allocations \cup
              {[offset |-> BulkOffset(cursors, writeCursor), size |-> size]}
        /\ UNCHANGED faults

\* put returns the error of WriteAt before it updates its copy.
PutFails(new) ==
    /\ faults < MaxFaults
    /\ faults' = faults + 1
    /\ file' \in {file, new}
    /\ limit' = (limit \/ NearLimit(cursors, new))
    /\ UNCHANGED cursors

\* Allocate fails: the bulk write cursor has been moved in range already.
AllocateFails(size) ==
    /\ BulkCursors(cursors, writeCursor, Positive(size)) # cursors
    /\ PutFails(BulkCursors(cursors, writeCursor, Positive(size)))
    /\ writeCursor' = InRange(writeCursor, cursors)
    /\ UNCHANGED allocations

\* circularBlobAccess.Delete invalidates blobs that the cursors contain.
Invalidate(a) ==
    /\ Valid(a)
    /\ Put(FileInvalidate(cursors, a.offset, Positive(a.size)))
    /\ UNCHANGED <<writeCursor, allocations, faults>>

InvalidateFails(a) ==
    /\ Valid(a)
    /\ PutFails(FileInvalidate(cursors, a.offset, Positive(a.size)))
    /\ UNCHANGED <<writeCursor, allocations>>

\* NewFileStateStore and NewBulkAllocatingStateStore in a new process.
Restart ==
    /\ faults < MaxFaults
    /\ faults' = faults + 1
    /\ cursors' = IF file.Read <= file.Write THEN file ELSE [Read |-> 0, Write |-> 0]
    /\ writeCursor' = Width - 1
    /\ UNCHANGED <<file, allocations, limit>>

Next ==
    \/ \E s \in Sizes : Allocate(s) \/ AllocateFails(s)
    \/ \E a \in allocations : Invalidate(a) \/ InvalidateFails(a)
    \/ Restart

Spec == Init /\ [][Next]_vars

---------------------------------------------------------------------------
\* Type invariant.
TypeOK ==
    /\ file \in CursorPair /\ cursors \in CursorPair
    /\ writeCursor \in UInt64
    /\ allocations \subseteq [offset : UInt64, size : Sizes]
    /\ limit \in BOOLEAN
    /\ faults \in 0 .. MaxFaults

\* The cursors are in order, so that put never calls log.Fatal, even when the
\* 64-bit counters wrap around, writes of the state file fail or the process
\* restarts; and until the counters come near their limit the window between
\* them is never larger than the data file.
WindowFits ==
    \A c \in {file, cursors} :
        c.Read <= c.Write /\ (limit \/ c.Write - c.Read <= dataSize)

\* Two allocations whose data is valid never share a byte of the data file,
\* although chunks are handed out piecewise, are abandoned by restarts and the
\* file is reused over and over.
ValidDataDisjoint ==
    limit \/ \A a, b \in allocations :
        a # b /\ Valid(a) /\ Valid(b) =>
            \A i \in a.offset .. End(a) - 1, j \in b.offset .. End(b) - 1 :
                i % dataSize # j % dataSize

\* Data that has been invalidated or overwritten never counts as valid again:
\* neither an allocation, nor a failed write of the state file, nor a restart
\* moves the cursors back over it.
DeadDataStaysDead ==
    [][limit' \/ \A a \in allocations : ~Valid(a) => ~Valid(a)']_vars
===========================================================================
