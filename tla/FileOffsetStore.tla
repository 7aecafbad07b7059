-------------------------- MODULE FileOffsetStore --------------------------
(***************************************************************************)
(* The offset file of the circular storage backend under the calls that    *)
(* circularBlobAccess makes: every Put is of data that was allocated       *)
(* earlier, possibly before data whose Put came first; the cursors move on *)
(* in between, when space is allocated and when blobs are invalidated; a   *)
(* write of the offset file may fail after some records were moved.        *)
(***************************************************************************)
EXTENDS OffsetTable, FiniteSets

CONSTANT
    MaxFailures   \* bound: Puts that fail half-way

ASSUME OffsetStoreAssumption == MaxFailures \in Nat

VARIABLES
    inFlight,  \* allocated, not yet Put
    puts,      \* history: what Put was called for
    late,      \* history: Put after a newer blob with the same digest
    demoted,   \* history: slots in which a record gave way to an older one
    failures

historyVars == <<puts, late, demoted>>
offsetVars == <<table, cursors, inFlight, historyVars, failures>>

OffsetStoreInit ==
    /\ table = EmptyTable
    /\ cursors = [Read |-> 0, Write |-> 0]
    /\ inFlight = {}
    /\ puts = {}
    /\ late = {}
    /\ demoted = {}
    /\ failures = 0

Blob(d, offset) == [digest |-> d, offset |-> offset, length |-> SizeBytes[d]]

\* Space for a blob is allocated.
Allocate(d) ==
    /\ cursors.Write < MaxWrite
    /\ cursors' = FileAllocate(cursors, Positive(SizeBytes[d]))
    /\ inFlight' = inFlight \cup {Blob(d, cursors.Write)}
    /\ UNCHANGED <<table, historyVars, failures>>

\* A newer blob with the same digest was Put before.
Overtaken(b) == \E x \in puts : x.digest = b.digest /\ x.offset > b.offset

\* The slots in which the first n rounds of a Put overwrite a valid record that has
\* no other slot to go to by an older one.
Demotes(b, n) ==
    {s \in Slots : \E i \in 0 .. n - 1 :
        LET round == PutRounds(table, b.digest, b.offset, b.length, cursors, i)
            old == round.table[s]
        IN  /\ round.more /\ s = Slot(round.record)
            /\ ContainsRecord(cursors, old) /\ old.attempt >= maximumIterations - 1
            /\ old.offset > round.record.offset}

\* The history after n rounds of a Put that is not refused.
Remember(b, n) ==
    /\ puts' = puts \cup {b}
    /\ late' = IF Overtaken(b) THEN late \cup {b} ELSE late
    /\ demoted' = demoted \cup Demotes(b, n)

\* Its data is written, in any order: Put is called while the data is valid.
Put(b) ==
    /\ inFlight' = inFlight \ {b}
    /\ IF Contains(cursors, b.offset, b.length)
       THEN /\ table' = TablePut(table, b.digest, b.offset, b.length, cursors)
            /\ Remember(b, maximumIterations)
       ELSE UNCHANGED <<table, historyVars>>
    /\ UNCHANGED <<cursors, failures>>

\* putRecordAtPosition fails in round n + 1.
PutFails(b, n) ==
    /\ failures < MaxFailures
    /\ failures' = failures + 1
    /\ Contains(cursors, b.offset, b.length)
    /\ PutRounds(table, b.digest, b.offset, b.length, cursors, n).more
    /\ table' = PutRounds(table, b.digest, b.offset, b.length, cursors, n).table
    /\ inFlight' = inFlight \ {b}
    /\ Remember(b, n)
    /\ UNCHANGED cursors

\* circularBlobAccess.Delete.
Delete(d) ==
    /\ \E r \in TableGet(table, cursors, d) :
          cursors' = FileInvalidate(cursors, r.offset, Positive(r.length))
    /\ UNCHANGED <<table, inFlight, historyVars, failures>>

OffsetStoreNext ==
    \/ \E d \in Digests : Allocate(d) \/ Delete(d)
    \/ \E b \in inFlight : Put(b) \/ \E n \in 0 .. maximumIterations - 1 : PutFails(b, n)

OffsetStoreSpec == OffsetStoreInit /\ [][OffsetStoreNext]_offsetVars

---------------------------------------------------------------------------
\* What Get returns is where a blob with that digest was allocated, and it is
\* still valid: records that are moved around the table, over slots that hold
\* zeroes or leftovers, are never attributed to another digest.
FoundIsTrue ==
    \A d \in Digests : \A r \in TableGet(table, cursors, d) :
        /\ r.digest = d /\ r.length = SizeBytes[d]
        /\ Contains(cursors, r.offset, r.length)
        /\ Blob(d, r.offset) \in puts

\* Of all the records that a digest has in the table, Get returns the newest, or
\* one whose upload was overtaken: a record in the last of its slots gives way
\* to an older one, which may be that of a blob whose newer record it had pushed on.
NewestFirst ==
    \A d \in Digests : \A r \in TableGet(table, cursors, d) : \A s \in Slots :
        /\ table[s].digest = d
        /\ ContainsRecord(cursors, table[s])
        /\ Slot(table[s]) = s
        => table[s].offset <= r.offset \/ Blob(d, r.offset) \in late

\* A blob whose record is in the table, in any slot but the last of its own, is
\* found, or a newer blob with its digest: everything in the slots before it is newer and
\* expires later.  The exception are slots in which a record that had no other slot to go
\* to gave way to an older one.
HiddenExplained ==
    \A s \in Slots :
        LET r == table[s] IN
        /\ r.digest \in Digests /\ r.attempt < maximumIterations - 1
        /\ ContainsRecord(cursors, r)
        /\ Slot(r) = s
        => \/ TableGet(table, cursors, r.digest) # {}
           \/ \E i \in 0 .. r.attempt - 1 : Hash[<<r.digest, i>>] \in demoted

\* The blob stored last (in the order of allocation) is always found, however
\* full the table is: collisions make it displace others, never the other way
\* around.  The blob at offset 0 is exempt: it ties with the record that empty
\* slots read as, and the two displace each other where their slots collide.
LastBlobFound ==
    \A b \in puts :
        /\ b.offset > 0
        /\ Contains(cursors, b.offset, b.length)
        /\ \A x \in puts : x.offset <= b.offset
        /\ failures = 0
        => \E r \in TableGet(table, cursors, b.digest) : r.offset = b.offset
===========================================================================
