--------------------- MODULE CircularStateStoreProofs ---------------------
(***************************************************************************)
(* Proofs about the state store of the circular storage backend, for any   *)
(* width of the offsets, any size of the data file and of its chunks, and  *)
(* any sequence of allocations, failed writes and restarts.                *)
(***************************************************************************)
EXTENDS CircularStateStore, TLAPS

USE CursorsAssumption

---------------------------------------------------------------------------
\* Arithmetic.

\* Division with remainder.
LEMMA Division ==
    ASSUME NEW d \in Nat, d > 0, NEW n \in Nat
    PROVE  /\ n \div d \in Nat
           /\ n % d \in Nat /\ n % d < d
           /\ n = d * (n \div d) + (n % d)
BY SMT

\* What rounding up to whole chunks yields.
LEMMA RoundUpFacts ==
    ASSUME NEW n \in Nat
    PROVE  RoundUp(n) \in Nat /\ n <= RoundUp(n) /\ RoundUp(n) < n + chunkSize
<1> DEFINE m == n + chunkSize - 1
           q == m \div chunkSize
<1>1. m \in Nat /\ chunkSize \in Nat /\ chunkSize > 0
    OBVIOUS
<1>2. q \in Nat /\ m % chunkSize \in Nat /\ m % chunkSize < chunkSize
      /\ m = chunkSize * q + (m % chunkSize)
    BY <1>1, Division
<1>3. RoundUp(n) = q * chunkSize
    BY DEF RoundUp
<1> HIDE DEF q
<1>4. q * chunkSize = chunkSize * q /\ chunkSize * q \in Nat
    BY <1>1, <1>2
<1> DEFINE product == chunkSize * q
           rest == m % chunkSize
<1>5. product \in Nat /\ rest \in Nat /\ rest < chunkSize /\ n + chunkSize - 1 = product + rest
    BY <1>2, <1>4
<1>6. RoundUp(n) = product
    BY <1>3, <1>4
<1> HIDE DEF product, rest
<1> QED
    BY <1>1, <1>5, <1>6

\* Positions of a window no larger than the data file are different places of it.
LEMMA ModDistinct ==
    ASSUME NEW i \in Nat, NEW j \in Nat, i < j, j - i < dataSize
    PROVE  i % dataSize # j % dataSize
<1> DEFINE p == i \div dataSize
           q == j \div dataSize
<1>1. dataSize \in Nat /\ dataSize > 0
    OBVIOUS
<1>2. p \in Nat /\ i % dataSize \in Nat /\ i = dataSize * p + (i % dataSize)
    BY <1>1, Division
<1>3. q \in Nat /\ j % dataSize \in Nat /\ j = dataSize * q + (j % dataSize)
    BY <1>1, Division
<1> HIDE DEF p, q
<1>4. SUFFICES ASSUME i % dataSize = j % dataSize PROVE FALSE
    OBVIOUS
<1>5. j - i = dataSize * q - dataSize * p
    BY <1>1, <1>2, <1>3, <1>4
<1>6. CASE q <= p
    <2>1. dataSize * q <= dataSize * p
        BY <1>1, <1>2, <1>3, <1>6
    <2> QED
        BY <1>1, <1>2, <1>3, <1>5, <2>1
<1>7. CASE q >= p + 1
    <2>1. dataSize * q >= dataSize * (p + 1)
        BY <1>1, <1>2, <1>3, <1>7
    <2>2. dataSize * (p + 1) = dataSize * p + dataSize
        BY <1>1, <1>2
    <2> QED
        BY <1>1, <1>2, <1>3, <1>5, <2>1, <2>2
<1> QED
    BY <1>2, <1>3, <1>6, <1>7

---------------------------------------------------------------------------
\* The cursors that the operations of the file state store compute.

\* They are ordered, whatever wraps around.
Ordered(c) == c \in CursorPair /\ c.Read <= c.Write

\* They span no more than the data file, and are away from the end of the range.
Fits(c) == c.Write - c.Read <= dataSize /\ c.Read + dataSize < Width

\* Allocate in the file state store.
LEMMA FileAllocateFacts ==
    ASSUME NEW c, Ordered(c), NEW size \in Nat, size < Width
    PROVE  LET new == FileAllocate(c, size) IN
           /\ Ordered(new)
           /\ Fits(c) /\ ~NearLimit(c, new) =>
                 Fits(new) /\ new.Write = c.Write + size /\ c.Read <= new.Read
<1> DEFINE w == Add(c.Write, size)
           new == FileAllocate(c, size)
<1>1. c.Read \in Nat /\ c.Write \in Nat /\ c.Read <= c.Write /\ c.Write < Width
    BY DEF Ordered, CursorPair, UInt64
<1>2. w \in Nat /\ w < Width /\ (w = c.Write + size \/ w < c.Write)
    BY <1>1 DEF Add
<1>3. new.Write = w
      /\ new.Read = IF c.Read > w THEN w ELSE IF Add(c.Read, dataSize) < w THEN w - dataSize ELSE c.Read
    BY DEF FileAllocate
<1>4. new = [Read |-> new.Read, Write |-> new.Write]
    BY DEF FileAllocate
<1> HIDE DEF w, new
<1>5. new.Read \in Nat /\ new.Read <= new.Write
    BY <1>1, <1>2, <1>3 DEF Add
<1>6. Ordered(new)
    BY <1>2, <1>3, <1>4, <1>5 DEF Ordered, CursorPair, UInt64
<1>7. ASSUME Fits(c), ~NearLimit(c, new)
      PROVE  Fits(new) /\ new.Write = c.Write + size /\ c.Read <= new.Read
    <2>1. w = c.Write + size
        BY <1>1, <1>2, <1>3, <1>7 DEF NearLimit
    <2>2. Add(c.Read, dataSize) = c.Read + dataSize
        BY <1>1, <1>7 DEF Add, Fits
    <2>3. ~(c.Read > w) /\ new.Read + dataSize < Width
        BY <1>1, <1>3, <1>5, <1>7, <2>1 DEF NearLimit
    <2>4. new.Read = IF c.Read + dataSize < w THEN w - dataSize ELSE c.Read
        BY <1>3, <2>2, <2>3
    <2>5. c.Read <= new.Read /\ w - new.Read <= dataSize
        BY <1>1, <1>2, <2>4
    <2> QED
        BY <1>3, <2>1, <2>3, <2>5 DEF Fits
<1> QED
    BY <1>6, <1>7 DEF new

\* The bulk write cursor, moved back in range.
LEMMA InRangeFacts ==
    ASSUME NEW c, Ordered(c), NEW wc \in UInt64
    PROVE  /\ InRange(wc, c) \in Nat
           /\ c.Read <= InRange(wc, c) /\ InRange(wc, c) <= c.Write
           /\ wc <= InRange(wc, c) \/ InRange(wc, c) = c.Write
BY DEF Ordered, CursorPair, UInt64, InRange

\* Allocate in the stack of state stores: space for the blob is there.
LEMMA BulkCursorsFacts ==
    ASSUME NEW c, Ordered(c), NEW wc \in UInt64, NEW size \in Nat, size + chunkSize < Width
    PROVE  LET new == BulkCursors(c, wc, size) IN
           /\ Ordered(new)
           /\ Fits(c) /\ ~NearLimit(c, new) =>
                 /\ Fits(new)
                 /\ c.Read <= new.Read /\ c.Write <= new.Write
                 /\ InRange(wc, c) + size <= new.Write
<1> DEFINE offset == InRange(wc, c)
           left == c.Write - offset
           more == RoundUp(size - left)
           new == BulkCursors(c, wc, size)
<1>1. c.Read \in Nat /\ c.Write \in Nat
    BY DEF Ordered, CursorPair, UInt64
<1>2. offset \in Nat /\ offset <= c.Write
    BY InRangeFacts
<1>3. new = IF size > left THEN FileAllocate(c, more) ELSE c
    BY DEF BulkCursors
<1> HIDE DEF offset, new
<1>4. CASE size > left
    <2>1. size - left \in Nat
        BY <1>1, <1>2, <1>4
    <2>2. more \in Nat /\ size - left <= more /\ more < size - left + chunkSize
        BY <2>1, RoundUpFacts
    <2> HIDE DEF more
    <2>3. more < Width
        BY <1>1, <1>2, <2>2
    <2>4. new = FileAllocate(c, more)
        BY <1>3, <1>4
    <2>5. Ordered(new)
        BY <2>2, <2>3, <2>4, FileAllocateFacts
    <2>6. ASSUME Fits(c), ~NearLimit(c, new)
          PROVE  Fits(new) /\ new.Write = c.Write + more /\ c.Read <= new.Read
        BY <2>2, <2>3, <2>4, <2>6, FileAllocateFacts
    <2>7. ASSUME Fits(c), ~NearLimit(c, new)
          PROVE  c.Write <= new.Write /\ offset + size <= new.Write
        BY <1>1, <1>2, <2>2, <2>6, <2>7
    <2> QED
        BY <2>5, <2>6, <2>7 DEF new, offset
<1>5. CASE ~(size > left)
    <2>1. new = c
        BY <1>3, <1>5
    <2>2. c.Read <= c.Read /\ c.Write <= c.Write /\ offset + size <= c.Write
        BY <1>1, <1>2, <1>5
    <2> QED
        BY <2>1, <2>2 DEF new, offset
<1> QED
    BY <1>4, <1>5

---------------------------------------------------------------------------
\* The inductive invariant.  Until the counters come near their limit, the state
\* file is never behind the copy in memory, and all that was ever allocated lies
\* below both write cursors, so that the next allocation comes after it.
Placed ==
    /\ Fits(file) /\ Fits(cursors)
    /\ cursors.Read <= file.Read /\ cursors.Write <= file.Write
    /\ \A a \in allocations : End(a) <= cursors.Write /\ End(a) <= writeCursor
    /\ \A a, b \in allocations : a # b => End(a) <= b.offset \/ End(b) <= a.offset

StoreInvariant ==
    /\ TypeOK
    /\ Ordered(file) /\ Ordered(cursors)
    /\ limit \/ Placed

\* An empty state file.
LEMMA StoreInvariantInit ==
    Init => StoreInvariant
<1> SUFFICES ASSUME Init PROVE StoreInvariant
    OBVIOUS
<1>1. dataSize \in Nat /\ dataSize > 0 /\ Width \in Nat /\ dataSize < Width /\ 0 \in UInt64 /\ Width - 1 \in UInt64
    BY DEF UInt64
<1>2. file \in CursorPair /\ cursors = file /\ file.Read = 0 /\ file.Write = 0
    BY <1>1 DEF Init, CursorPair
<1>3. TypeOK
    <2>1. faults \in 0 .. MaxFaults
        BY StateStoreAssumption DEF Init
    <2>2. limit \in BOOLEAN
        BY DEF Init
    <2> QED
        BY <1>1, <1>2, <2>1, <2>2 DEF Init, TypeOK
<1>4. Ordered(file)
    BY <1>2 DEF Ordered
<1>5. Placed
    BY <1>1, <1>2 DEF Init, Placed, Fits
<1> QED
    BY <1>2, <1>3, <1>4, <1>5 DEF StoreInvariant

\* Sizes of blobs and what they take up.
LEMMA PositiveFacts ==
    ASSUME NEW size \in Sizes
    PROVE  Positive(size) \in Nat /\ Positive(size) >= 1 /\ Positive(size) + chunkSize < Width
<1>1. size \in Nat /\ size + dataSize + 2 * chunkSize < Width /\ chunkSize >= 1 /\ chunkSize \in Nat
      /\ dataSize \in Nat
    BY StateStoreAssumption
<1> QED
    BY <1>1 DEF Positive

\* Allocate.
LEMMA AllocateStep ==
    ASSUME StoreInvariant, NEW size \in Sizes, Allocate(size)
    PROVE  StoreInvariant'
<1> DEFINE s == Positive(size)
           new == BulkCursors(cursors, writeCursor, s)
           offset == InRange(writeCursor, cursors)
           a0 == [offset |-> offset, size |-> size]
<1> USE DEF StoreInvariant
<1>1. s \in Nat /\ s >= 1 /\ s + chunkSize < Width
    BY PositiveFacts
<1>2. Ordered(cursors) /\ writeCursor \in UInt64 /\ cursors \in CursorPair
      /\ cursors.Read \in Nat /\ cursors.Write \in Nat /\ cursors.Write < Width /\ writeCursor \in Nat
    BY DEF TypeOK, CursorPair, UInt64
<1>3. Ordered(new)
      /\ (Fits(cursors) /\ ~NearLimit(cursors, new) =>
            Fits(new) /\ cursors.Read <= new.Read /\ cursors.Write <= new.Write /\ offset + s <= new.Write)
    BY <1>1, <1>2, BulkCursorsFacts
<1>4. offset \in Nat /\ offset <= cursors.Write /\ (writeCursor <= offset \/ offset = cursors.Write)
    BY <1>2, InRangeFacts
<1>5. file' \in {new, file} /\ (file' = file => new = cursors \/ new = file) /\ cursors' = new
      /\ limit' = (limit \/ NearLimit(cursors, new))
    <2>1. CASE new = cursors
        <3>1. UNCHANGED <<file, cursors, limit>>
            BY <2>1 DEF Allocate
        <3>2. limit \/ ~NearLimit(cursors, new)
            BY <1>2, <2>1 DEF Placed, Fits, NearLimit
        <3>3. limit \in BOOLEAN
            BY DEF TypeOK
        <3> QED
            BY <2>1, <3>1, <3>2, <3>3
    <2>2. CASE new # cursors
        BY <2>2 DEF Allocate, Put
    <2> QED
        BY <2>1, <2>2
<1>6. writeCursor' = Add(offset, s) /\ allocations' = allocations \cup {a0} /\ faults' = faults
    BY DEF Allocate, BulkWriteCursor, BulkOffset
<1>7. a0.offset = offset /\ a0.size = size /\ End(a0) = offset + s
    BY DEF End
<1> HIDE DEF s, new, offset, a0
<1>8. new \in CursorPair /\ new.Read \in Nat /\ new.Write \in Nat /\ new.Write < Width
    BY <1>3 DEF Ordered, CursorPair, UInt64
<1>9. TypeOK'
    <2>1. Add(offset, s) \in UInt64
        BY <1>1, <1>2, <1>4 DEF Add, UInt64
    <2>2. a0 \in [offset : UInt64, size : Sizes]
        BY <1>2, <1>4 DEF a0, UInt64
    <2>3. allocations' \subseteq [offset : UInt64, size : Sizes]
        BY <1>6, <2>2 DEF TypeOK
    <2> QED
        BY <1>5, <1>6, <1>8, <2>1, <2>3 DEF TypeOK
<1>10. Ordered(file)' /\ Ordered(cursors)'
    BY <1>3, <1>5 DEF Ordered
<1>11. ASSUME ~limit' PROVE Placed'
    <2>1. ~limit /\ ~NearLimit(cursors, new)
        BY <1>5, <1>11
    <2>2. Placed
        BY <2>1
    <2>3. Fits(new) /\ cursors.Write <= new.Write /\ offset + s <= new.Write
        BY <1>3, <2>1, <2>2 DEF Placed
    <2>4. \A a \in allocations : a.offset \in Nat /\ End(a) \in Nat
        BY PositiveFacts DEF TypeOK, End, UInt64
    <2>5. \A a \in allocations : End(a) <= cursors.Write /\ End(a) <= offset
        BY <1>2, <1>4, <2>2, <2>4 DEF Placed
    <2>6. writeCursor' = offset + s
        BY <1>1, <1>4, <1>6, <1>8, <2>3 DEF Add
    <2>7. \A a \in allocations' : End(a) <= new.Write /\ End(a) <= writeCursor'
        BY <1>1, <1>2, <1>4, <1>6, <1>7, <1>8, <2>3, <2>4, <2>5, <2>6
    <2>8. \A a, b \in allocations' : a # b => End(a) <= b.offset \/ End(b) <= a.offset
        BY <1>6, <1>7, <2>2, <2>5 DEF Placed
    <2>9. new.Read <= file'.Read /\ new.Write <= file'.Write /\ Fits(file')
        BY <1>5, <1>8, <2>2, <2>3 DEF Placed
    <2> QED
        BY <1>5, <2>3, <2>7, <2>8, <2>9 DEF Placed, Fits
<1> QED
    BY <1>9, <1>10, <1>11

\* What Invalidate of a valid blob does to the cursors: they stay ordered, and
\* away from the limit only the read cursor moves, to the end of the blob.
LEMMA FileInvalidateFacts ==
    ASSUME StoreInvariant, NEW a \in allocations, Valid(a)
    PROVE  LET new == FileInvalidate(cursors, a.offset, Positive(a.size)) IN
           /\ Ordered(new)
           /\ ~limit /\ ~NearLimit(cursors, new) =>
                 Fits(new) /\ new.Write = cursors.Write /\ cursors.Read <= new.Read
<1> DEFINE s == Positive(a.size)
           r == Add(a.offset, s)
           new == FileInvalidate(cursors, a.offset, s)
<1> USE DEF StoreInvariant
<1>1. a.offset \in Nat /\ a.offset < Width /\ s \in Nat /\ s >= 1 /\ s < Width
    BY PositiveFacts DEF TypeOK, UInt64
<1>2. cursors.Read \in Nat /\ cursors.Write \in Nat /\ cursors.Read <= cursors.Write /\ cursors.Write < Width
    BY DEF Ordered, CursorPair, UInt64
<1>3. r \in Nat /\ r < Width
    BY <1>1 DEF Add
<1>4. new = [Read |-> r, Write |-> IF cursors.Write < r THEN r ELSE cursors.Write]
    BY DEF FileInvalidate
<1>5. cursors.Read <= a.offset /\ End(a) = a.offset + s
    BY DEF Valid, Contains, End
<1> HIDE DEF s, r, new
<1>6. Ordered(new)
    BY <1>2, <1>3, <1>4 DEF Ordered, CursorPair, UInt64
<1>7. ASSUME ~limit, ~NearLimit(cursors, new)
      PROVE  Fits(new) /\ new.Write = cursors.Write /\ cursors.Read <= new.Read
    <2>1. a.offset + s <= cursors.Write /\ cursors.Write - cursors.Read <= dataSize
        BY <1>5, <1>7 DEF Placed, Fits
    <2>2. r = a.offset + s
        BY <1>1, <1>2, <2>1 DEF Add, r
    <2>3. new.Read = r /\ new.Write = cursors.Write
        BY <1>2, <1>3, <1>4, <2>1, <2>2
    <2>4. new.Read + dataSize < Width
        BY <1>3, <1>7, <2>3 DEF NearLimit
    <2>5. cursors.Read <= r /\ cursors.Write - r <= dataSize
        BY <1>1, <1>2, <1>5, <2>1, <2>2
    <2> QED
        BY <2>3, <2>4, <2>5 DEF Fits
<1> QED
    BY <1>6, <1>7 DEF new, s

\* Steps that hand out no space: what they may write to the state file and may
\* take for their copy of it.
Harmless(new) ==
    /\ Ordered(new)
    /\ ~limit' => Fits(new) /\ cursors.Read <= new.Read /\ cursors.Write <= new.Write

\* If they keep to that, they keep the invariant.
LEMMA HarmlessStep ==
    ASSUME StoreInvariant, limit' \in BOOLEAN, limit => limit', UNCHANGED allocations,
           Harmless(file'), Harmless(cursors'),
           ~limit' => cursors'.Read <= file'.Read /\ cursors'.Write <= file'.Write,
           writeCursor' \in UInt64,
           writeCursor' >= writeCursor \/ writeCursor' >= cursors.Write,
           faults' \in 0 .. MaxFaults
    PROVE  StoreInvariant'
<1> USE DEF StoreInvariant
<1>1. Ordered(file') /\ Ordered(cursors')
    BY DEF Harmless
<1>2. TypeOK'
    BY <1>1 DEF TypeOK, Ordered
<1>3. ASSUME ~limit' PROVE Placed'
    <2>1. Placed
        BY <1>3
    <2>2. Fits(file') /\ Fits(cursors') /\ cursors.Write <= cursors'.Write
        BY <1>3 DEF Harmless
    <2>3. \A a \in allocations : End(a) \in Nat
        BY PositiveFacts DEF TypeOK, End, UInt64
    <2>4. writeCursor \in Nat /\ writeCursor' \in Nat /\ cursors.Write \in Nat /\ cursors'.Write \in Nat
        BY <1>1 DEF TypeOK, Ordered, CursorPair, UInt64
    <2>5. \A a \in allocations : End(a) <= cursors'.Write /\ End(a) <= writeCursor'
        BY <2>1, <2>2, <2>3, <2>4 DEF Placed
    <2> QED
        BY <1>3, <2>1, <2>2, <2>5 DEF Placed, Fits
<1> QED
    BY <1>1, <1>2, <1>3 DEF Ordered

\* The cursors that are there are harmless.
LEMMA OldCursorsHarmless ==
    ASSUME StoreInvariant, limit => limit'
    PROVE  Harmless(file) /\ Harmless(cursors)
<1>1. cursors.Read <= cursors.Read /\ cursors.Write <= cursors.Write
    BY DEF StoreInvariant, TypeOK, CursorPair, UInt64
<1> QED
    BY <1>1 DEF StoreInvariant, Placed, Harmless

\* A write of harmless cursors that fails, with the bulk write cursor left alone
\* or moved in range.
LEMMA PutFailsStep ==
    ASSUME StoreInvariant, NEW new, PutFails(new), limit' \in BOOLEAN, Harmless(new),
           UNCHANGED allocations,
           writeCursor' \in {writeCursor, InRange(writeCursor, cursors)}
    PROVE  StoreInvariant'
<1>1. limit => limit'
    BY DEF PutFails
<1>2. Harmless(file) /\ Harmless(cursors)
    BY <1>1, OldCursorsHarmless
<1>3. cursors' = cursors /\ file' \in {file, new}
    BY DEF PutFails
<1>4. Harmless(file') /\ Harmless(cursors')
    BY <1>2, <1>3
<1>5. ~limit' => cursors'.Read <= file'.Read /\ cursors'.Write <= file'.Write
    BY <1>3, <1>4 DEF Harmless
<1>6. faults' \in 0 .. MaxFaults
    BY StateStoreAssumption DEF PutFails, StoreInvariant, TypeOK
<1>7. Ordered(cursors) /\ writeCursor \in UInt64 /\ cursors.Write \in Nat /\ cursors.Write < Width
      /\ writeCursor \in Nat
    BY DEF StoreInvariant, TypeOK, CursorPair, UInt64
<1>8. writeCursor' \in UInt64 /\ (writeCursor' >= writeCursor \/ writeCursor' >= cursors.Write)
    <2>1. CASE writeCursor' = writeCursor
        BY <1>7, <2>1
    <2>2. CASE writeCursor' = InRange(writeCursor, cursors)
        <3>1. InRange(writeCursor, cursors) \in Nat /\ InRange(writeCursor, cursors) <= cursors.Write
              /\ (writeCursor <= InRange(writeCursor, cursors) \/ InRange(writeCursor, cursors) = cursors.Write)
            BY <1>7, InRangeFacts
        <3> QED
            BY <1>7, <2>2, <3>1 DEF UInt64
    <2> QED
        BY <2>1, <2>2
<1> QED
    BY <1>1, <1>4, <1>5, <1>6, <1>8, HarmlessStep

\* Allocate whose write of the state file fails.
LEMMA AllocateFailsStep ==
    ASSUME StoreInvariant, NEW size \in Sizes, AllocateFails(size)
    PROVE  StoreInvariant'
<1> DEFINE s == Positive(size)
           new == BulkCursors(cursors, writeCursor, s)
<1>1. PutFails(new) /\ UNCHANGED allocations /\ writeCursor' = InRange(writeCursor, cursors)
    BY DEF AllocateFails
<1>2. limit' = (limit \/ NearLimit(cursors, new))
    BY <1>1 DEF PutFails
<1>3. Ordered(cursors) /\ writeCursor \in UInt64 /\ s \in Nat /\ s + chunkSize < Width
    BY PositiveFacts DEF StoreInvariant, TypeOK
<1>4. Ordered(new)
      /\ (Fits(cursors) /\ ~NearLimit(cursors, new) =>
            Fits(new) /\ cursors.Read <= new.Read /\ cursors.Write <= new.Write)
    BY <1>3, BulkCursorsFacts
<1> HIDE DEF new
<1>5. Harmless(new)
    BY <1>2, <1>4 DEF Harmless, StoreInvariant, Placed
<1>6. limit' \in BOOLEAN
    BY <1>2
<1> QED
    BY <1>1, <1>5, <1>6, PutFailsStep

\* What Invalidate writes is harmless.
LEMMA InvalidateHarmless ==
    ASSUME StoreInvariant, NEW a \in allocations, Valid(a),
           limit' = (limit \/ NearLimit(cursors, FileInvalidate(cursors, a.offset, Positive(a.size))))
    PROVE  Harmless(FileInvalidate(cursors, a.offset, Positive(a.size)))
<1> DEFINE new == FileInvalidate(cursors, a.offset, Positive(a.size))
<1>1. Ordered(new) /\ (~limit /\ ~NearLimit(cursors, new) =>
                         Fits(new) /\ new.Write = cursors.Write /\ cursors.Read <= new.Read)
    BY FileInvalidateFacts
<1>2. cursors.Write \in Nat
    BY DEF StoreInvariant, TypeOK, CursorPair, UInt64
<1> HIDE DEF new
<1>3. ~limit' => ~limit /\ ~NearLimit(cursors, new)
    BY DEF new
<1>4. ~limit' => cursors.Write <= new.Write
    BY <1>1, <1>2, <1>3
<1> QED
    BY <1>1, <1>3, <1>4 DEF Harmless, new

\* Invalidate.
LEMMA InvalidateStep ==
    ASSUME StoreInvariant, NEW a \in allocations, Invalidate(a) \/ InvalidateFails(a)
    PROVE  StoreInvariant'
<1> DEFINE new == FileInvalidate(cursors, a.offset, Positive(a.size))
<1>1. Valid(a) /\ UNCHANGED <<writeCursor, allocations>>
      /\ limit' = (limit \/ NearLimit(cursors, new))
    BY DEF Invalidate, InvalidateFails, Put, PutFails
<1>2. Harmless(new) /\ limit' \in BOOLEAN /\ (limit => limit')
    BY <1>1, InvalidateHarmless
<1> HIDE DEF new
<1>3. CASE InvalidateFails(a)
    <2>1. PutFails(new)
        BY <1>3 DEF InvalidateFails, new
    <2> QED
        BY <1>1, <1>2, <2>1, PutFailsStep
<1>4. CASE Invalidate(a)
    <2>1. file' = new /\ cursors' = new /\ faults' = faults
        BY <1>4 DEF Invalidate, Put, new
    <2>2. new.Read <= new.Read /\ new.Write <= new.Write
        BY <1>2 DEF Harmless, Ordered, CursorPair, UInt64
    <2>3. writeCursor' \in UInt64 /\ writeCursor' >= writeCursor /\ faults' \in 0 .. MaxFaults
        BY <1>1, <2>1 DEF StoreInvariant, TypeOK, UInt64
    <2>4. Harmless(file') /\ Harmless(cursors')
        BY <1>2, <2>1
    <2>5. cursors'.Read <= file'.Read /\ cursors'.Write <= file'.Write
        BY <2>1, <2>2
    <2> QED
        BY <1>1, <1>2, <2>3, <2>4, <2>5, HarmlessStep
<1> QED
    BY <1>3, <1>4

\* A restart reads what is in the state file, which is never behind.
LEMMA RestartStep ==
    ASSUME StoreInvariant, Restart
    PROVE  StoreInvariant'
<1>1. cursors' = file /\ file' = file /\ writeCursor' = Width - 1 /\ UNCHANGED <<allocations, limit>>
    BY DEF Restart, StoreInvariant, Ordered
<1>2. Harmless(file)
    BY <1>1, OldCursorsHarmless
<1>3. writeCursor' \in UInt64 /\ writeCursor' >= writeCursor
    BY <1>1 DEF StoreInvariant, TypeOK, UInt64
<1>4. faults' \in 0 .. MaxFaults
    BY StateStoreAssumption DEF Restart, StoreInvariant, TypeOK
<1>5. file.Read <= file.Read /\ file.Write <= file.Write
    BY DEF StoreInvariant, TypeOK, CursorPair, UInt64
<1>6. limit' \in BOOLEAN /\ (limit => limit')
    BY <1>1 DEF StoreInvariant, TypeOK
<1>7. Harmless(file') /\ Harmless(cursors') /\ cursors'.Read <= file'.Read /\ cursors'.Write <= file'.Write
    BY <1>1, <1>2, <1>5
<1> QED
    BY <1>1, <1>3, <1>4, <1>6, <1>7, HarmlessStep

\* Every step preserves the invariant.
LEMMA StoreInvariantNext ==
    StoreInvariant /\ [Next]_vars => StoreInvariant'
<1> SUFFICES ASSUME StoreInvariant, [Next]_vars PROVE StoreInvariant'
    OBVIOUS
<1>1. CASE UNCHANGED vars
    BY <1>1 DEF vars, StoreInvariant, TypeOK, Placed, Ordered, Fits
<1>2. CASE \E s \in Sizes : Allocate(s) \/ AllocateFails(s)
    BY <1>2, AllocateStep, AllocateFailsStep
<1>3. CASE \E a \in allocations : Invalidate(a) \/ InvalidateFails(a)
    BY <1>3, InvalidateStep
<1>4. CASE Restart
    BY <1>4, RestartStep
<1> QED
    BY <1>1, <1>2, <1>3, <1>4 DEF Next

\* The invariant holds in every reachable state of the state store.
THEOREM StoreInvariantHolds ==
    Spec => []StoreInvariant
BY StoreInvariantInit, StoreInvariantNext, PTL DEF Spec

---------------------------------------------------------------------------
\* Type correctness.
THEOREM StoreTypeCorrect ==
    Spec => []TypeOK
<1>1. StoreInvariant => TypeOK
    BY DEF StoreInvariant
<1> QED
    BY <1>1, StoreInvariantHolds, PTL

\* The cursors are always in order and span at most the data file.
THEOREM WindowAlwaysFits ==
    Spec => []WindowFits
<1>1. StoreInvariant => WindowFits
    BY DEF StoreInvariant, Ordered, Placed, Fits, WindowFits
<1> QED
    BY <1>1, StoreInvariantHolds, PTL

\* Valid data of different blobs is in different places of the data file:
\* allocations are disjoint before the offsets are reduced modulo the size of
\* the file, and valid ones lie within one window of that size.
THEOREM ValidDataIsDisjoint ==
    Spec => []ValidDataDisjoint
<1>1. StoreInvariant => ValidDataDisjoint
    <2>1. SUFFICES ASSUME StoreInvariant, ~limit, NEW a \in allocations, NEW b \in allocations,
                          a # b, Valid(a), Valid(b),
                          NEW i \in a.offset .. End(a) - 1, NEW j \in b.offset .. End(b) - 1
                   PROVE  i % dataSize # j % dataSize
        BY DEF ValidDataDisjoint
    <2>2. Placed
        BY <2>1 DEF StoreInvariant
    <2>3. a.offset \in Nat /\ b.offset \in Nat /\ End(a) \in Nat /\ End(b) \in Nat
          /\ cursors.Read \in Nat /\ cursors.Write \in Nat
        BY <2>1, PositiveFacts DEF StoreInvariant, TypeOK, End, CursorPair, UInt64
    <2>4. /\ cursors.Read <= a.offset /\ End(a) <= cursors.Write
          /\ cursors.Read <= b.offset /\ End(b) <= cursors.Write
          /\ cursors.Write - cursors.Read <= dataSize
          /\ End(a) <= b.offset \/ End(b) <= a.offset
        BY <2>1, <2>2 DEF Placed, Fits, Valid, Contains
    <2>5. i \in Nat /\ j \in Nat /\ i # j /\ j - i < dataSize /\ i - j < dataSize
        BY <2>3, <2>4
    <2>6. CASE i < j
        BY <2>5, <2>6, ModDistinct
    <2>7. CASE j < i
        BY <2>5, <2>7, ModDistinct
    <2> QED
        BY <2>5, <2>6, <2>7
<1> QED
    BY <1>1, StoreInvariantHolds, PTL

\* Until the limit, no step moves the read cursor back.
LEMMA ReadNeverGoesBack ==
    ASSUME StoreInvariant, [Next]_vars, ~limit'
    PROVE  ~limit /\ cursors.Read <= cursors'.Read
<1> USE DEF StoreInvariant
<1>1. cursors.Read \in Nat /\ Ordered(cursors) /\ writeCursor \in UInt64
    BY DEF TypeOK, CursorPair, UInt64
<1>2. CASE UNCHANGED vars
    BY <1>1, <1>2 DEF vars
<1>3. ASSUME NEW size \in Sizes, Allocate(size)
      PROVE  ~limit /\ cursors.Read <= cursors'.Read
    <2> DEFINE new == BulkCursors(cursors, writeCursor, Positive(size))
    <2>1. CASE new = cursors
        BY <1>1, <1>3, <2>1 DEF Allocate
    <2>2. CASE new # cursors
        <3>1. cursors' = new /\ ~limit /\ ~NearLimit(cursors, new)
            BY <1>3, <2>2 DEF Allocate, Put
        <3>2. Fits(cursors)
            BY <3>1 DEF Placed
        <3>3. cursors.Read <= new.Read
            BY <1>1, <3>1, <3>2, PositiveFacts, BulkCursorsFacts
        <3> QED
            BY <3>1, <3>3
    <2> QED
        BY <2>1, <2>2
<1>4. ASSUME NEW a \in allocations, Invalidate(a)
      PROVE  ~limit /\ cursors.Read <= cursors'.Read
    <2> DEFINE new == FileInvalidate(cursors, a.offset, Positive(a.size))
    <2>1. Valid(a) /\ cursors' = new /\ ~limit /\ ~NearLimit(cursors, new)
        BY <1>4 DEF Invalidate, Put
    <2>2. cursors.Read <= new.Read
        BY <2>1, FileInvalidateFacts
    <2> QED
        BY <2>1, <2>2
<1>5. CASE (\E s \in Sizes : AllocateFails(s)) \/ (\E a \in allocations : InvalidateFails(a))
    <2>1. PICK new : PutFails(new)
        BY <1>5 DEF AllocateFails, InvalidateFails
    <2>2. cursors' = cursors /\ (limit => limit')
        BY <2>1 DEF PutFails
    <2> QED
        BY <1>1, <2>2
<1>6. CASE Restart
    BY <1>6 DEF Restart, Ordered, Placed
<1> QED
    BY <1>2, <1>3, <1>4, <1>5, <1>6 DEF Next

\* Data that has been invalidated or overwritten never counts as valid again.
THEOREM DeadDataNeverReturns ==
    Spec => DeadDataStaysDead
<1>1. StoreInvariant /\ [Next]_vars => [limit' \/ \A a \in allocations : ~Valid(a) => ~Valid(a)']_vars
    <2>1. SUFFICES ASSUME StoreInvariant, [Next]_vars, ~limit', NEW a \in allocations, ~Valid(a)
                   PROVE  ~Valid(a)'
        OBVIOUS
    <2>2. ~limit /\ cursors.Read <= cursors'.Read
        BY <2>1, ReadNeverGoesBack
    <2>3. End(a) <= cursors.Write
        BY <2>1, <2>2 DEF StoreInvariant, Placed
    <2>4. a.offset \in Nat /\ Positive(a.size) \in Nat /\ Positive(a.size) >= 1
          /\ cursors.Read \in Nat /\ cursors.Write \in Nat /\ cursors.Write < Width
        BY <2>1, PositiveFacts DEF StoreInvariant, TypeOK, CursorPair, UInt64
    <2>5. Add(a.offset, Positive(a.size)) = End(a) /\ a.offset <= cursors.Write
        BY <2>3, <2>4 DEF Add, End
    <2>6. a.offset < cursors.Read
        BY <2>1, <2>3, <2>4, <2>5 DEF Valid, Contains
    <2>7. cursors'.Read \in Nat
        BY <2>1, StoreInvariantNext DEF StoreInvariant, TypeOK, CursorPair, UInt64
    <2>8. ~(a.offset >= cursors'.Read)
        BY <2>2, <2>4, <2>6, <2>7
    <2> QED
        BY <2>8 DEF Valid, Contains
<1> QED
    BY <1>1, StoreInvariantHolds, PTL DEF Spec, DeadDataStaysDead
===========================================================================
