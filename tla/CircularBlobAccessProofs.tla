--------------------- MODULE CircularBlobAccessProofs ---------------------
(***************************************************************************)
(* Proofs about the circular storage backend as a whole and about its      *)
(* offset store, for any digests and sizes of blobs, any hash function and *)
(* size of the offset file, any size of the data file and of its chunks,   *)
(* and any number of concurrent calls. Among them: what is read is what    *)
(* was stored, the backend implements FifoStore, and a blob that the table *)
(* still records is found, but for the exceptions HiddenExplained names.   *)
(***************************************************************************)
EXTENDS CircularBlobAccess, FileOffsetStore, WellFoundedInduction, TLAPS

---------------------------------------------------------------------------
\* Induction up to a number.

\* A set that contains 0 and successors contains all numbers: the smallest
\* number that it does not contain would have a predecessor in it.
LEMMA UpTo ==
    ASSUME NEW n \in Nat, NEW S, 0 \in S, \A k \in 0 .. n - 1 : k \in S => k + 1 \in S
    PROVE  \A k \in 0 .. n : k \in S
<1> SUFFICES ASSUME NEW k \in 0 .. n, k \notin S PROVE FALSE
    OBVIOUS
<1> DEFINE less == {x \in Nat \X Nat : x[1] < x[2]}
           Bad == {i \in 0 .. n : i \notin S}
<1>1. IsWellFoundedOn(less, Nat)
    BY NatLessThanWellFounded DEF OpToRel
<1>2. Bad \subseteq Nat /\ Bad # {}
    OBVIOUS
<1>3. \E x \in Bad : \A y \in Bad : <<y, x>> \notin less
    <2> HIDE DEF less, Bad
    <2> QED
        BY <1>1, <1>2, WFMin
<1>4. PICK x \in Bad : \A y \in Bad : <<y, x>> \notin less
    BY <1>3
<1>5. x # 0 /\ x - 1 \in 0 .. n - 1 /\ x - 1 \in Nat /\ x \in Nat
    BY <1>4
<1>6. x - 1 \in Bad
    BY <1>5
<1>7. <<x - 1, x>> \in less
    BY <1>5
<1> QED
    BY <1>4, <1>6, <1>7

---------------------------------------------------------------------------
\* Records and the rounds of fileOffsetStore.Put.

\* What the loop of Put starts with.
NewRecord(d, offset, length) ==
    [digest |-> d, attempt |-> 0, offset |-> offset, length |-> length]

\* The loop of Put: every round until the last one places the record that the
\* round before has left.
LEMMA Rounds ==
    ASSUME NEW t, NEW d, NEW offset, NEW length, NEW c, NEW n \in Nat
    PROVE  \E f :
              /\ f[0] = [table |-> t, record |-> NewRecord(d, offset, length), more |-> TRUE]
              /\ \A i \in 1 .. n :
                    f[i] = IF f[i - 1].more
                           THEN PutRecord(f[i - 1].table, f[i - 1].record, c) ELSE f[i - 1]
              /\ PutRounds(t, d, offset, length, c, n) = f[n]
<1> DEFINE new == NewRecord(d, offset, length)
           start == [table |-> t, record |-> new, more |-> TRUE]
           Step(r) == IF r.more THEN PutRecord(r.table, r.record, c) ELSE r
           Round(f, i) == IF i = 0 THEN start ELSE Step(f[i - 1])
           S == {k \in 0 .. n : \E f : f = [i \in 0 .. k |-> Round(f, i)]}
<1> HIDE DEF start, Step
<1>1. 0 \in S
    <2> DEFINE f == [i \in 0 .. 0 |-> start]
    <2>1. \A i \in 0 .. 0 : f[i] = Round(f, i)
        OBVIOUS
    <2>2. f = [i \in 0 .. 0 |-> f[i]]
        OBVIOUS
    <2>3. f = [i \in 0 .. 0 |-> Round(f, i)]
        BY <2>1, <2>2
    <2> HIDE DEF f
    <2>4. \E h : h = [i \in 0 .. 0 |-> Round(h, i)]
        BY <2>3
    <2> QED
        BY <2>4
<1>2. ASSUME NEW k \in 0 .. n - 1, k \in S PROVE k + 1 \in S
    <2>1. PICK f : f = [i \in 0 .. k |-> Round(f, i)]
        BY <1>2
    <2> DEFINE g == [i \in 0 .. k + 1 |-> IF i <= k THEN f[i] ELSE Step(f[k])]
    <2>2. \A i \in 0 .. k : g[i] = f[i]
        OBVIOUS
    <2>3. g[k + 1] = Step(f[k])
        OBVIOUS
    <2>4. g = [i \in 0 .. k + 1 |-> g[i]]
        OBVIOUS
    <2> HIDE DEF g
    <2>5. \A i \in 0 .. k : f[i] = Round(f, i)
        BY <2>1
    <2>6. ASSUME NEW i \in 0 .. k + 1 PROVE g[i] = Round(g, i)
        <3>1. CASE i = 0
            BY <2>2, <2>5, <3>1
        <3>2. CASE i \in 1 .. k
            <4>1. g[i] = Step(f[i - 1]) /\ g[i - 1] = f[i - 1]
                BY <2>2, <2>5, <3>2
            <4> QED
                BY <3>2, <4>1
        <3>3. CASE i = k + 1
            <4>1. g[k] = f[k] /\ i - 1 = k /\ i # 0
                BY <2>2, <3>3
            <4> QED
                BY <2>3, <3>3, <4>1
        <3> QED
            BY <3>1, <3>2, <3>3
    <2>7. g = [i \in 0 .. k + 1 |-> Round(g, i)]
        BY <2>4, <2>6
    <2>8. \E h : h = [i \in 0 .. k + 1 |-> Round(h, i)]
        BY <2>7
    <2> QED
        BY <2>8
<1>3. n \in S
    <2> HIDE DEF S
    <2> QED
        BY <1>1, <1>2, UpTo
<1>4. \E f : f = [i \in 0 .. n |-> Round(f, i)]
    BY <1>3
<1> DEFINE round == CHOOSE f : f = [i \in 0 .. n |-> Round(f, i)]
<1>5. round = [i \in 0 .. n |-> Round(round, i)]
    BY <1>4
<1>6. PutRounds(t, d, offset, length, c, n) = round[n]
    BY DEF PutRounds, NewRecord, start, Step
<1> HIDE DEF round
<1>7. \A i \in 0 .. n : round[i] = Round(round, i)
    BY <1>5
<1>8. round[0] = start /\ \A i \in 1 .. n : round[i] = Step(round[i - 1])
    BY <1>7
<1> QED
    BY <1>6, <1>8 DEF start, Step

\* PutRounds by recursion on the number of rounds.
LEMMA FirstRound ==
    ASSUME NEW t, NEW d, NEW offset, NEW length, NEW c
    PROVE  PutRounds(t, d, offset, length, c, 0)
              = [table |-> t, record |-> NewRecord(d, offset, length), more |-> TRUE]
<1> DEFINE start == [table |-> t, record |-> NewRecord(d, offset, length), more |-> TRUE]
<1>1. 0 \in Nat
    OBVIOUS
<1>2. \E f : f[0] = start /\ PutRounds(t, d, offset, length, c, 0) = f[0]
    BY <1>1, Rounds
<1> HIDE DEF start
<1>3. PutRounds(t, d, offset, length, c, 0) = start
    BY <1>2
<1> QED
    BY <1>3 DEF start

LEMMA NextRound ==
    ASSUME NEW t, NEW d, NEW offset, NEW length, NEW c, NEW n \in Nat
    PROVE  LET before == PutRounds(t, d, offset, length, c, n)
           IN  PutRounds(t, d, offset, length, c, n + 1)
                  = IF before.more THEN PutRecord(before.table, before.record, c) ELSE before
<1> DEFINE start == [table |-> t, record |-> NewRecord(d, offset, length), more |-> TRUE]
           Step(r) == IF r.more THEN PutRecord(r.table, r.record, c) ELSE r
<1>1. n + 1 \in Nat
    OBVIOUS
<1>2. \E f : f[0] = start /\ (\A i \in 1 .. n : f[i] = Step(f[i - 1])) /\ PutRounds(t, d, offset, length, c, n) = f[n]
    BY Rounds
<1>3. \E f : f[0] = start /\ (\A i \in 1 .. n + 1 : f[i] = Step(f[i - 1]))
             /\ PutRounds(t, d, offset, length, c, n + 1) = f[n + 1]
    BY <1>1, Rounds
<1> HIDE DEF start, Step
<1>4. PICK f : f[0] = start /\ (\A i \in 1 .. n : f[i] = Step(f[i - 1])) /\ PutRounds(t, d, offset, length, c, n) = f[n]
    BY <1>2
<1>5. PICK g : g[0] = start /\ (\A i \in 1 .. n + 1 : g[i] = Step(g[i - 1]))
               /\ PutRounds(t, d, offset, length, c, n + 1) = g[n + 1]
    BY <1>3
<1> DEFINE S == {i \in 0 .. n : f[i] = g[i]}
<1>6. 0 \in S
    BY <1>4, <1>5
<1>7. ASSUME NEW k \in 0 .. n - 1, k \in S PROVE k + 1 \in S
    <2>1. k + 1 \in 1 .. n /\ k + 1 \in 1 .. n + 1 /\ (k + 1) - 1 = k
        OBVIOUS
    <2>2. f[k + 1] = Step(f[k]) /\ g[k + 1] = Step(g[k])
        BY <1>4, <1>5, <2>1
    <2> QED
        BY <1>7, <2>1, <2>2
<1>8. f[n] = g[n]
    <2> HIDE DEF S
    <2>1. n \in S
        BY <1>6, <1>7, UpTo
    <2> QED
        BY <2>1 DEF S
<1>9. g[n + 1] = Step(g[n])
    <2>1. n + 1 \in 1 .. n + 1 /\ (n + 1) - 1 = n
        OBVIOUS
    <2> QED
        BY <1>5, <2>1
<1> QED
    BY <1>4, <1>5, <1>8, <1>9 DEF Step

\* The slot of a record exists.
LEMMA SlotExists ==
    ASSUME NEW r \in Record
    PROVE  Slot(r) \in Slots
BY OffsetTableAssumption DEF Record, Slot

\* A record that is displaced, or gives way, to its next slot.
Pushed(r) == [r EXCEPT !.attempt = @ + 1]

\* What a round of Put may do.
PutCase(t, r, c, p) ==
    LET slot == Slot(r) old == t[slot] IN
    \/ /\ Overwritable(c, old, slot)
       /\ p.table = [t EXCEPT ![slot] = r] /\ p.record = r /\ p.more = FALSE
    \/ /\ ~Overwritable(c, old, slot) /\ old.offset <= r.offset
       /\ p.table = [t EXCEPT ![slot] = r] /\ p.record = Pushed(old) /\ p.more = TRUE
    \/ /\ ~Overwritable(c, old, slot) /\ ~(old.offset <= r.offset)
       /\ p.table = t /\ p.record = r /\ p.more = FALSE
    \/ /\ ~Overwritable(c, old, slot) /\ ~(old.offset <= r.offset) /\ r.attempt < maximumIterations - 1
       /\ p.table = t /\ p.record = Pushed(r) /\ p.more = TRUE

Table == [Slots -> Record]

\* putRecord does one of them.
LEMMA PutRecordCases ==
    ASSUME NEW t \in Table, NEW r \in Record, NEW c
    PROVE  PutCase(t, r, c, PutRecord(t, r, c))
<1>1. r.attempt \in Nat /\ maximumIterations \in Nat
    BY OffsetTableAssumption DEF Record, Attempts
<1> QED
    BY <1>1 DEF PutCase, PutRecord, Pushed

\* A pushed record has one attempt more, and is otherwise the same.
LEMMA PushedFacts ==
    ASSUME NEW r \in Record, r.attempt < maximumIterations - 1
    PROVE  /\ Pushed(r) \in Record
           /\ Pushed(r).attempt = r.attempt + 1
           /\ Pushed(r).digest = r.digest /\ Pushed(r).offset = r.offset /\ Pushed(r).length = r.length
BY OffsetTableAssumption DEF Record, Attempts, Pushed

\* What a round leaves is again a table and a record.
LEMMA RoundType ==
    ASSUME NEW t \in Table, NEW r \in Record, NEW c, NEW p, PutCase(t, r, c, p)
    PROVE  p.table \in Table /\ p.record \in Record /\ p.more \in BOOLEAN
<1>1. Slot(r) \in Slots /\ t[Slot(r)] \in Record
    BY SlotExists DEF Table
<1>2. ~Overwritable(c, t[Slot(r)], Slot(r)) => t[Slot(r)].attempt < maximumIterations - 1
    BY <1>1, OffsetTableAssumption DEF Overwritable, Record, Attempts
<1>3. [t EXCEPT ![Slot(r)] = r] \in Table
    BY <1>1 DEF Table
<1> QED
    BY <1>1, <1>2, <1>3, PushedFacts DEF PutCase

\* What a record says of a blob, whichever slot it is in.
Entry(r) == CacheEntry(r.digest, r.offset, r.length)

\* Put moves records around, but all that the table says afterwards it said
\* before, or it is about the new blob.
LEMMA RoundsKeepEntries ==
    ASSUME NEW t \in Table, NEW d \in Digests, NEW offset \in UInt64, NEW length \in Nat,
           NEW c, NEW n \in Nat, NEW K,
           \A s \in Slots : Entry(t[s]) \in K, CacheEntry(d, offset, length) \in K
    PROVE  LET after == PutRounds(t, d, offset, length, c, n).table
           IN  after \in Table /\ \A s \in Slots : Entry(after[s]) \in K
<1> DEFINE Kept(p) ==
              /\ p.table \in Table /\ p.record \in Record /\ p.more \in BOOLEAN
              /\ Entry(p.record) \in K /\ \A s \in Slots : Entry(p.table[s]) \in K
<1>1. PICK f :
         /\ f[0] = [table |-> t, record |-> NewRecord(d, offset, length), more |-> TRUE]
         /\ \A i \in 1 .. n :
               f[i] = IF f[i - 1].more
                      THEN PutRecord(f[i - 1].table, f[i - 1].record, c) ELSE f[i - 1]
         /\ PutRounds(t, d, offset, length, c, n) = f[n]
    BY Rounds
<1>2. Kept(f[0])
    <2>1. NewRecord(d, offset, length) \in Record
        BY OffsetTableAssumption DEF NewRecord, Record, Attempts
    <2>2. Entry(NewRecord(d, offset, length)) = CacheEntry(d, offset, length)
        BY DEF Entry, NewRecord
    <2> QED
        BY <1>1, <2>1, <2>2
<1>3. ASSUME NEW k \in 0 .. n - 1, Kept(f[k]) PROVE Kept(f[k + 1])
    <2>1. f[k + 1] = IF f[k].more THEN PutRecord(f[k].table, f[k].record, c) ELSE f[k]
        <3>1. k + 1 \in 1 .. n /\ (k + 1) - 1 = k
            OBVIOUS
        <3> QED
            BY <1>1, <3>1
    <2>2. CASE ~f[k].more
        BY <1>3, <2>1, <2>2
    <2>3. CASE f[k].more
        <3> DEFINE u == f[k].table
                   r == f[k].record
                   p == f[k + 1]
        <3>1. u \in Table /\ r \in Record /\ p = PutRecord(u, r, c)
            BY <1>3, <2>1, <2>3
        <3>2. PutCase(u, r, c, p)
            BY <3>1, PutRecordCases
        <3>3. p.table \in Table /\ p.record \in Record /\ p.more \in BOOLEAN
            BY <3>1, <3>2, RoundType
        <3>4. Slot(r) \in Slots /\ u[Slot(r)] \in Record /\ Entry(u[Slot(r)]) \in K /\ Entry(r) \in K
            BY <1>3, <3>1, SlotExists DEF Table
        <3>5. \A x \in Record : x.attempt < maximumIterations - 1 => Entry(Pushed(x)) = Entry(x)
            BY PushedFacts DEF Entry
        <3>6. ~Overwritable(c, u[Slot(r)], Slot(r)) => u[Slot(r)].attempt < maximumIterations - 1
            BY <3>4, OffsetTableAssumption DEF Overwritable, Record, Attempts
        <3>7. Entry(p.record) \in K
            BY <3>1, <3>2, <3>4, <3>5, <3>6 DEF PutCase
        <3>8. p.table \in {u, [u EXCEPT ![Slot(r)] = r]}
            BY <3>2 DEF PutCase
        <3>9. \A s \in Slots : Entry(u[s]) \in K
            BY <1>3
        <3> HIDE DEF u, r, p
        <3>10. \A s \in Slots : Entry(p.table[s]) \in K
            BY <3>1, <3>4, <3>8, <3>9 DEF Table
        <3> QED
            BY <3>3, <3>7, <3>10 DEF p
    <2> QED
        BY <2>2, <2>3
<1> DEFINE S == {i \in 0 .. n : Kept(f[i])}
<1>4. n \in S
    <2>1. 0 \in S /\ \A k \in 0 .. n - 1 : k \in S => k + 1 \in S
        BY <1>2, <1>3
    <2> HIDE DEF S
    <2> QED
        BY <2>1, UpTo
<1> QED
    BY <1>1, <1>4

---------------------------------------------------------------------------
\* The order of the records of a digest.

\* A record in a slot where it can be.
Proper(t, s) == Slot(t[s]) = s

\* Records with fewer attempts are newer, unless they are known to be late.
Sorted(t, L) ==
    \A s1, s2 \in Slots :
        /\ Proper(t, s1) /\ Proper(t, s2)
        /\ t[s1].digest = t[s2].digest
        /\ t[s1].attempt < t[s2].attempt /\ t[s1].offset < t[s2].offset
        => Entry(t[s1]) \in L

\* The same for a record that still needs a place.
CarrySorted(t, r, L) ==
    \A s \in Slots : Proper(t, s) /\ t[s].digest = r.digest =>
        /\ t[s].attempt < r.attempt /\ t[s].offset < r.offset => Entry(t[s]) \in L
        /\ t[s].attempt >= r.attempt /\ t[s].offset > r.offset => Entry(r) \in L

\* A round keeps the order: the record that is placed has the order, and so has the one
\* that is pushed on, whatever is overwritten.
LEMMA RoundSorted ==
    ASSUME NEW t \in Table, NEW r \in Record, NEW c, NEW p, PutCase(t, r, c, p), NEW L,
           Sorted(t, L), CarrySorted(t, r, L)
    PROVE  Sorted(p.table, L) /\ (p.more => CarrySorted(p.table, p.record, L))
<1> DEFINE slot == Slot(r)
           old == t[slot]
           u == [t EXCEPT ![slot] = r]
<1>1. slot \in Slots /\ old \in Record
    BY SlotExists DEF Table
<1>2. \A x \in Record : x.attempt \in Nat /\ x.offset \in Nat
    BY OffsetTableAssumption DEF Record, Attempts, UInt64
<1>3. \A s \in Slots : t[s] \in Record
    BY DEF Table
<1>4. u \in Table /\ u[slot] = r /\ \A s \in Slots \ {slot} : u[s] = t[s]
    BY <1>1 DEF Table
<1>5. \A s \in Slots : Proper(t, s) /\ t[s].digest = r.digest /\ t[s].attempt = r.attempt => s = slot
    BY DEF Proper, Slot
<1>6. Sorted(u, L)
    <2> SUFFICES ASSUME NEW s1 \in Slots, NEW s2 \in Slots, Proper(u, s1), Proper(u, s2),
                        u[s1].digest = u[s2].digest,
                        u[s1].attempt < u[s2].attempt, u[s1].offset < u[s2].offset
                 PROVE  Entry(u[s1]) \in L
        BY DEF Sorted
    <2>1. CASE s1 # slot /\ s2 # slot
        BY <1>4, <2>1 DEF Sorted, Proper
    <2>2. CASE s1 = slot /\ s2 # slot
        <3>1. u[s2] = t[s2] /\ u[s1] = r /\ Proper(t, s2)
            BY <1>4, <2>2 DEF Proper
        <3>2. t[s2].attempt >= r.attempt /\ t[s2].offset > r.offset
            BY <1>2, <1>3, <3>1
        <3> QED
            BY <3>1, <3>2 DEF CarrySorted
    <2>3. CASE s1 # slot /\ s2 = slot
        <3>1. u[s1] = t[s1] /\ u[s2] = r /\ Proper(t, s1)
            BY <1>4, <2>3 DEF Proper
        <3> QED
            BY <3>1 DEF CarrySorted
    <2>4. CASE s1 = slot /\ s2 = slot
        BY <1>2, <1>4, <2>4
    <2> QED
        BY <2>1, <2>2, <2>3, <2>4
<1>7. ASSUME ~Overwritable(c, old, slot), old.offset <= r.offset
      PROVE  CarrySorted(u, Pushed(old), L)
    <2> DEFINE q == Pushed(old)
    <2>1. old.attempt < maximumIterations - 1 /\ Proper(t, slot)
        BY <1>1, <1>7, OffsetTableAssumption DEF Overwritable, Record, Attempts, Proper
    <2>2. q.attempt = old.attempt + 1 /\ q.digest = old.digest /\ q.offset = old.offset /\ Entry(q) = Entry(old)
        BY <1>1, <2>1, PushedFacts DEF Entry
    <2> HIDE DEF q
    <2> SUFFICES ASSUME NEW s \in Slots, Proper(u, s), u[s].digest = old.digest
                 PROVE  /\ u[s].attempt < q.attempt /\ u[s].offset < q.offset => Entry(u[s]) \in L
                        /\ u[s].attempt >= q.attempt /\ u[s].offset > q.offset => Entry(q) \in L
        BY <2>2 DEF CarrySorted, q
    <2>3. CASE s = slot
        <3>1. u[s] = r
            BY <1>4, <2>3
        <3>2. r.attempt >= q.attempt /\ r.offset > q.offset => Entry(old) \in L
            <4>1. r.attempt >= q.attempt /\ r.offset > q.offset => old.attempt < r.attempt /\ old.offset < r.offset
                BY <1>1, <1>2, <2>2
            <4> QED
                BY <1>1, <2>1, <3>1, <4>1 DEF CarrySorted
        <3>3. ~(r.offset < q.offset)
            BY <1>1, <1>2, <1>7, <2>2
        <3> QED
            BY <2>2, <3>1, <3>2, <3>3
    <2>4. CASE s # slot
        <3>1. u[s] = t[s] /\ Proper(t, s) /\ t[s] \in Record
            BY <1>3, <1>4, <2>4 DEF Proper
        <3>2. t[s].attempt # old.attempt
            BY <2>1, <2>4, <3>1 DEF Proper, Slot
        <3>3. t[s].attempt < q.attempt => t[s].attempt < old.attempt
            BY <1>1, <1>2, <2>2, <3>1, <3>2
        <3>4. t[s].attempt >= q.attempt => old.attempt < t[s].attempt
            BY <1>1, <1>2, <2>2, <3>1
        <3>5. t[s].offset > q.offset => old.offset < t[s].offset
            BY <1>1, <1>2, <2>2, <3>1
        <3> QED
            BY <1>1, <2>1, <2>2, <3>1, <3>3, <3>4, <3>5 DEF Sorted
    <2> QED
        BY <2>3, <2>4
<1>8. ASSUME ~Overwritable(c, old, slot), ~(old.offset <= r.offset), r.attempt < maximumIterations - 1
      PROVE  CarrySorted(t, Pushed(r), L)
    <2> DEFINE q == Pushed(r)
    <2>1. q.attempt = r.attempt + 1 /\ q.digest = r.digest /\ q.offset = r.offset /\ Entry(q) = Entry(r)
        BY <1>8, PushedFacts DEF Entry
    <2> HIDE DEF q
    <2> SUFFICES ASSUME NEW s \in Slots, Proper(t, s), t[s].digest = r.digest
                 PROVE  /\ t[s].attempt < q.attempt /\ t[s].offset < q.offset => Entry(t[s]) \in L
                        /\ t[s].attempt >= q.attempt /\ t[s].offset > q.offset => Entry(q) \in L
        BY <2>1 DEF CarrySorted, q
    <2>2. t[s].attempt = r.attempt => ~(t[s].offset < r.offset)
        BY <1>1, <1>2, <1>5, <1>8
    <2>3. t[s].attempt < q.attempt => t[s].attempt < r.attempt \/ t[s].attempt = r.attempt
        BY <1>2, <1>3, <2>1
    <2>4. t[s].attempt >= q.attempt => t[s].attempt >= r.attempt
        BY <1>2, <1>3, <2>1
    <2> QED
        BY <2>1, <2>2, <2>3, <2>4 DEF CarrySorted
<1> QED
    BY <1>6, <1>7, <1>8 DEF PutCase

\* So does the whole of Put, if the new record has the order when it starts.
LEMMA RoundsSorted ==
    ASSUME NEW t \in Table, NEW d \in Digests, NEW offset \in UInt64, NEW length \in Nat,
           NEW c, NEW n \in Nat, NEW L,
           Sorted(t, L), CarrySorted(t, NewRecord(d, offset, length), L)
    PROVE  Sorted(PutRounds(t, d, offset, length, c, n).table, L)
<1> DEFINE Good(p) ==
              /\ p.table \in Table /\ p.record \in Record /\ p.more \in BOOLEAN
              /\ Sorted(p.table, L) /\ (p.more => CarrySorted(p.table, p.record, L))
<1>1. PICK f :
         /\ f[0] = [table |-> t, record |-> NewRecord(d, offset, length), more |-> TRUE]
         /\ \A i \in 1 .. n :
               f[i] = IF f[i - 1].more
                      THEN PutRecord(f[i - 1].table, f[i - 1].record, c) ELSE f[i - 1]
         /\ PutRounds(t, d, offset, length, c, n) = f[n]
    BY Rounds
<1>2. Good(f[0])
    <2>1. NewRecord(d, offset, length) \in Record
        BY OffsetTableAssumption DEF NewRecord, Record, Attempts
    <2> QED
        BY <1>1, <2>1
<1>3. ASSUME NEW k \in 0 .. n - 1, Good(f[k]) PROVE Good(f[k + 1])
    <2>1. f[k + 1] = IF f[k].more THEN PutRecord(f[k].table, f[k].record, c) ELSE f[k]
        <3>1. k + 1 \in 1 .. n /\ (k + 1) - 1 = k
            OBVIOUS
        <3> QED
            BY <1>1, <3>1
    <2>2. CASE ~f[k].more
        BY <1>3, <2>1, <2>2
    <2>3. CASE f[k].more
        <3>1. PutCase(f[k].table, f[k].record, c, f[k + 1])
            BY <1>3, <2>1, <2>3, PutRecordCases
        <3> QED
            BY <1>3, <2>3, <3>1, RoundType, RoundSorted
    <2> QED
        BY <2>2, <2>3
<1> DEFINE S == {i \in 0 .. n : Good(f[i])}
<1>4. n \in S
    <2>1. 0 \in S /\ \A k \in 0 .. n - 1 : k \in S => k + 1 \in S
        BY <1>2, <1>3
    <2> HIDE DEF S
    <2> QED
        BY <2>1, UpTo
<1> QED
    BY <1>1, <1>4

---------------------------------------------------------------------------
\* What is looked at before a record.

\* In each slot that a lookup visits before it gets to r, there is a record that is at
\* least as new, in a slot where it can be; the slots in D are exempt.
Ahead(t, r, D) ==
    \A i \in 0 .. r.attempt - 1 :
        LET s == Hash[<<r.digest, i>>]
        IN  s \in D \/ (Proper(t, s) /\ t[s].offset >= r.offset)

Paths(t, D) == \A s \in Slots : Proper(t, s) => Ahead(t, t[s], D)

\* It stays so if a slot is overwritten by a newer record, or is exempt.
LEMMA AheadOverwritten ==
    ASSUME NEW t \in Table, NEW r \in Record, NEW x \in Record, NEW D, Ahead(t, x, D),
           Proper(t, Slot(r)) => t[Slot(r)].offset <= r.offset \/ Slot(r) \in D
    PROVE  Ahead([t EXCEPT ![Slot(r)] = r], x, D)
<1> DEFINE slot == Slot(r)
           u == [t EXCEPT ![slot] = r]
<1>1. slot \in Slots
    BY SlotExists
<1>2. u[slot] = r /\ \A s \in Slots \ {slot} : u[s] = t[s]
    BY <1>1 DEF Table
<1>3. \A y \in Record : y.offset \in Nat /\ y.attempt \in Attempts
    BY CursorsAssumption DEF Record, UInt64
<1> SUFFICES ASSUME NEW i \in 0 .. x.attempt - 1, Hash[<<x.digest, i>>] \notin D
             PROVE  Proper(u, Hash[<<x.digest, i>>]) /\ u[Hash[<<x.digest, i>>]].offset >= x.offset
    BY DEF Ahead
<1> DEFINE s == Hash[<<x.digest, i>>]
<1>4. s \in Slots
    BY <1>3, OffsetTableAssumption DEF Record, Attempts
<1>5. Proper(t, s) /\ t[s].offset >= x.offset
    BY DEF Ahead
<1>6. CASE s = slot
    <2>1. t[slot] \in Record /\ t[slot].offset <= r.offset
        BY <1>1, <1>5, <1>6 DEF Table
    <2> QED
        BY <1>2, <1>3, <1>5, <1>6, <2>1 DEF Proper
<1>7. CASE s # slot
    BY <1>2, <1>4, <1>5, <1>7 DEF Proper
<1> QED
    BY <1>6, <1>7

\* A record that goes on to its next slot has a newer one before it.
LEMMA AheadPushed ==
    ASSUME NEW t \in Table, NEW x \in Record, NEW D, Ahead(t, x, D),
           x.attempt < maximumIterations - 1,
           Proper(t, Slot(x)), t[Slot(x)].offset >= x.offset
    PROVE  Ahead(t, Pushed(x), D)
<1>1. Pushed(x).attempt = x.attempt + 1 /\ Pushed(x).digest = x.digest /\ Pushed(x).offset = x.offset
    BY PushedFacts
<1>2. x.attempt \in Nat
    BY OffsetTableAssumption DEF Record, Attempts
<1> SUFFICES ASSUME NEW i \in 0 .. x.attempt
             PROVE  LET s == Hash[<<x.digest, i>>]
                    IN  s \in D \/ (Proper(t, s) /\ t[s].offset >= x.offset)
    BY <1>1, <1>2 DEF Ahead
<1>3. CASE i = x.attempt
    BY <1>3 DEF Slot
<1>4. CASE i # x.attempt
    <2>1. i \in 0 .. x.attempt - 1
        BY <1>2, <1>4
    <2> QED
        BY <2>1 DEF Ahead
<1> QED
    BY <1>3, <1>4

\* A round keeps all this: a record is overwritten only if it is no newer, no longer
\* valid and thus older, or in the last of its slots.
LEMMA RoundPaths ==
    ASSUME NEW t \in Table, NEW r \in Record, NEW c, NEW p, PutCase(t, r, c, p), NEW D,
           Paths(t, D), Ahead(t, r, D),
           ~ContainsRecord(c, t[Slot(r)]) => t[Slot(r)].offset <= r.offset,
           /\ ContainsRecord(c, t[Slot(r)]) /\ t[Slot(r)].attempt >= maximumIterations - 1
           /\ t[Slot(r)].offset > r.offset
           => Slot(r) \in D
    PROVE  Paths(p.table, D) /\ (p.more => Ahead(p.table, p.record, D))
<1> DEFINE slot == Slot(r)
           old == t[slot]
           u == [t EXCEPT ![slot] = r]
<1>1. slot \in Slots /\ old \in Record /\ u \in Table /\ u[slot] = r /\ \A s \in Slots \ {slot} : u[s] = t[s]
    BY SlotExists DEF Table
<1>2. r.offset \in Nat /\ old.offset \in Nat /\ r.attempt \in Nat /\ old.attempt \in Nat
    BY <1>1, CursorsAssumption, OffsetTableAssumption DEF Record, UInt64, Attempts
<1>3. ASSUME Overwritable(c, old, slot) \/ old.offset <= r.offset
      PROVE  Paths(u, D) /\ (Proper(t, slot) => old.offset <= r.offset \/ slot \in D)
    <2>1. Proper(t, slot) => old.offset <= r.offset \/ slot \in D
        BY <1>2, <1>3 DEF Overwritable, Proper
    <2> SUFFICES ASSUME NEW s \in Slots, Proper(u, s) PROVE Ahead(u, u[s], D)
        BY <2>1 DEF Paths
    <2>2. CASE s = slot
        <3>1. Ahead(u, r, D)
            BY <2>1, AheadOverwritten
        <3> QED
            BY <1>1, <2>2, <3>1
    <2>3. CASE s # slot
        <3>1. u[s] = t[s] /\ t[s] \in Record /\ Ahead(t, t[s], D)
            BY <1>1, <2>3 DEF Paths, Proper, Table
        <3>2. Ahead(u, t[s], D)
            BY <2>1, <3>1, AheadOverwritten
        <3> QED
            BY <3>1, <3>2
    <2> QED
        BY <2>2, <2>3
<1>4. CASE Overwritable(c, old, slot)
    BY <1>3, <1>4 DEF PutCase
<1>5. CASE ~Overwritable(c, old, slot) /\ old.offset <= r.offset
    <2>1. old.attempt < maximumIterations - 1 /\ Proper(t, slot)
        BY <1>2, <1>5, OffsetTableAssumption DEF Overwritable, Proper
    <2>2. Ahead(t, old, D)
        BY <1>1, <2>1 DEF Paths
    <2>3. Ahead(u, old, D)
        BY <1>1, <1>3, <1>5, <2>2, AheadOverwritten
    <2>4. Slot(old) = slot /\ Proper(u, slot) /\ u[slot].offset >= old.offset
        BY <1>1, <1>2, <1>5, <2>1 DEF Proper
    <2>5. Ahead(u, Pushed(old), D)
        BY <1>1, <2>1, <2>3, <2>4, AheadPushed
    <2> QED
        BY <1>3, <1>5, <2>5 DEF PutCase
<1>6. CASE ~Overwritable(c, old, slot) /\ ~(old.offset <= r.offset)
    <2>1. Proper(t, slot) /\ t[Slot(r)].offset >= r.offset
        BY <1>2, <1>6 DEF Overwritable, Proper
    <2>2. r.attempt < maximumIterations - 1 => Ahead(t, Pushed(r), D)
        BY <2>1, AheadPushed
    <2> QED
        BY <1>6, <2>2 DEF PutCase
<1> QED
    BY <1>4, <1>5, <1>6

---------------------------------------------------------------------------
\* The newest record.

\* A round leaves a record alone that is in the first of its slots and newer than
\* the record that needs a place.
LEMMA RoundKeepsTop ==
    ASSUME NEW t \in Table, NEW r \in Record, NEW c, NEW p, PutCase(t, r, c, p),
           NEW top \in Record, top.attempt = 0, ContainsRecord(c, top),
           t[Slot(top)] = top, r.offset < top.offset
    PROVE  p.table[Slot(top)] = top /\ (p.more => p.record.offset < top.offset)
<1> DEFINE slot == Slot(r)
           old == t[slot]
<1>1. slot \in Slots /\ old \in Record /\ Slot(top) \in Slots
    BY SlotExists DEF Table
<1>2. r.offset \in Nat /\ top.offset \in Nat /\ old.offset \in Nat
    BY <1>1, CursorsAssumption DEF Record, UInt64
<1>3. slot = Slot(top) => ~Overwritable(c, old, slot) /\ ~(old.offset <= r.offset)
    <2> SUFFICES ASSUME slot = Slot(top) PROVE ~Overwritable(c, top, slot) /\ ~(top.offset <= r.offset)
        OBVIOUS
    <2>1. ~(top.attempt >= maximumIterations - 1)
        BY OffsetTableAssumption
    <2> QED
        BY <1>2, <2>1 DEF Overwritable
<1>4. p.table[Slot(top)] = top
    BY <1>1, <1>3 DEF PutCase, Table
<1>5. ~Overwritable(c, old, slot) => Pushed(old).offset = old.offset
    BY <1>1, PushedFacts, OffsetTableAssumption DEF Overwritable, Record, Attempts
<1>6. r.attempt < maximumIterations - 1 => Pushed(r).offset = r.offset
    BY PushedFacts
<1>7. ASSUME p.more PROVE p.record.offset < top.offset
    BY <1>2, <1>5, <1>6, <1>7 DEF PutCase
<1> QED
    BY <1>4, <1>7

\* So does the whole of Put; and if the new record is the newest of all, it is in
\* its place afterwards.
LEMMA RoundsKeepTop ==
    ASSUME NEW t \in Table, NEW d \in Digests, NEW offset \in UInt64, NEW length \in Nat,
           NEW c, NEW n \in Nat, n >= 1,
           NEW top \in Record, top.attempt = 0, ContainsRecord(c, top),
           \/ t[Slot(top)] = top /\ offset < top.offset
           \/ top = NewRecord(d, offset, length) /\ \A s \in Slots : t[s].offset < offset
    PROVE  PutRounds(t, d, offset, length, c, n).table[Slot(top)] = top
<1> DEFINE new == NewRecord(d, offset, length)
           Good(p) ==
              /\ p.table \in Table /\ p.record \in Record /\ p.more \in BOOLEAN
              /\ p.table[Slot(top)] = top /\ (p.more => p.record.offset < top.offset)
<1>1. PICK f :
         /\ f[0] = [table |-> t, record |-> NewRecord(d, offset, length), more |-> TRUE]
         /\ \A i \in 1 .. n :
               f[i] = IF f[i - 1].more
                      THEN PutRecord(f[i - 1].table, f[i - 1].record, c) ELSE f[i - 1]
         /\ PutRounds(t, d, offset, length, c, n) = f[n]
    BY Rounds
<1>2. new \in Record /\ new.offset = offset
    BY OffsetTableAssumption DEF NewRecord, Record, Attempts
<1>3. Good(f[1])
    <2>1. 1 \in 1 .. n /\ 1 - 1 = 0
        OBVIOUS
    <2>2. f[1] = PutRecord(t, new, c)
        BY <1>1, <2>1
    <2>3. PutCase(t, new, c, f[1])
        BY <1>2, <2>2, PutRecordCases
    <2>4. f[1].table \in Table /\ f[1].record \in Record /\ f[1].more \in BOOLEAN
        BY <1>2, <2>3, RoundType
    <2> HIDE DEF new
    <2>5. CASE t[Slot(top)] = top /\ offset < top.offset
        BY <1>2, <2>3, <2>4, <2>5, RoundKeepsTop
    <2>6. CASE top = new /\ \A s \in Slots : t[s].offset < offset
        <3> DEFINE old == t[Slot(new)]
        <3>1. Slot(new) \in Slots /\ old \in Record /\ old.offset < offset
            BY <1>2, <2>6, SlotExists DEF Table
        <3>2. old.offset \in Nat /\ offset \in Nat
            BY <3>1, CursorsAssumption DEF Record, UInt64
        <3>3. old.offset <= offset
            BY <3>1, <3>2
        <3>4. f[1].table = [t EXCEPT ![Slot(new)] = new]
            BY <1>2, <2>3, <3>3 DEF PutCase
        <3>5. f[1].table[Slot(top)] = top
            BY <2>6, <3>1, <3>4 DEF Table
        <3>6. ~Overwritable(c, old, Slot(new)) => Pushed(old).offset = old.offset
            BY <3>1, PushedFacts, OffsetTableAssumption DEF Overwritable, Record, Attempts
        <3>7. f[1].more => f[1].record.offset < top.offset
            BY <1>2, <2>3, <2>6, <3>1, <3>3, <3>6 DEF PutCase
        <3> QED
            BY <2>4, <3>5, <3>7
    <2> QED
        BY <2>5, <2>6 DEF new
<1>4. ASSUME NEW k \in 1 .. n - 1, Good(f[k]) PROVE Good(f[k + 1])
    <2>1. f[k + 1] = IF f[k].more THEN PutRecord(f[k].table, f[k].record, c) ELSE f[k]
        <3>1. k + 1 \in 1 .. n /\ (k + 1) - 1 = k
            OBVIOUS
        <3> QED
            BY <1>1, <3>1
    <2>2. CASE ~f[k].more
        BY <1>4, <2>1, <2>2
    <2>3. CASE f[k].more
        <3>1. PutCase(f[k].table, f[k].record, c, f[k + 1])
            BY <1>4, <2>1, <2>3, PutRecordCases
        <3> QED
            BY <1>4, <2>3, <3>1, RoundType, RoundKeepsTop
    <2> QED
        BY <2>2, <2>3
<1> DEFINE S == {i \in 0 .. n : i = 0 \/ Good(f[i])}
<1>5. n \in S
    <2>1. ASSUME NEW k \in 0 .. n - 1, k \in S PROVE k + 1 \in S
        <3>1. Good(f[k + 1])
            <4>1. CASE k = 0
                BY <1>3, <4>1
            <4>2. CASE k # 0
                <5>1. k \in 1 .. n - 1 /\ Good(f[k])
                    BY <2>1, <4>2
                <5> QED
                    BY <1>4, <5>1
            <4> QED
                BY <4>1, <4>2
        <3> QED
            BY <3>1
    <2>2. 0 \in S
        OBVIOUS
    <2> HIDE DEF S
    <2> QED
        BY <2>1, <2>2, UpTo
<1> QED
    BY <1>1, <1>5

---------------------------------------------------------------------------
\* Cursors that are away from the end of the range of offsets.
Roomy(c) ==
    /\ c \in CursorPair /\ c.Read <= c.Write
    /\ c.Write + dataSize < Width /\ c.Write - c.Read <= dataSize

\* Numbers behind them.
LEMMA RoomyFacts ==
    ASSUME NEW c, Roomy(c)
    PROVE  /\ c.Read \in Nat /\ c.Write \in Nat /\ c.Read <= c.Write
           /\ dataSize \in Nat /\ dataSize > 0 /\ Width \in Nat
           /\ c.Write + dataSize < Width /\ c.Write < Width /\ c.Write - c.Read <= dataSize
BY CursorsAssumption DEF Roomy, CursorPair, UInt64

\* A blob takes up at least a byte.
LEMMA PositiveFacts ==
    ASSUME NEW size \in Nat
    PROVE  Positive(size) \in Nat /\ Positive(size) >= 1 /\ Positive(size) >= size
           /\ (size >= 1 => Positive(size) = size)
BY DEF Positive

\* fileStateStore.Allocate.
LEMMA FileAllocateFacts ==
    ASSUME NEW c, Roomy(c), NEW size \in Nat, c.Write + size + dataSize < Width
    PROVE  LET new == FileAllocate(c, size)
           IN  /\ Roomy(new) /\ new.Write = c.Write + size /\ c.Read <= new.Read
               /\ new.Read = c.Read \/ new.Read + dataSize = new.Write
<1> DEFINE w == c.Write + size
           new == FileAllocate(c, size)
<1>1. c.Read \in Nat /\ c.Write \in Nat /\ c.Read <= c.Write /\ dataSize \in Nat /\ dataSize > 0
      /\ Width \in Nat /\ c.Write - c.Read <= dataSize /\ w \in Nat /\ w < Width
    BY RoomyFacts
<1>2. Add(c.Write, size) = w /\ Add(c.Read, dataSize) = c.Read + dataSize /\ ~(c.Read > w)
    BY <1>1 DEF Add
<1>3. new = [Read |-> IF c.Read + dataSize < w THEN w - dataSize ELSE c.Read, Write |-> w]
    BY <1>2 DEF FileAllocate
<1>4. new.Write = w /\ new.Read = IF c.Read + dataSize < w THEN w - dataSize ELSE c.Read
    BY <1>3
<1> HIDE DEF w, new
<1>5. new.Read \in Nat /\ c.Read <= new.Read /\ new.Read <= w /\ w - new.Read <= dataSize
    BY <1>1, <1>4 DEF w
<1>6. new \in CursorPair
    BY <1>1, <1>3, <1>5, <1>4 DEF CursorPair, UInt64
<1>7. w = c.Write + size /\ w + dataSize < Width
    BY <1>1 DEF w
<1>8. new.Read = c.Read \/ new.Read + dataSize = w
    BY <1>1, <1>4
<1> QED
    BY <1>4, <1>5, <1>6, <1>7, <1>8 DEF Roomy, new

\* fileStateStore.Invalidate, of data that lies between the cursors.
LEMMA FileInvalidateFacts ==
    ASSUME NEW c, Roomy(c), NEW offset \in Nat, NEW size \in Nat,
           c.Read <= offset, offset + size <= c.Write
    PROVE  LET new == FileInvalidate(c, offset, size)
           IN  Roomy(new) /\ new.Write = c.Write /\ c.Read <= new.Read /\ new.Read = offset + size
<1> DEFINE r == offset + size
           new == FileInvalidate(c, offset, size)
<1>1. c.Read \in Nat /\ c.Write \in Nat /\ dataSize \in Nat /\ Width \in Nat /\ c.Write < Width
      /\ c.Write - c.Read <= dataSize /\ c.Write + dataSize < Width
    BY RoomyFacts
<1>2. r \in Nat /\ c.Read <= r /\ r <= c.Write /\ c.Write - r <= dataSize
    BY <1>1
<1>3. Add(offset, size) = r
    BY <1>1, <1>2 DEF Add
<1>4. new = [Read |-> r, Write |-> c.Write]
    BY <1>1, <1>2, <1>3 DEF FileInvalidate
<1> HIDE DEF r, new
<1>5. new \in CursorPair
    BY <1>1, <1>2, <1>4 DEF CursorPair, UInt64
<1>6. new.Read = r /\ new.Write = c.Write
    BY <1>4
<1> QED
    BY <1>1, <1>2, <1>5, <1>6 DEF Roomy, new, r

\* Data below the write cursor is valid until the read cursor passes its start.
LEMMA ContainsBelow ==
    ASSUME NEW c, Roomy(c), NEW offset \in Nat, NEW length \in Nat,
           offset + Positive(length) <= c.Write
    PROVE  Contains(c, offset, length) <=> c.Read <= offset
<1>1. c.Read \in Nat /\ c.Write \in Nat /\ c.Write < Width /\ Width \in Nat
    BY RoomyFacts
<1>2. Positive(length) \in Nat /\ Positive(length) >= 1
    BY PositiveFacts
<1>3. Add(offset, Positive(length)) = offset + Positive(length) /\ offset <= c.Write
    BY <1>1, <1>2 DEF Add
<1> QED
    BY <1>1, <1>3 DEF Contains

---------------------------------------------------------------------------
\* The offset store by itself: module FileOffsetStore.

\* What Get returns: a record that the cursors contain, in the slot of its digest
\* and attempt, behind records of others.
LEMMA TableGetFacts ==
    ASSUME NEW t \in Table, NEW c, NEW d \in Digests, NEW r \in TableGet(t, c, d)
    PROVE  \E a \in 0 .. maximumIterations - 2 :
              /\ Hash[<<d, a>>] \in Slots
              /\ r = t[Hash[<<d, a>>]] /\ r \in Record
              /\ r.digest = d /\ r.attempt = a /\ ContainsRecord(c, r)
              /\ \A b \in 0 .. a - 1 : ~IsHit(t, c, d, b + 1)
<1>1. PICK i \in 1 .. maximumIterations - 1 :
         /\ r = t[Hash[<<d, i - 1>>]] /\ IsHit(t, c, d, i)
         /\ \A j \in 1 .. i - 1 : GoesOn(t, c, d, j)
    BY DEF TableGet
<1> DEFINE a == i - 1
<1>2. a \in 0 .. maximumIterations - 2 /\ a \in Attempts
    BY OffsetTableAssumption DEF Attempts
<1>3. Hash[<<d, a>>] \in Slots
    BY <1>2, OffsetTableAssumption
<1>4. r \in Record /\ r.digest = d /\ r.attempt = a /\ ContainsRecord(c, r)
    BY <1>1, <1>3 DEF IsHit, Table
<1>5. \A b \in 0 .. a - 1 : b + 1 \in 1 .. i - 1
    OBVIOUS
<1>6. \A b \in 0 .. a - 1 : ~IsHit(t, c, d, b + 1)
    BY <1>1, <1>5 DEF GoesOn
<1> QED
    BY <1>1, <1>2, <1>3, <1>4, <1>6

\* In short, it is in some slot.
LEMMA FoundInSlot ==
    ASSUME NEW t \in Table, NEW c, NEW d \in Digests, NEW r \in TableGet(t, c, d)
    PROVE  \E s \in Slots : r = t[s] /\ r \in Record /\ r.digest = d /\ ContainsRecord(c, r)
<1>1. PICK a \in 0 .. maximumIterations - 2 :
         /\ Hash[<<d, a>>] \in Slots
         /\ r = t[Hash[<<d, a>>]] /\ r \in Record
         /\ r.digest = d /\ r.attempt = a /\ ContainsRecord(c, r)
         /\ \A b \in 0 .. a - 1 : ~IsHit(t, c, d, b + 1)
    BY TableGetFacts
<1> QED
    BY <1>1

---------------------------------------------------------------------------
\* The inductive invariant of the offset store.

\* Blobs are where they were allocated, each at an offset of its own.
BlobsAllocated ==
    /\ inFlight \cup puts \subseteq [digest : Digests, offset : UInt64, length : Nat]
    /\ \A b \in inFlight \cup puts :
          b.length = SizeBytes[b.digest] /\ b.offset + Positive(b.length) <= cursors.Write
    /\ \A x, y \in inFlight \cup puts : x.offset = y.offset => x = y
    /\ inFlight \cap puts = {}

\* The table says nothing but what Put was called for, or that it is empty.
EntriesPut ==
    \A s \in Slots : Entry(table[s]) \in puts \/ Entry(table[s]) = CacheEntry(NoDigest, 0, 0)

\* The newest blob, if its offset is not that of empty slots.
IsNewest(b) ==
    /\ b.offset > 0 /\ Contains(cursors, b.offset, b.length)
    /\ \A x \in puts : x.offset <= b.offset

\* It is in the first of its slots, unless a write has failed.
NewestInPlace ==
    failures = 0 => \A b \in puts : IsNewest(b) =>
        table[Hash[<<b.digest, 0>>]] = NewRecord(b.digest, b.offset, b.length)

OffsetInvariant ==
    /\ table \in Table /\ Roomy(cursors) /\ failures \in Nat
    /\ BlobsAllocated
    /\ EntriesPut
    /\ Sorted(table, late)
    /\ NewestInPlace

\* Sizes of blobs.
LEMMA SizeFacts ==
    ASSUME NEW d \in Digests
    PROVE  /\ SizeBytes[d] \in Nat /\ MaxWrite \in Nat /\ chunkSize \in Nat /\ chunkSize > 0
           /\ MaxWrite + SizeBytes[d] + chunkSize + dataSize < Width
BY OffsetTableAssumption, CursorsAssumption

\* An empty file.
LEMMA OffsetInit ==
    OffsetStoreInit => OffsetInvariant
<1> SUFFICES ASSUME OffsetStoreInit PROVE OffsetInvariant
    OBVIOUS
<1>1. table = EmptyTable
    BY DEF OffsetStoreInit
<1>2. ZeroRecord \in Record /\ Entry(ZeroRecord) = CacheEntry(NoDigest, 0, 0) /\ ZeroRecord.offset = 0
    BY OffsetTableAssumption, CursorsAssumption DEF ZeroRecord, Record, Attempts, UInt64, Entry, CacheEntry
<1> HIDE DEF ZeroRecord
<1>3. table \in Table /\ \A s \in Slots : table[s] = ZeroRecord
    BY <1>1, <1>2 DEF EmptyTable, Table
<1>4. Roomy(cursors)
    <2>1. cursors = [Read |-> 0, Write |-> 0]
        BY DEF OffsetStoreInit
    <2> QED
        BY <2>1, CursorsAssumption DEF Roomy, CursorPair, UInt64
<1>5. inFlight = {} /\ puts = {} /\ failures = 0
    BY DEF OffsetStoreInit
<1>6. EntriesPut
    BY <1>2, <1>3 DEF EntriesPut
<1>7. Sorted(table, late)
    BY <1>2, <1>3 DEF Sorted
<1> QED
    BY <1>3, <1>4, <1>5, <1>6, <1>7 DEF OffsetInvariant, BlobsAllocated, NewestInPlace

\* Cursors that move on make blobs invalid, never valid.
LEMMA CursorsMove ==
    ASSUME OffsetInvariant, UNCHANGED <<table, puts, late, failures>>, BlobsAllocated',
           Roomy(cursors'), cursors.Read <= cursors'.Read, cursors.Write <= cursors'.Write
    PROVE  OffsetInvariant'
<1> USE DEF OffsetInvariant
<1>1. EntriesPut' /\ Sorted(table, late)'
    BY DEF EntriesPut, Sorted, Proper
<1>2. ASSUME NEW b \in puts, IsNewest(b)' PROVE IsNewest(b)
    <2>1. b.offset \in Nat /\ b.length \in Nat /\ b.offset + Positive(b.length) <= cursors.Write
        BY DEF BlobsAllocated, UInt64
    <2>2. cursors.Read \in Nat /\ cursors.Write \in Nat /\ cursors'.Read \in Nat /\ cursors'.Write \in Nat
        BY RoomyFacts
    <2>3. b.offset + Positive(b.length) <= cursors'.Write
        BY <2>1, <2>2, PositiveFacts
    <2>4. cursors'.Read <= b.offset
        BY <1>2, <2>1, <2>3, ContainsBelow DEF IsNewest
    <2>5. Contains(cursors, b.offset, b.length)
        BY <2>1, <2>2, <2>4, ContainsBelow
    <2> QED
        BY <1>2, <2>5 DEF IsNewest
<1>3. NewestInPlace'
    BY <1>2 DEF NewestInPlace
<1> QED
    BY <1>1, <1>3

\* Allocation: the new blob comes after all others.
LEMMA OffsetAllocateStep ==
    ASSUME OffsetInvariant, NEW d \in Digests, Allocate(d)
    PROVE  OffsetInvariant'
<1> DEFINE size == Positive(SizeBytes[d])
           b == [digest |-> d, offset |-> cursors.Write, length |-> SizeBytes[d]]
<1>1. cursors.Write < MaxWrite /\ cursors' = FileAllocate(cursors, size)
      /\ inFlight' = inFlight \cup {b} /\ UNCHANGED <<table, puts, late, failures>>
    BY DEF Allocate, Blob, historyVars
<1>2. Roomy(cursors) /\ BlobsAllocated
    BY DEF OffsetInvariant
<1>3. cursors.Write \in Nat /\ cursors.Write < Width /\ dataSize \in Nat /\ Width \in Nat
    BY <1>2, RoomyFacts
<1>4. size \in Nat /\ size >= 1 /\ cursors.Write + size + dataSize < Width
    <2>1. SizeBytes[d] \in Nat /\ MaxWrite \in Nat /\ chunkSize \in Nat /\ chunkSize > 0
          /\ MaxWrite + SizeBytes[d] + chunkSize + dataSize < Width
        BY SizeFacts
    <2> QED
        BY <1>1, <1>3, <2>1 DEF Positive
<1> HIDE DEF size
<1>5. Roomy(cursors') /\ cursors'.Write = cursors.Write + size /\ cursors.Read <= cursors'.Read
    BY <1>1, <1>2, <1>4, FileAllocateFacts
<1>6. BlobsAllocated'
    <2>1. b \in [digest : Digests, offset : UInt64, length : Nat]
        BY <1>3, SizeFacts DEF UInt64
    <2>2. b.offset + Positive(b.length) = cursors'.Write /\ b.length = SizeBytes[b.digest]
        BY <1>5 DEF size
    <2>3. \A x \in inFlight \cup puts : x.offset \in Nat /\ x.length \in Nat
        BY <1>2 DEF BlobsAllocated, UInt64
    <2>4. \A x \in inFlight \cup puts : Positive(x.length) \in Nat /\ Positive(x.length) >= 1
        BY <2>3, PositiveFacts
    <2>5. \A x \in inFlight \cup puts : x.offset < cursors.Write /\ x.offset + Positive(x.length) <= cursors'.Write
        BY <1>2, <1>3, <1>4, <1>5, <2>3, <2>4 DEF BlobsAllocated
    <2>6. \A x \in inFlight \cup puts : x.offset # b.offset /\ x # b
        BY <1>3, <2>3, <2>5
    <2>7. (inFlight \cup puts)' = (inFlight \cup puts) \cup {b} /\ cursors'.Write \in Nat
        BY <1>1, <1>3, <1>4, <1>5
    <2> HIDE DEF b
    <2>8. inFlight' \cap puts' = {}
        BY <1>1, <1>2, <2>6 DEF BlobsAllocated
    <2>9. b.offset + Positive(b.length) <= cursors'.Write
        BY <2>2, <2>7
    <2>10. \A x, y \in (inFlight \cup puts)' : x.offset = y.offset => x = y
        BY <1>2, <2>6, <2>7 DEF BlobsAllocated
    <2> QED
        BY <1>2, <2>1, <2>2, <2>5, <2>7, <2>8, <2>9, <2>10 DEF BlobsAllocated
<1>7. cursors.Write <= cursors'.Write
    BY <1>3, <1>4, <1>5
<1> QED
    BY <1>1, <1>5, <1>6, <1>7, CursorsMove

\* Deletion.
LEMMA OffsetDeleteStep ==
    ASSUME OffsetInvariant, NEW d \in Digests, Delete(d)
    PROVE  OffsetInvariant'
<1>1. PICK r \in TableGet(table, cursors, d) : cursors' = FileInvalidate(cursors, r.offset, Positive(r.length))
    BY DEF Delete
<1>2. UNCHANGED <<table, inFlight, puts, late, failures>>
    BY DEF Delete, historyVars
<1>3. table \in Table /\ Roomy(cursors) /\ BlobsAllocated /\ EntriesPut
    BY DEF OffsetInvariant
<1>4. \E s \in Slots : r = table[s] /\ r \in Record /\ r.digest = d /\ ContainsRecord(cursors, r)
    BY <1>3, FoundInSlot
<1>5. Entry(r) \in puts
    BY <1>3, <1>4, OffsetTableAssumption DEF EntriesPut, Entry, CacheEntry
<1>6. r.offset \in Nat /\ r.length \in Nat /\ r.offset + Positive(r.length) <= cursors.Write
    BY <1>3, <1>4, <1>5, CursorsAssumption DEF BlobsAllocated, Entry, CacheEntry, Record, UInt64
<1>7. cursors.Read <= r.offset /\ Positive(r.length) \in Nat
    BY <1>3, <1>4, <1>6, ContainsBelow, PositiveFacts DEF ContainsRecord
<1>8. Roomy(cursors') /\ cursors'.Write = cursors.Write /\ cursors.Read <= cursors'.Read
    BY <1>1, <1>3, <1>6, <1>7, FileInvalidateFacts
<1>9. BlobsAllocated'
    BY <1>2, <1>3, <1>8 DEF BlobsAllocated
<1>10. cursors.Write <= cursors'.Write
    BY <1>3, <1>8, RoomyFacts
<1> QED
    BY <1>2, <1>8, <1>9, <1>10, CursorsMove

\* What Put does to the table and to the history, after any number of rounds;
\* only after all rounds is the newest blob in place.
LEMMA OffsetRoundsStep ==
    ASSUME OffsetInvariant, NEW b \in inFlight, NEW n \in Nat, n >= 1 \/ failures' # 0,
           Contains(cursors, b.offset, b.length),
           table' = PutRounds(table, b.digest, b.offset, b.length, cursors, n).table,
           Remember(b, n), inFlight' = inFlight \ {b}, cursors' = cursors,
           failures' \in Nat, failures' = failures \/ failures' # 0
    PROVE  OffsetInvariant'
<1> USE DEF OffsetInvariant
<1> DEFINE new == NewRecord(b.digest, b.offset, b.length)
           K == puts' \cup {CacheEntry(NoDigest, 0, 0)}
<1>1. puts' = puts \cup {b} /\ late' = IF Overtaken(b) THEN late \cup {b} ELSE late
    BY DEF Remember
<1>2. b.digest \in Digests /\ b.offset \in UInt64 /\ b.length \in Nat /\ b.digest # NoDigest
      /\ b = CacheEntry(b.digest, b.offset, b.length)
    BY OffsetTableAssumption DEF BlobsAllocated, CacheEntry
<1>3. table' \in Table /\ EntriesPut'
    <2>1. \A s \in Slots : Entry(table[s]) \in K
        BY <1>1 DEF EntriesPut
    <2>2. CacheEntry(b.digest, b.offset, b.length) \in K
        BY <1>1, <1>2
    <2> HIDE DEF K
    <2>3. table' \in Table /\ \A s \in Slots : Entry(table'[s]) \in K
        BY <1>2, <2>1, <2>2, RoundsKeepEntries
    <2> QED
        BY <2>3 DEF EntriesPut, K
<1>4. (inFlight \cup puts)' = inFlight \cup puts /\ BlobsAllocated'
    BY <1>1 DEF BlobsAllocated
<1>5. Sorted(table, late)'
    <2>1. Sorted(table, late')
        BY <1>1 DEF Sorted
    <2>2. CarrySorted(table, new, late')
        <3> SUFFICES ASSUME NEW s \in Slots, Proper(table, s), table[s].digest = new.digest
                     PROVE  /\ ~(table[s].attempt < new.attempt)
                            /\ table[s].offset > new.offset => Entry(new) \in late'
            BY DEF CarrySorted
        <3>1. new.digest = b.digest /\ new.attempt = 0 /\ new.offset = b.offset /\ Entry(new) = b
            BY <1>2 DEF NewRecord, Entry
        <3>2. Entry(table[s]) \in puts /\ Entry(table[s]).digest = b.digest
              /\ Entry(table[s]).offset = table[s].offset
            BY <1>2, <3>1 DEF EntriesPut, Entry, CacheEntry
        <3>3. table[s].attempt \in Nat
            BY OffsetTableAssumption DEF Table, Record, Attempts
        <3>4. table[s].offset > new.offset => Overtaken(b)
            BY <3>1, <3>2 DEF Overtaken
        <3> QED
            BY <1>1, <3>1, <3>3, <3>4
    <2> QED
        BY <1>2, <2>1, <2>2, RoundsSorted
<1>6. NewestInPlace'
    <2> SUFFICES ASSUME failures' = 0, NEW x \in puts', IsNewest(x)'
                 PROVE  table'[Hash[<<x.digest, 0>>]] = NewRecord(x.digest, x.offset, x.length)
        BY DEF NewestInPlace
    <2> DEFINE top == NewRecord(x.digest, x.offset, x.length)
    <2>1. n >= 1 /\ failures = 0
        OBVIOUS
    <2>2. x \in inFlight \cup puts /\ x.digest \in Digests /\ x.offset \in UInt64 /\ x.length \in Nat
        BY <1>1 DEF BlobsAllocated
    <2>3. top \in Record /\ top.attempt = 0 /\ top.offset = x.offset /\ Slot(top) = Hash[<<x.digest, 0>>]
        BY <2>2, OffsetTableAssumption DEF NewRecord, Record, Attempts, Slot
    <2>4. Contains(cursors, x.offset, x.length) /\ x.offset > 0 /\ \A y \in puts \cup {b} : y.offset <= x.offset
        BY <1>1 DEF IsNewest
    <2>5. ContainsRecord(cursors, top)
        BY <2>4 DEF ContainsRecord, NewRecord
    <2>6. x.offset \in Nat /\ b.offset \in Nat
        BY <1>2, <2>2, CursorsAssumption DEF UInt64
    <2>7. CASE x = b
        <3>1. \A y \in puts : y # b /\ y.offset # b.offset /\ y.offset \in Nat /\ y.offset <= b.offset
            BY <2>4, <2>7, CursorsAssumption DEF BlobsAllocated, UInt64
        <3>2. ASSUME NEW s \in Slots PROVE table[s].offset < b.offset
            <4>1. Entry(table[s]).offset = table[s].offset
                BY DEF Entry, CacheEntry
            <4>2. CASE Entry(table[s]) \in puts
                BY <2>6, <3>1, <4>1, <4>2
            <4>3. CASE Entry(table[s]) = CacheEntry(NoDigest, 0, 0)
                BY <2>4, <2>6, <2>7, <4>1, <4>3 DEF CacheEntry
            <4> QED
                BY <4>2, <4>3 DEF EntriesPut
        <3> HIDE DEF top
        <3>3. top = NewRecord(b.digest, b.offset, b.length)
            BY <2>7 DEF top
        <3>4. table'[Slot(top)] = top
            BY <1>2, <2>1, <2>3, <2>5, <3>2, <3>3, RoundsKeepTop
        <3> QED
            BY <2>3, <3>4 DEF top
    <2>8. CASE x # b
        <3>1. x \in puts /\ b.offset # x.offset
            BY <1>1, <2>8 DEF BlobsAllocated
        <3>2. b.offset < x.offset
            BY <2>4, <2>6, <3>1
        <3>3. IsNewest(x)
            BY <2>4, <3>1 DEF IsNewest
        <3>4. table[Slot(top)] = top
            BY <2>1, <2>3, <3>1, <3>3 DEF NewestInPlace
        <3> HIDE DEF top
        <3>5. table'[Slot(top)] = top
            BY <1>2, <2>1, <2>3, <2>5, <3>2, <3>4, RoundsKeepTop
        <3> QED
            BY <2>3, <3>5 DEF top
    <2> QED
        BY <2>7, <2>8
<1> QED
    BY <1>3, <1>4, <1>5, <1>6

\* Put.
LEMMA OffsetPutStep ==
    ASSUME OffsetInvariant, NEW b \in inFlight, Put(b)
    PROVE  OffsetInvariant'
<1>1. cursors' = cursors /\ failures' = failures /\ inFlight' = inFlight \ {b} /\ failures \in Nat
    BY DEF Put, OffsetInvariant
<1>2. CASE Contains(cursors, b.offset, b.length)
    <2>1. table' = PutRounds(table, b.digest, b.offset, b.length, cursors, maximumIterations).table
          /\ Remember(b, maximumIterations)
        BY <1>2 DEF Put, TablePut
    <2>2. maximumIterations \in Nat /\ maximumIterations >= 1
        BY OffsetTableAssumption
    <2> QED
        BY <1>1, <1>2, <2>1, <2>2, OffsetRoundsStep
<1>3. CASE ~Contains(cursors, b.offset, b.length)
    <2>1. UNCHANGED <<table, puts, late>>
        BY <1>3 DEF Put, historyVars
    <2>2. BlobsAllocated'
        BY <1>1, <2>1 DEF OffsetInvariant, BlobsAllocated
    <2>3. cursors.Read <= cursors'.Read /\ cursors.Write <= cursors'.Write /\ Roomy(cursors')
        BY <1>1, RoomyFacts DEF OffsetInvariant
    <2> QED
        BY <1>1, <2>1, <2>2, <2>3, CursorsMove
<1> QED
    BY <1>2, <1>3

\* Put whose write fails in some round.
LEMMA OffsetPutFailsStep ==
    ASSUME OffsetInvariant, NEW b \in inFlight, NEW n \in 0 .. maximumIterations - 1,
           PutFails(b, n)
    PROVE  OffsetInvariant'
<1>1. cursors' = cursors /\ failures' = failures + 1 /\ inFlight' = inFlight \ {b} /\ failures \in Nat
      /\ Remember(b, n)
    BY DEF PutFails, OffsetInvariant
<1>2. Contains(cursors, b.offset, b.length)
      /\ table' = PutRounds(table, b.digest, b.offset, b.length, cursors, n).table
    BY DEF PutFails
<1>3. n \in Nat /\ failures' \in Nat /\ failures' # 0
    BY <1>1
<1> QED
    BY <1>1, <1>2, <1>3, OffsetRoundsStep

\* The offset invariant holds in every state of the offset store.
THEOREM OffsetInvariantHolds ==
    OffsetStoreSpec => []OffsetInvariant
<1>1. ASSUME OffsetInvariant, [OffsetStoreNext]_offsetVars PROVE OffsetInvariant'
    <2>1. CASE UNCHANGED offsetVars
        <3>1. UNCHANGED <<table, cursors, inFlight, puts, late, failures>>
            BY <2>1 DEF offsetVars, historyVars
        <3>2. BlobsAllocated' /\ cursors.Read <= cursors'.Read /\ cursors.Write <= cursors'.Write
              /\ Roomy(cursors')
            BY <1>1, <3>1, RoomyFacts DEF OffsetInvariant, BlobsAllocated
        <3> QED
            BY <1>1, <3>1, <3>2, CursorsMove
    <2>2. CASE OffsetStoreNext
        BY <1>1, <2>2, OffsetAllocateStep, OffsetDeleteStep, OffsetPutStep, OffsetPutFailsStep
           DEF OffsetStoreNext
    <2> QED
        BY <1>1, <2>1, <2>2
<1> QED
    BY <1>1, OffsetInit, PTL DEF OffsetStoreSpec

\* A lookup of the offset store returns where a blob with the digest was
\* allocated and stored, and its data is still valid.
THEOREM FoundIsAlwaysTrue ==
    OffsetStoreSpec => []FoundIsTrue
<1>1. ASSUME OffsetInvariant PROVE FoundIsTrue
    <2> SUFFICES ASSUME NEW d \in Digests, NEW r \in TableGet(table, cursors, d)
                 PROVE  /\ r.digest = d /\ r.length = SizeBytes[d]
                        /\ Contains(cursors, r.offset, r.length)
                        /\ Blob(d, r.offset) \in puts
        BY DEF FoundIsTrue
    <2>1. table \in Table /\ EntriesPut /\ BlobsAllocated
        BY <1>1 DEF OffsetInvariant
    <2>2. \E s \in Slots : r = table[s] /\ r \in Record /\ r.digest = d /\ ContainsRecord(cursors, r)
        BY <2>1, FoundInSlot
    <2>3. Entry(r) \in puts
        BY <2>1, <2>2, OffsetTableAssumption DEF EntriesPut, Entry, CacheEntry
    <2>4. r.length = SizeBytes[d]
        BY <2>1, <2>2, <2>3 DEF BlobsAllocated, Entry, CacheEntry
    <2>5. Blob(d, r.offset) = Entry(r)
        BY <2>2, <2>4 DEF Blob, Entry, CacheEntry
    <2> QED
        BY <2>2, <2>3, <2>4, <2>5 DEF ContainsRecord
<1> QED
    BY <1>1, OffsetInvariantHolds, PTL

\* It returns the newest of the records that the digest has, or one whose upload
\* was overtaken by a newer one.
THEOREM NewestAlwaysFirst ==
    OffsetStoreSpec => []NewestFirst
<1>1. ASSUME OffsetInvariant PROVE NewestFirst
    <2> SUFFICES ASSUME NEW d \in Digests, NEW r \in TableGet(table, cursors, d), NEW s \in Slots,
                        table[s].digest = d, ContainsRecord(cursors, table[s]), Slot(table[s]) = s
                 PROVE  table[s].offset <= r.offset \/ Blob(d, r.offset) \in late
        BY DEF NewestFirst
    <2>1. table \in Table /\ EntriesPut /\ BlobsAllocated /\ Sorted(table, late)
        BY <1>1 DEF OffsetInvariant
    <2>2. PICK a \in 0 .. maximumIterations - 2 :
             /\ Hash[<<d, a>>] \in Slots
             /\ r = table[Hash[<<d, a>>]] /\ r \in Record
             /\ r.digest = d /\ r.attempt = a /\ ContainsRecord(cursors, r)
             /\ \A b \in 0 .. a - 1 : ~IsHit(table, cursors, d, b + 1)
        BY <2>1, TableGetFacts
    <2> DEFINE b == table[s].attempt
    <2>3. table[s] \in Record /\ b \in Nat /\ table[s].offset \in Nat /\ r.offset \in Nat /\ a \in Nat
        BY <2>1, <2>2, OffsetTableAssumption, CursorsAssumption DEF Table, Record, Attempts, UInt64
    <2>4. s = Hash[<<d, b>>]
        BY DEF Slot
    <2>5. CASE b < a
        <3>1. b \in 0 .. a - 1 /\ (b + 1) - 1 = b
            BY <2>3, <2>5
        <3>2. IsHit(table, cursors, d, b + 1)
            BY <2>4, <3>1 DEF IsHit
        <3> QED
            BY <2>2, <3>1, <3>2
    <2>6. CASE b = a
        BY <2>2, <2>3, <2>4, <2>6
    <2>7. CASE b > a
        <3>1. Proper(table, Hash[<<d, a>>]) /\ Proper(table, s)
            BY <2>2 DEF Proper, Slot
        <3>2. r.offset < table[s].offset => Entry(r) \in late
            BY <2>1, <2>2, <2>3, <2>7, <3>1 DEF Sorted
        <3>3. Entry(r) \in puts
            BY <2>1, <2>2, OffsetTableAssumption DEF EntriesPut, Entry, CacheEntry
        <3>4. Blob(d, r.offset) = Entry(r)
            BY <2>1, <2>2, <3>3 DEF BlobsAllocated, Blob, Entry, CacheEntry
        <3> QED
            BY <2>3, <3>2, <3>4
    <2> QED
        BY <2>3, <2>5, <2>6, <2>7
<1> QED
    BY <1>1, OffsetInvariantHolds, PTL

\* The newest blob is found, however full the table is.
THEOREM LastBlobAlwaysFound ==
    OffsetStoreSpec => []LastBlobFound
<1>1. ASSUME OffsetInvariant PROVE LastBlobFound
    <2> SUFFICES ASSUME NEW b \in puts, failures = 0, IsNewest(b)
                 PROVE  \E r \in TableGet(table, cursors, b.digest) : r.offset = b.offset
        BY DEF LastBlobFound, IsNewest
    <2> DEFINE r == table[Hash[<<b.digest, 0>>]]
    <2>1. r = NewRecord(b.digest, b.offset, b.length)
        BY <1>1 DEF OffsetInvariant, NewestInPlace
    <2>2. r.digest = b.digest /\ r.attempt = 0 /\ r.offset = b.offset /\ r.length = b.length
        BY <2>1 DEF NewRecord
    <2>3. ContainsRecord(cursors, r)
        BY <2>2 DEF IsNewest, ContainsRecord
    <2>4. 1 \in 1 .. maximumIterations - 1 /\ 1 - 1 = 0
        BY OffsetTableAssumption
    <2>5. IsHit(table, cursors, b.digest, 1)
        BY <2>2, <2>3, <2>4 DEF IsHit
    <2>6. r \in TableGet(table, cursors, b.digest)
        BY <2>4, <2>5 DEF TableGet
    <2> QED
        BY <2>2, <2>6
<1> QED
    BY <1>1, OffsetInvariantHolds, PTL

---------------------------------------------------------------------------
\* Records that are hidden.

\* Valid records are those that the read cursor has not passed.
LEMMA ValidEntries ==
    ASSUME OffsetInvariant, NEW s \in Slots, cursors.Write >= 1
    PROVE  /\ table[s].offset \in Nat /\ cursors.Read \in Nat
           /\ ContainsRecord(cursors, table[s]) <=> cursors.Read <= table[s].offset
<1>1. table \in Table /\ Roomy(cursors) /\ BlobsAllocated /\ EntriesPut
    BY DEF OffsetInvariant
<1>2. table[s] \in Record /\ table[s].offset \in Nat /\ table[s].length \in Nat
    BY <1>1, CursorsAssumption DEF Table, Record, UInt64
<1>3. table[s].offset + Positive(table[s].length) <= cursors.Write
    <2>1. CASE Entry(table[s]) \in puts
        BY <1>1, <2>1 DEF BlobsAllocated, Entry, CacheEntry
    <2>2. CASE Entry(table[s]) = CacheEntry(NoDigest, 0, 0)
        <3>1. table[s].offset = 0 /\ table[s].length = 0
            BY <2>2 DEF Entry, CacheEntry
        <3> QED
            BY <3>1 DEF Positive
    <2> QED
        BY <1>1, <2>1, <2>2 DEF EntriesPut
<1> QED
    BY <1>1, <1>2, <1>3, ContainsBelow, RoomyFacts DEF ContainsRecord

\* All rounds of a Put keep what is looked at before the records.
LEMMA RoundsPaths ==
    ASSUME OffsetInvariant, NEW b \in inFlight, NEW n \in Nat,
           Contains(cursors, b.offset, b.length), Paths(table, demoted)
    PROVE  Paths(PutRounds(table, b.digest, b.offset, b.length, cursors, n).table,
                 demoted \cup Demotes(b, n))
<1> DEFINE Round(i) == PutRounds(table, b.digest, b.offset, b.length, cursors, i)
           D == demoted \cup Demotes(b, n)
           K == {e \in {CacheEntry(x, o, l) : x \in Digests \cup {NoDigest}, o \in UInt64, l \in Nat} :
                    Contains(cursors, e.offset, e.length) <=> cursors.Read <= e.offset}
           Good(p) ==
              /\ p.table \in Table /\ p.record \in Record /\ p.more \in BOOLEAN
              /\ Paths(p.table, D)
              /\ p.more => Ahead(p.table, p.record, D) /\ ContainsRecord(cursors, p.record)
<1>1. b.digest \in Digests /\ b.offset \in UInt64 /\ b.length \in Nat /\ Roomy(cursors) /\ table \in Table
      /\ b.offset \in Nat /\ b.offset + Positive(b.length) <= cursors.Write /\ cursors.Write \in Nat
    BY RoomyFacts, CursorsAssumption DEF OffsetInvariant, BlobsAllocated, UInt64
<1>2. cursors.Write >= 1
    BY <1>1, PositiveFacts
<1>3. Entry(NewRecord(b.digest, b.offset, b.length)) = CacheEntry(b.digest, b.offset, b.length)
      /\ NewRecord(b.digest, b.offset, b.length) \in Record
      /\ NewRecord(b.digest, b.offset, b.length).attempt = 0
      /\ ContainsRecord(cursors, NewRecord(b.digest, b.offset, b.length))
    BY <1>1, OffsetTableAssumption DEF NewRecord, Record, Attempts, Entry, ContainsRecord
<1>4. ASSUME NEW r \in Record
      PROVE  Entry(r) \in K <=> (ContainsRecord(cursors, r) <=> cursors.Read <= r.offset)
    <2>1. Entry(r) \in {CacheEntry(x, o, l) : x \in Digests \cup {NoDigest}, o \in UInt64, l \in Nat}
        BY DEF Entry, Record
    <2>2. Entry(r).offset = r.offset /\ Entry(r).length = r.length
        BY DEF Entry, CacheEntry
    <2> QED
        BY <2>1, <2>2 DEF ContainsRecord
<1>5. \A s \in Slots : Entry(table[s]) \in K
    <2> SUFFICES ASSUME NEW s \in Slots PROVE Entry(table[s]) \in K
        OBVIOUS
    <2>1. table[s] \in Record
        BY <1>1 DEF Table
    <2>2. ContainsRecord(cursors, table[s]) <=> cursors.Read <= table[s].offset
        BY <1>2, ValidEntries
    <2> HIDE DEF K
    <2> QED
        BY <1>4, <2>1, <2>2
<1>6. CacheEntry(b.digest, b.offset, b.length) \in K
    <2>1. cursors.Read <= b.offset
        BY <1>1, ContainsBelow
    <2>2. NewRecord(b.digest, b.offset, b.length).offset = b.offset
        BY DEF NewRecord
    <2> QED
        BY <1>3, <1>4, <2>1, <2>2
<1> HIDE DEF K
<1>7. \A i \in Nat : \A s \in Slots : Entry(Round(i).table[s]) \in K
    BY <1>1, <1>5, <1>6, RoundsKeepEntries
<1>8. Good(Round(0))
    <2>1. Round(0) = [table |-> table, record |-> NewRecord(b.digest, b.offset, b.length), more |-> TRUE]
        BY FirstRound
    <2>2. Paths(table, D)
        BY DEF Paths, Ahead
    <2>3. Ahead(table, NewRecord(b.digest, b.offset, b.length), D)
        BY <1>3 DEF Ahead
    <2>4. Round(0).table = table /\ Round(0).record = NewRecord(b.digest, b.offset, b.length)
          /\ Round(0).more = TRUE
        BY <2>1
    <2> HIDE DEF D, Round
    <2> QED
        BY <1>1, <1>3, <2>2, <2>3, <2>4
<1>9. ASSUME NEW k \in 0 .. n - 1, Good(Round(k)) PROVE Good(Round(k + 1))
    <2>1. Round(k + 1) = IF Round(k).more THEN PutRecord(Round(k).table, Round(k).record, cursors) ELSE Round(k)
        BY NextRound
    <2>2. CASE ~Round(k).more
        BY <1>9, <2>1, <2>2
    <2>3. CASE Round(k).more
        <3> DEFINE t == Round(k).table
                   r == Round(k).record
                   p == Round(k + 1)
                   old == t[Slot(r)]
        <3>1. t \in Table /\ r \in Record /\ Paths(t, D) /\ Ahead(t, r, D) /\ ContainsRecord(cursors, r)
            BY <1>9, <2>3
        <3>2. PutCase(t, r, cursors, p)
            BY <2>1, <2>3, <3>1, PutRecordCases
        <3>3. Slot(r) \in Slots /\ old \in Record /\ Entry(old) \in K
            BY <1>7, <3>1, SlotExists DEF Table
        <3>4. cursors.Read <= r.offset
            <4>1. r.offset \in Nat /\ cursors.Read \in Nat
                BY <1>1, <3>1, RoomyFacts, CursorsAssumption DEF Record, UInt64
            <4> QED
                BY <3>1, <4>1 DEF ContainsRecord, Contains
        <3>5. ~ContainsRecord(cursors, old) => old.offset <= r.offset
            <4>1. old.offset \in Nat /\ r.offset \in Nat /\ cursors.Read \in Nat
                BY <1>1, <3>1, <3>3, RoomyFacts, CursorsAssumption DEF Record, UInt64
            <4> QED
                BY <1>4, <3>3, <3>4, <4>1
        <3>6. /\ ContainsRecord(cursors, old) /\ old.attempt >= maximumIterations - 1
              /\ old.offset > r.offset
              => Slot(r) \in D
            BY <2>3, <3>3 DEF Demotes
        <3>7. p.table \in Table /\ p.record \in Record /\ p.more \in BOOLEAN
            BY <3>1, <3>2, RoundType
        <3>8. p.more => ContainsRecord(cursors, p.record)
            <4>1. \A x \in Record : x.attempt < maximumIterations - 1 /\ ContainsRecord(cursors, x)
                                       => ContainsRecord(cursors, Pushed(x))
                BY PushedFacts DEF ContainsRecord
            <4>2. ~Overwritable(cursors, old, Slot(r))
                     => ContainsRecord(cursors, old) /\ old.attempt < maximumIterations - 1
                BY <3>3, OffsetTableAssumption DEF Overwritable, Record, Attempts
            <4> QED
                BY <3>1, <3>2, <3>3, <4>1, <4>2 DEF PutCase
        <3>9. Paths(p.table, D) /\ (p.more => Ahead(p.table, p.record, D))
            <4> HIDE DEF t, r, p, D
            <4> QED
                BY <3>1, <3>2, <3>5, <3>6, RoundPaths DEF old
        <3> QED
            BY <3>7, <3>8, <3>9
    <2> QED
        BY <2>2, <2>3
<1> DEFINE S == {i \in 0 .. n : Good(Round(i))}
<1>10. n \in S
    <2> HIDE DEF Good
    <2>1. 0 \in S /\ \A k \in 0 .. n - 1 : k \in S => k + 1 \in S
        BY <1>8, <1>9
    <2> HIDE DEF S
    <2> QED
        BY <2>1, UpTo
<1> QED
    BY <1>10

\* Every step of the offset store keeps it.
LEMMA PathsStep ==
    ASSUME OffsetInvariant, Paths(table, demoted), [OffsetStoreNext]_offsetVars
    PROVE  Paths(table, demoted)'
<1>1. CASE UNCHANGED <<table, demoted>>
    BY <1>1
<1>2. ASSUME NEW b \in inFlight, NEW n \in Nat, Contains(cursors, b.offset, b.length), Remember(b, n),
             table' = PutRounds(table, b.digest, b.offset, b.length, cursors, n).table
      PROVE  Paths(table, demoted)'
    <2>1. demoted' = demoted \cup Demotes(b, n)
        BY <1>2 DEF Remember
    <2> QED
        BY <1>2, <2>1, RoundsPaths
<1>3. ASSUME NEW b \in inFlight, Put(b) PROVE Paths(table, demoted)'
    <2>1. CASE Contains(cursors, b.offset, b.length)
        <3>1. maximumIterations \in Nat
            BY OffsetTableAssumption
        <3> QED
            BY <1>2, <1>3, <2>1, <3>1 DEF Put, TablePut
    <2>2. CASE ~Contains(cursors, b.offset, b.length)
        BY <1>1, <1>3, <2>2 DEF Put, historyVars
    <2> QED
        BY <2>1, <2>2
<1>4. ASSUME NEW b \in inFlight, NEW n \in 0 .. maximumIterations - 1, PutFails(b, n)
      PROVE  Paths(table, demoted)'
    BY <1>2, <1>4 DEF PutFails
<1>5. ASSUME NEW d \in Digests, Allocate(d) \/ Delete(d) PROVE Paths(table, demoted)'
    BY <1>1, <1>5 DEF Allocate, Delete, historyVars
<1>6. CASE UNCHANGED offsetVars
    BY <1>1, <1>6 DEF offsetVars, historyVars
<1> QED
    BY <1>3, <1>4, <1>5, <1>6 DEF OffsetStoreNext

\* A record in any but the last of its slots is found, or a newer one of its
\* digest, unless a slot before it is one in which a record gave way to an older one.
THEOREM HiddenAlwaysExplained ==
    OffsetStoreSpec => []HiddenExplained
<1>1. OffsetStoreInit => Paths(table, demoted)
    <2> SUFFICES ASSUME OffsetStoreInit, NEW s \in Slots PROVE Ahead(table, table[s], demoted)
        BY DEF Paths
    <2>1. table[s].attempt = 0
        BY DEF OffsetStoreInit, EmptyTable, ZeroRecord
    <2> QED
        BY <2>1 DEF Ahead
<1>2. ASSUME OffsetInvariant, Paths(table, demoted) PROVE HiddenExplained
    <2> SUFFICES ASSUME NEW s \in Slots, table[s].digest \in Digests, table[s].attempt < maximumIterations - 1,
                        ContainsRecord(cursors, table[s]), Slot(table[s]) = s,
                        \A i \in 0 .. table[s].attempt - 1 : Hash[<<table[s].digest, i>>] \notin demoted,
                        TableGet(table, cursors, table[s].digest) = {}
                 PROVE  FALSE
        BY DEF HiddenExplained
    <2> DEFINE r == table[s]
               d == r.digest
               a == r.attempt
               S == {k \in 0 .. a : \A j \in 1 .. k : GoesOn(table, cursors, d, j)}
    <2>1. table \in Table /\ r \in Record /\ a \in Nat /\ a + 1 \in 1 .. maximumIterations - 1
        BY <1>2, OffsetTableAssumption DEF OffsetInvariant, Table, Record, Attempts
    <2>2. cursors.Write >= 1
        <3>1. Entry(r) \in puts
            BY <1>2, OffsetTableAssumption DEF OffsetInvariant, EntriesPut, Entry, CacheEntry
        <3>2. r.offset \in Nat /\ r.length \in Nat /\ r.offset + Positive(r.length) <= cursors.Write
            BY <1>2, <2>1, <3>1, CursorsAssumption
               DEF OffsetInvariant, BlobsAllocated, Entry, CacheEntry, Record, UInt64
        <3>3. cursors.Write \in Nat
            BY <1>2, RoomyFacts DEF OffsetInvariant
        <3> QED
            BY <3>2, <3>3, PositiveFacts
    <2>3. ASSUME NEW i \in 1 .. maximumIterations - 1, IsHit(table, cursors, d, i),
                 \A j \in 1 .. i - 1 : GoesOn(table, cursors, d, j)
          PROVE  FALSE
        <3>1. table[Hash[<<d, i - 1>>]] \in TableGet(table, cursors, d)
            BY <2>3 DEF TableGet
        <3> QED
            BY <3>1
    <2>4. 0 \in S
        BY <2>1
    <2>5. ASSUME NEW k \in 0 .. a - 1, k \in S PROVE k + 1 \in S
        <3> DEFINE x == Hash[<<d, k>>]
        <3>1. k \in 0 .. a - 1 /\ k \in Attempts /\ (k + 1) - 1 = k /\ k + 1 \in 1 .. maximumIterations - 1
            BY <2>1, OffsetTableAssumption DEF Attempts
        <3>2. x \in Slots
            BY <3>1, OffsetTableAssumption
        <3>3. Proper(table, x) /\ table[x].offset >= r.offset
            BY <1>2, <3>1 DEF Paths, Ahead, Proper
        <3>4. ContainsRecord(cursors, table[x])
            BY <1>2, <2>2, <3>2, <3>3, ValidEntries
        <3>5. \A j \in 1 .. k : GoesOn(table, cursors, d, j)
            BY <2>5
        <3>6. ~IsHit(table, cursors, d, k + 1)
            BY <2>3, <3>1, <3>5
        <3>7. GoesOn(table, cursors, d, k + 1)
            BY <3>1, <3>3, <3>4, <3>6 DEF GoesOn, Proper
        <3>8. \A j \in 1 .. k + 1 : j \in 1 .. k \/ j = k + 1
            OBVIOUS
        <3> QED
            BY <2>1, <3>5, <3>7, <3>8
    <2>6. a \in S
        <3> HIDE DEF S
        <3> QED
            BY <2>1, <2>4, <2>5, UpTo
    <2>7. (a + 1) - 1 = a /\ s = Hash[<<d, a>>]
        BY <2>1 DEF Slot
    <2>8. IsHit(table, cursors, d, a + 1)
        BY <2>7 DEF IsHit
    <2> QED
        BY <2>1, <2>3, <2>6, <2>7, <2>8
<1> QED
    BY <1>1, <1>2, PathsStep, OffsetInvariantHolds, PTL DEF OffsetStoreSpec

---------------------------------------------------------------------------
\* Circular storage as a whole.  First, positions in the data file.

\* Division with remainder.
LEMMA Division ==
    ASSUME NEW d \in Nat, d > 0, NEW n \in Nat
    PROVE  /\ n \div d \in Nat
           /\ n % d \in Nat /\ n % d < d
           /\ n = d * (n \div d) + (n % d)
BY SMT

\* Quotients of numbers with different remainders differ in whole divisors.
LEMMA Multiples ==
    ASSUME NEW d \in Nat, d > 0, NEW p \in Nat, NEW q \in Nat
    PROVE  d * p \in Nat /\ d * q \in Nat
           /\ (p = q \/ d * p >= d * q + d \/ d * q >= d * p + d)
<1>1. d * p \in Nat /\ d * q \in Nat
    OBVIOUS
<1>2. CASE p >= q + 1
    <2>1. d * p >= d * (q + 1)
        BY <1>2
    <2>2. d * (q + 1) = d * q + d
        OBVIOUS
    <2> QED
        BY <1>1, <2>1, <2>2
<1>3. CASE q >= p + 1
    <2>1. d * q >= d * (p + 1)
        BY <1>3
    <2>2. d * (p + 1) = d * p + d
        OBVIOUS
    <2> QED
        BY <1>1, <2>1, <2>2
<1> QED
    BY <1>1, <1>2, <1>3

\* Offsets of a window no larger than the data file are different places of it.
LEMMA ModDistinct ==
    ASSUME NEW i \in Nat, NEW j \in Nat, i < j, j - i < dataSize
    PROVE  i % dataSize # j % dataSize
<1> DEFINE p == i \div dataSize
           q == j \div dataSize
           a == i % dataSize
           b == j % dataSize
<1>1. dataSize \in Nat /\ dataSize > 0
    BY CursorsAssumption
<1>2. p \in Nat /\ a \in Nat /\ i = dataSize * p + a
    BY <1>1, Division
<1>3. q \in Nat /\ b \in Nat /\ j = dataSize * q + b
    BY <1>1, Division
<1> HIDE DEF p, q, a, b
<1>4. dataSize * p \in Nat /\ dataSize * q \in Nat
      /\ (p = q \/ dataSize * p >= dataSize * q + dataSize \/ dataSize * q >= dataSize * p + dataSize)
    BY <1>1, <1>2, <1>3, Multiples
<1>5. a # b
    <2> DEFINE x == dataSize * p
               y == dataSize * q
    <2>1. x \in Nat /\ y \in Nat /\ (x = y \/ x >= y + dataSize \/ y >= x + dataSize)
          /\ i = x + a /\ j = y + b
        BY <1>2, <1>3, <1>4
    <2> HIDE DEF x, y
    <2> QED
        BY <1>1, <1>2, <1>3, <2>1
<1> QED
    BY <1>5 DEF a, b

\* Bytes that do not cross the end of the file are next to each other in it.
LEMMA ModShift ==
    ASSUME NEW m \in Nat, NEW j \in Nat, (m % dataSize) + j < dataSize
    PROVE  (m + j) % dataSize = (m % dataSize) + j
<1> DEFINE p == m \div dataSize
           q == (m + j) \div dataSize
           a == m % dataSize
           b == (m + j) % dataSize
<1>1. dataSize \in Nat /\ dataSize > 0 /\ m + j \in Nat
    BY CursorsAssumption
<1>2. p \in Nat /\ a \in Nat /\ a < dataSize /\ m = dataSize * p + a
    BY <1>1, Division
<1>3. q \in Nat /\ b \in Nat /\ b < dataSize /\ m + j = dataSize * q + b
    BY <1>1, Division
<1>4. a + j < dataSize
    OBVIOUS
<1> HIDE DEF p, q, a, b
<1>5. dataSize * p \in Nat /\ dataSize * q \in Nat
      /\ (p = q \/ dataSize * p >= dataSize * q + dataSize \/ dataSize * q >= dataSize * p + dataSize)
    BY <1>1, <1>2, <1>3, Multiples
<1>6. b = a + j
    <2> DEFINE x == dataSize * p
               y == dataSize * q
    <2>1. x \in Nat /\ y \in Nat /\ (x = y \/ x >= y + dataSize \/ y >= x + dataSize)
          /\ m = x + a /\ m + j = y + b
        BY <1>2, <1>3, <1>5
    <2> HIDE DEF x, y
    <2> QED
        BY <1>1, <1>2, <1>3, <1>4, <2>1
<1> QED
    BY <1>6 DEF a, b

\* What rounding up to whole chunks yields.
LEMMA RoundUpFacts ==
    ASSUME NEW n \in Nat
    PROVE  RoundUp(n) \in Nat /\ n <= RoundUp(n) /\ RoundUp(n) < n + chunkSize
<1> DEFINE m == n + chunkSize - 1
           q == m \div chunkSize
           rest == m % chunkSize
           product == chunkSize * q
<1>1. m \in Nat /\ chunkSize \in Nat /\ chunkSize > 0
    BY CursorsAssumption
<1>2. q \in Nat /\ rest \in Nat /\ rest < chunkSize /\ m = product + rest
    BY <1>1, Division
<1>3. RoundUp(n) = q * chunkSize
    BY DEF RoundUp
<1> HIDE DEF q, rest
<1>4. q * chunkSize = product /\ product \in Nat
    BY <1>1, <1>2
<1> HIDE DEF product
<1> QED
    BY <1>1, <1>2, <1>3, <1>4

\* The bulk write cursor, moved back in range.
LEMMA InRangeFacts ==
    ASSUME NEW c, Roomy(c), NEW wc \in UInt64
    PROVE  /\ InRange(wc, c) \in Nat
           /\ c.Read <= InRange(wc, c) /\ InRange(wc, c) <= c.Write
           /\ wc <= InRange(wc, c) \/ InRange(wc, c) = c.Write
<1>1. c.Read \in Nat /\ c.Write \in Nat /\ c.Read <= c.Write /\ wc \in Nat
    BY RoomyFacts DEF UInt64
<1> QED
    BY <1>1 DEF InRange

\* Allocation for a blob in the stack of state stores: there is space for it
\* below the write cursor.
LEMMA BulkCursorsFacts ==
    ASSUME NEW c, Roomy(c), NEW wc \in UInt64, NEW size \in Nat,
           c.Write + size + chunkSize + dataSize <= Width
    PROVE  LET new == BulkCursors(c, wc, size) IN
           /\ Roomy(new)
           /\ c.Read <= new.Read /\ c.Write <= new.Write
           /\ InRange(wc, c) + size <= new.Write
           /\ new.Read = c.Read \/ new.Read + dataSize < InRange(wc, c) + size + chunkSize
<1> DEFINE offset == InRange(wc, c)
           left == c.Write - offset
           more == RoundUp(size - left)
           new == BulkCursors(c, wc, size)
<1>1. c.Read \in Nat /\ c.Write \in Nat /\ dataSize \in Nat /\ Width \in Nat /\ chunkSize \in Nat
    BY RoomyFacts, CursorsAssumption
<1>2. offset \in Nat /\ offset <= c.Write
    BY InRangeFacts
<1>3. new = IF size > left THEN FileAllocate(c, more) ELSE c
    BY DEF BulkCursors
<1> HIDE DEF offset, new
<1>4. CASE size > left
    <2>1. size - left \in Nat
        BY <1>1, <1>2, <1>4
    <2>2. more \in Nat /\ size - left <= more /\ more < size - left + chunkSize
        BY <2>1, RoundUpFacts
    <2> HIDE DEF more
    <2>3. c.Write + more + dataSize < Width
        BY <1>1, <1>2, <2>2
    <2>4. Roomy(new) /\ new.Write = c.Write + more /\ c.Read <= new.Read
          /\ (new.Read = c.Read \/ new.Read + dataSize = new.Write)
        BY <1>3, <1>4, <2>2, <2>3, FileAllocateFacts
    <2>5. c.Write <= new.Write /\ offset + size <= new.Write /\ new.Write < offset + size + chunkSize
        BY <1>1, <1>2, <2>2, <2>4
    <2> QED
        BY <2>4, <2>5 DEF new, offset
<1>5. CASE ~(size > left)
    <2>1. new = c
        BY <1>3, <1>5
    <2>2. c.Read <= c.Read /\ c.Write <= c.Write /\ offset + size <= c.Write
        BY <1>1, <1>2, <1>5
    <2> QED
        BY <2>1, <2>2 DEF new, offset
<1> QED
    BY <1>4, <1>5

---------------------------------------------------------------------------
\* The inductive invariant of circular storage.

CacheSlots == {CacheSlot[d] : d \in Digests}

Upload == [state : {"writing"}, digest : Digests, offset : UInt64, done : Nat, good : BOOLEAN]
Download == [state : {"reading"}, digest : Digests, offset : UInt64, done : Nat, good : BOOLEAN]

Writing(p) == put[p].state = "writing"
Reading(g) == get[g].state = "reading"

\* The end of the space for a blob, and spaces that have no offset in common.
Finish(d, offset) == offset + Positive(SizeBytes[d])
Apart(d1, o1, d2, o2) == Finish(d1, o1) <= o2 \/ Finish(d2, o2) <= o1

Valid(d, offset) == Contains(cursors, offset, SizeBytes[d])

\* Calls in progress, and how far they are.
CallsOK ==
    /\ put \in [Putters -> {Idle} \cup Upload]
    /\ get \in [Getters -> {Idle} \cup Download]
    /\ \A p \in Putters : Writing(p) => put[p].done <= SizeBytes[put[p].digest]
    /\ \A g \in Getters : Reading(g) =>
          get[g].done <= SizeBytes[get[g].digest] /\ <<get[g].digest, get[g].offset>> \in written

\* What the table and the cache may say: where the data of a blob was written.
Known == {CacheEntry(w[1], w[2], SizeBytes[w[1]]) : w \in written} \cup {CacheEntry(NoDigest, 0, 0)}

EntriesWritten ==
    /\ table \in Table /\ \A s \in Slots : Entry(table[s]) \in Known
    /\ cache \in [CacheSlots -> Known]

\* Spaces that were handed out lie below both write cursors, so that the next
\* comes after them, and have nothing in common.
SpaceApart ==
    /\ \A w \in written : Finish(w[1], w[2]) <= cursors.Write /\ Finish(w[1], w[2]) <= writeCursor
    /\ \A p \in Putters : Writing(p) =>
          /\ Finish(put[p].digest, put[p].offset) <= cursors.Write
          /\ Finish(put[p].digest, put[p].offset) <= writeCursor
    /\ \A v, w \in written : v # w => Apart(v[1], v[2], w[1], w[2])
    /\ \A w \in written, p \in Putters : Writing(p) => Apart(w[1], w[2], put[p].digest, put[p].offset)
    /\ \A p, q \in Putters : p # q /\ Writing(p) /\ Writing(q) =>
          Apart(put[p].digest, put[p].offset, put[q].digest, put[q].offset)

\* Damage, in terms of the positions that stale uploads wrote.
DamagedBy(positions, offset, i) ==
    (offset % dataSize) + i >= dataSize \/ (offset + i) % dataSize \in positions

\* The first n bytes of a blob are there but for damage.
Sound(d, offset, n) ==
    \A i \in 0 .. n - 1 : data[(offset + i) % dataSize] = <<d, i>> \/ Damaged(offset, i)

\* So it is for valid blobs, and for as much of a valid upload as was written.
DataSound ==
    /\ \A w \in written : Valid(w[1], w[2]) => Sound(w[1], w[2], SizeBytes[w[1]])
    /\ \A p \in Putters : Writing(p) /\ put[p].good /\ Valid(put[p].digest, put[p].offset) =>
          Sound(put[p].digest, put[p].offset, put[p].done)

StorageInvariant ==
    /\ Roomy(cursors) /\ writeCursor \in UInt64
    /\ written \subseteq Digests \X UInt64
    /\ data = [i \in 0 .. dataSize - 1 |-> data[i]]
    /\ CallsOK
    /\ EntriesWritten
    /\ SpaceApart
    /\ DataSound
    /\ ReadersSeeTheirBlob

\* A call is idle, or it is an upload or a download.
LEMMA CallFacts ==
    ASSUME CallsOK
    PROVE  /\ \A p \in Putters : Writing(p) => put[p] \in Upload
           /\ \A p \in Putters : ~Writing(p) => put[p] = Idle
           /\ \A g \in Getters : Reading(g) => get[g] \in Download
           /\ \A g \in Getters : ~Reading(g) => get[g] = Idle
<1>1. Idle.state # "writing" /\ Idle.state # "reading"
    BY DEF Idle
<1>2. \A x \in Upload : x.state = "writing"
    BY DEF Upload
<1>3. \A x \in Download : x.state = "reading"
    BY DEF Download
<1> QED
    BY <1>1, <1>2, <1>3 DEF CallsOK, Writing, Reading

\* Spaces are ranges of natural numbers.
LEMMA FinishFacts ==
    ASSUME NEW d \in Digests, NEW offset \in UInt64
    PROVE  /\ offset \in Nat /\ SizeBytes[d] \in Nat /\ Positive(SizeBytes[d]) \in Nat
           /\ Finish(d, offset) \in Nat /\ offset < Finish(d, offset)
           /\ offset + SizeBytes[d] <= Finish(d, offset)
<1>1. offset \in Nat /\ SizeBytes[d] \in Nat
    BY SizeFacts, CursorsAssumption DEF UInt64
<1>2. Positive(SizeBytes[d]) \in Nat /\ Positive(SizeBytes[d]) >= 1 /\ Positive(SizeBytes[d]) >= SizeBytes[d]
    BY <1>1, PositiveFacts
<1> QED
    BY <1>1, <1>2 DEF Finish

\* A blob that was handed out is valid until the read cursor passes its start.
LEMMA ValidFacts ==
    ASSUME Roomy(cursors), NEW d \in Digests, NEW offset \in UInt64, Finish(d, offset) <= cursors.Write
    PROVE  Valid(d, offset) <=> cursors.Read <= offset
<1>1. offset \in Nat /\ SizeBytes[d] \in Nat
    BY FinishFacts
<1>2. offset + Positive(SizeBytes[d]) <= cursors.Write
    BY DEF Finish
<1> QED
    BY <1>1, <1>2, ContainsBelow DEF Valid

\* What a lookup finds.
LEMMA LookupFacts ==
    ASSUME EntriesWritten, written \subseteq Digests \X UInt64, NEW d \in Digests, NEW e \in Lookup(d)
    PROVE  /\ e \in Known
           /\ e = CacheEntry(d, e.offset, SizeBytes[d])
           /\ <<d, e.offset>> \in written /\ Valid(d, e.offset)
<1>1. e \in Known /\ e.digest = d /\ Contains(cursors, e.offset, e.length)
    <2>1. CASE CacheHit(cache, cursors, d)
        <3>1. e = cache[CacheSlot[d]] /\ CacheSlot[d] \in CacheSlots
            BY <2>1 DEF Lookup, CachedGet, CacheSlots
        <3> QED
            BY <2>1, <3>1 DEF CacheHit, EntriesWritten
    <2>2. CASE ~CacheHit(cache, cursors, d)
        <3>1. PICK r \in TableGet(table, cursors, d) : e = CacheEntry(d, r.offset, r.length)
            BY <2>2 DEF Lookup, CachedGet
        <3>2. \E s \in Slots : r = table[s] /\ r \in Record /\ r.digest = d /\ ContainsRecord(cursors, r)
            BY FoundInSlot DEF EntriesWritten
        <3>3. e = Entry(r)
            BY <3>1, <3>2 DEF Entry
        <3> QED
            BY <3>1, <3>2, <3>3 DEF EntriesWritten, CacheEntry, ContainsRecord
    <2> QED
        BY <2>1, <2>2
<1>2. e # CacheEntry(NoDigest, 0, 0)
    BY <1>1, OffsetTableAssumption DEF CacheEntry
<1>3. PICK w \in written : e = CacheEntry(w[1], w[2], SizeBytes[w[1]])
    BY <1>1, <1>2 DEF Known
<1>4. w[1] = d /\ w[2] = e.offset /\ e.length = SizeBytes[d]
    BY <1>1, <1>3 DEF CacheEntry
<1>5. e = CacheEntry(d, e.offset, SizeBytes[d]) /\ <<d, e.offset>> \in written
    <2>1. w \in Digests \X UInt64
        OBVIOUS
    <2>2. w = <<w[1], w[2]>>
        BY <2>1
    <2>3. <<d, e.offset>> = w
        BY <1>4, <2>2
    <2>4. e = CacheEntry(d, w[2], SizeBytes[d])
        BY <1>3, <1>4
    <2> QED
        BY <1>4, <2>3, <2>4
<1> QED
    BY <1>1, <1>4, <1>5 DEF Valid

\* A lookup leaves a cache that says nothing new.
LEMMA CacheAfterLookup ==
    ASSUME EntriesWritten, written \subseteq Digests \X UInt64, NEW d \in Digests
    PROVE  CacheAfterGet(cache, table, cursors, d) \in [CacheSlots -> Known]
<1>1. CASE Lookup(d) = {}
    BY <1>1 DEF CacheAfterGet, Lookup, EntriesWritten
<1>2. CASE Lookup(d) # {}
    <2>1. (CHOOSE e \in Lookup(d) : TRUE) \in Lookup(d)
        BY <1>2
    <2>2. (CHOOSE e \in Lookup(d) : TRUE) \in Known
        BY <2>1, LookupFacts
    <2>3. CacheAfterGet(cache, table, cursors, d) = [cache EXCEPT ![CacheSlot[d]] = CHOOSE e \in Lookup(d) : TRUE]
        BY <1>2 DEF CacheAfterGet, Lookup
    <2> QED
        BY <2>2, <2>3 DEF EntriesWritten
<1> QED
    BY <1>1, <1>2

\* Cursors that move on.
CursorsAdvance ==
    /\ Roomy(cursors') /\ cursors.Read <= cursors'.Read /\ cursors.Write <= cursors'.Write
    /\ writeCursor' \in UInt64
    /\ writeCursor' >= writeCursor \/ writeCursor' >= cursors.Write

\* They make no space valid, and leave space below them.
LEMMA SpaceStaysBelow ==
    ASSUME Roomy(cursors), writeCursor \in UInt64, CursorsAdvance, NEW d \in Digests, NEW offset \in UInt64,
           Finish(d, offset) <= cursors.Write, Finish(d, offset) <= writeCursor
    PROVE  /\ Finish(d, offset) <= cursors'.Write /\ Finish(d, offset) <= writeCursor'
           /\ Valid(d, offset)' => Valid(d, offset)
<1>1. cursors.Read \in Nat /\ cursors.Write \in Nat /\ cursors'.Read \in Nat /\ cursors'.Write \in Nat
      /\ writeCursor \in Nat /\ writeCursor' \in Nat
    BY RoomyFacts DEF CursorsAdvance, UInt64
<1>2. offset \in Nat /\ Finish(d, offset) \in Nat
    BY FinishFacts
<1>3. Finish(d, offset) <= cursors'.Write /\ Finish(d, offset) <= writeCursor'
    BY <1>1, <1>2 DEF CursorsAdvance
<1>4. ASSUME Valid(d, offset)' PROVE Valid(d, offset)
    <2>1. offset + Positive(SizeBytes[d]) <= cursors'.Write /\ SizeBytes[d] \in Nat
        BY <1>3, FinishFacts DEF Finish
    <2>2. cursors'.Read <= offset
        BY <1>2, <1>4, <2>1, ContainsBelow DEF Valid, CursorsAdvance
    <2>3. cursors.Read <= offset
        BY <1>1, <1>2, <2>2 DEF CursorsAdvance
    <2> QED
        BY <2>3, ValidFacts
<1> QED
    BY <1>3, <1>4

\* A step that starts no upload, writes nothing to the data file and publishes
\* nothing keeps spaces apart and data sound.
LEMMA QuietStep ==
    ASSUME StorageInvariant, CursorsAdvance, UNCHANGED <<data, written, clobbered>>,
           \A p \in Putters : Writing(p)' => put'[p] = put[p]
    PROVE  SpaceApart' /\ DataSound'
<1> USE DEF StorageInvariant
<1>1. \A p \in Putters : Writing(p)' => Writing(p)
    BY DEF Writing
<1>2. \A p \in Putters : Writing(p) => put[p].digest \in Digests /\ put[p].offset \in UInt64
    BY CallFacts DEF Upload
<1>3. \A w \in written : w[1] \in Digests /\ w[2] \in UInt64
    OBVIOUS
<1>4. ASSUME NEW w \in written
      PROVE  /\ Finish(w[1], w[2]) <= cursors'.Write /\ Finish(w[1], w[2]) <= writeCursor'
             /\ Valid(w[1], w[2])' => Valid(w[1], w[2])
    BY <1>3, SpaceStaysBelow DEF SpaceApart
<1>5. ASSUME NEW p \in Putters, Writing(p)'
      PROVE  /\ Finish(put[p].digest, put[p].offset) <= cursors'.Write
             /\ Finish(put[p].digest, put[p].offset) <= writeCursor'
             /\ Contains(cursors', put[p].offset, SizeBytes[put[p].digest]) => Valid(put[p].digest, put[p].offset)
    <2>1. Writing(p)
        BY <1>1, <1>5
    <2>2. PICK d \in Digests, o \in UInt64 : d = put[p].digest /\ o = put[p].offset
        BY <1>2, <2>1
    <2>3. Finish(d, o) <= cursors.Write /\ Finish(d, o) <= writeCursor
        BY <2>1, <2>2 DEF SpaceApart
    <2>4. /\ Finish(d, o) <= cursors'.Write /\ Finish(d, o) <= writeCursor'
          /\ Contains(cursors', o, SizeBytes[d]) => Valid(d, o)
        BY <2>3, SpaceStaysBelow DEF Valid
    <2> QED
        BY <2>2, <2>4
<1>6. SpaceApart'
    BY <1>1, <1>4, <1>5 DEF SpaceApart, Finish, Apart
<1>7. \A d, o, n : Sound(d, o, n)' <=> Sound(d, o, n)
    BY DEF Sound, Damaged
<1>8. DataSound'
    BY <1>1, <1>4, <1>5, <1>7 DEF DataSound, Valid
<1> QED
    BY <1>6, <1>8

\* Readers that see nothing new.
LEMMA QuietReaders ==
    ASSUME StorageInvariant, CursorsAdvance, UNCHANGED clobbered,
           \A g \in Getters : Reading(g)' => get'[g] = get[g] \/ get'[g].good = TRUE
    PROVE  ReadersSeeTheirBlob'
<1> USE DEF StorageInvariant
<1> SUFFICES ASSUME NEW g \in Getters, Reading(g)', ~get'[g].good
             PROVE  \/ ~Contains(cursors', get'[g].offset, SizeBytes[get'[g].digest])
                    \/ \E i \in 0 .. get'[g].done - 1 : DamagedBy(clobbered', get'[g].offset, i)
    BY DEF ReadersSeeTheirBlob, Reading, Damaged, DamagedBy
<1>1. get'[g] = get[g] /\ Reading(g) /\ ~get[g].good
    BY DEF Reading
<1>2. get[g].digest \in Digests /\ get[g].offset \in UInt64 /\ <<get[g].digest, get[g].offset>> \in written
    BY <1>1, CallFacts DEF CallsOK, Download
<1>3. PICK d \in Digests, o \in UInt64 : d = get[g].digest /\ o = get[g].offset
    BY <1>2
<1>4. Finish(d, o) <= cursors.Write /\ Finish(d, o) <= writeCursor
    BY <1>2, <1>3 DEF SpaceApart
<1>5. Contains(cursors', o, SizeBytes[d]) => Valid(d, o)
    BY <1>4, SpaceStaysBelow DEF Valid
<1>6. ~Valid(d, o) \/ \E i \in 0 .. get[g].done - 1 : DamagedBy(clobbered, o, i)
    BY <1>1, <1>3 DEF ReadersSeeTheirBlob, Valid, Reading, Damaged, DamagedBy
<1> QED
    BY <1>1, <1>3, <1>5, <1>6

\* Together.
LEMMA QuietInvariant ==
    ASSUME StorageInvariant, CursorsAdvance, UNCHANGED <<data, written, clobbered, table>>,
           \A p \in Putters : Writing(p)' => put'[p] = put[p],
           cache' \in [CacheSlots -> Known], CallsOK', ReadersSeeTheirBlob'
    PROVE  StorageInvariant'
<1>1. SpaceApart' /\ DataSound'
    BY QuietStep
<1>2. EntriesWritten'
    BY DEF StorageInvariant, EntriesWritten, Known
<1>3. Roomy(cursors') /\ writeCursor' \in UInt64
    BY DEF CursorsAdvance
<1> QED
    BY <1>1, <1>2, <1>3 DEF StorageInvariant

\* Cursors that stay.
LEMMA CursorsStay ==
    ASSUME StorageInvariant, UNCHANGED <<cursors, writeCursor>>
    PROVE  CursorsAdvance
<1>1. cursors.Read \in Nat /\ cursors.Write \in Nat /\ writeCursor \in Nat
    BY RoomyFacts DEF StorageInvariant, UInt64
<1> QED
    BY <1>1 DEF StorageInvariant, CursorsAdvance

\* Put gives up.
LEMMA PutAbortsStep ==
    ASSUME StorageInvariant, NEW p \in Putters, PutAborts(p)
    PROVE  StorageInvariant'
<1>1. put' = [put EXCEPT ![p] = Idle]
      /\ UNCHANGED <<cursors, writeCursor, table, cache, data, get, written, clobbered, restarts>>
    BY DEF PutAborts
<1>2. CallsOK
    BY DEF StorageInvariant
<1>3. put'[p] = Idle /\ \A q \in Putters \ {p} : put'[q] = put[q]
    BY <1>1, <1>2 DEF CallsOK
<1>4. \A q \in Putters : Writing(q)' => put'[q] = put[q]
    BY <1>3 DEF Writing, Idle
<1>5. CallsOK'
    BY <1>1, <1>2, <1>4 DEF CallsOK, Writing, Reading
<1>6. CursorsAdvance
    BY <1>1, CursorsStay
<1>7. ReadersSeeTheirBlob'
    BY <1>1, <1>6, QuietReaders
<1> QED
    BY <1>1, <1>4, <1>5, <1>6, <1>7, QuietInvariant DEF StorageInvariant, EntriesWritten

\* Get looks up the offset.
LEMMA GetLookupStep ==
    ASSUME StorageInvariant, NEW g \in Getters, NEW d \in Digests, GetLookup(g, d)
    PROVE  StorageInvariant'
<1> USE DEF StorageInvariant
<1>1. UNCHANGED <<cursors, writeCursor, table, data, put, written, clobbered, restarts>>
      /\ cache' = CacheAfterGet(cache, table, cursors, d)
    BY DEF GetLookup
<1>2. PICK e \in Lookup(d) :
         get' = [get EXCEPT ![g] = [state |-> "reading", digest |-> d,
                    offset |-> e.offset, done |-> 0, good |-> TRUE]]
    BY DEF GetLookup
<1>3. <<d, e.offset>> \in written
    BY LookupFacts
<1>4. e.offset \in UInt64
    BY <1>3
<1> DEFINE new == [state |-> "reading", digest |-> d, offset |-> e.offset, done |-> 0, good |-> TRUE]
<1>5. new \in Download
    BY <1>4 DEF Download
<1>6. get'[g] = new /\ \A h \in Getters \ {g} : get'[h] = get[h]
    BY <1>2 DEF CallsOK
<1>7. get' \in [Getters -> {Idle} \cup Download]
    BY <1>2, <1>5 DEF CallsOK
<1>8. new.done <= SizeBytes[new.digest] /\ <<new.digest, new.offset>> \in written /\ new.good = TRUE
    BY <1>3, SizeFacts
<1> HIDE DEF new
<1>9. CallsOK'
    BY <1>1, <1>6, <1>7, <1>8 DEF CallsOK, Writing, Reading
<1>10. CursorsAdvance
    BY <1>1, CursorsStay
<1>11. ReadersSeeTheirBlob'
    BY <1>1, <1>6, <1>8, <1>10, QuietReaders
<1>12. cache' \in [CacheSlots -> Known]
    BY <1>1, CacheAfterLookup
<1> QED
    BY <1>1, <1>9, <1>10, <1>11, <1>12, QuietInvariant

\* Get reads some bytes: what it finds to be wrong is damaged.
LEMMA GetReadStep ==
    ASSUME StorageInvariant, NEW g \in Getters, NEW n \in 1 .. BufferSize, GetRead(g, n)
    PROVE  StorageInvariant'
<1> USE DEF StorageInvariant
<1>1. UNCHANGED <<cursors, writeCursor, table, cache, data, put, written, clobbered, restarts>>
    BY DEF GetRead
<1>2. Reading(g) /\ get[g] \in Download
    BY CallFacts DEF GetRead, Reading
<1>3. PICK d \in Digests, o \in UInt64, done \in Nat :
         d = get[g].digest /\ o = get[g].offset /\ done = get[g].done
    BY <1>2 DEF Download
<1> DEFINE readOffset == (o + done) % dataSize
           right == \A i \in 0 .. n - 1 : data[readOffset + i] = <<d, done + i>>
           new == [get[g] EXCEPT !.done = @ + n, !.good = @ /\ right]
<1>4. done + n <= SizeBytes[d] /\ n <= dataSize - readOffset
    BY <1>3 DEF GetRead
<1>5. get' = [get EXCEPT ![g].done = @ + n, ![g].good = @ /\ right]
    BY <1>3 DEF GetRead
<1>6. get'[g] = new /\ (\A h \in Getters \ {g} : get'[h] = get[h]) /\ get' = [get EXCEPT ![g] = new]
    BY <1>5 DEF CallsOK
<1>7. n \in Nat /\ done + n \in Nat
    BY BlobAccessAssumption
<1>8. new \in Download /\ new.digest = d /\ new.offset = o /\ new.done = done + n /\ new.state = "reading"
      /\ new.good = (get[g].good /\ right)
    BY <1>2, <1>3, <1>7 DEF Download
<1> HIDE DEF new
<1>9. CallsOK'
    <2>1. get' \in [Getters -> {Idle} \cup Download]
        BY <1>6, <1>8 DEF CallsOK
    <2>2. <<d, o>> \in written
        BY <1>2, <1>3 DEF CallsOK
    <2> QED
        BY <1>1, <1>4, <1>6, <1>8, <2>1, <2>2 DEF CallsOK, Writing, Reading
<1>10. CursorsAdvance
    BY <1>1, CursorsStay
<1>11. ASSUME Valid(d, o), ~new.good
       PROVE  \E i \in 0 .. new.done - 1 : Damaged(o, i)
    <2>1. CASE ~get[g].good
        <3>1. PICK i \in 0 .. done - 1 : Damaged(o, i)
            BY <1>2, <1>3, <1>11, <2>1 DEF ReadersSeeTheirBlob, Valid, Reading
        <3>2. i \in 0 .. new.done - 1
            BY <1>7, <1>8
        <3> QED
            BY <3>1, <3>2
    <2>2. CASE ~right
        <3>1. PICK i \in 0 .. n - 1 : data[readOffset + i] # <<d, done + i>>
            BY <2>2
        <3>2. o \in Nat /\ o + done \in Nat /\ dataSize \in Nat /\ dataSize > 0 /\ i \in Nat
            BY <1>7, FinishFacts, CursorsAssumption
        <3>3. readOffset \in Nat
            BY <3>2, Division
        <3>4. readOffset + i < dataSize
            BY <1>4, <1>7, <3>2, <3>3
        <3>5. ((o + done) + i) % dataSize = readOffset + i
            BY <3>2, <3>4, ModShift
        <3>6. (o + done) + i = o + (done + i)
            BY <3>2
        <3>7. data[(o + (done + i)) % dataSize] # <<d, done + i>>
            BY <3>1, <3>5, <3>6
        <3>8. Sound(d, o, SizeBytes[d])
            <4>1. <<d, o>> \in written
                BY <1>2, <1>3 DEF CallsOK
            <4> QED
                BY <1>11, <4>1 DEF DataSound
        <3>9. done + i \in 0 .. SizeBytes[d] - 1 /\ done + i \in 0 .. new.done - 1
            <4>1. SizeBytes[d] \in Nat
                BY SizeFacts
            <4>2. done + n <= SizeBytes[d] /\ i <= n - 1 /\ new.done = done + n
                BY <1>4, <1>8
            <4> QED
                BY <1>7, <3>2, <4>1, <4>2
        <3>10. Damaged(o, done + i)
            BY <3>7, <3>8, <3>9 DEF Sound
        <3> QED
            BY <3>9, <3>10
    <2>3. get[g].good \in BOOLEAN
        BY <1>2 DEF Download
    <2> QED
        BY <1>8, <1>11, <2>1, <2>2, <2>3
<1>12. ReadersSeeTheirBlob'
    <2> SUFFICES ASSUME NEW h \in Getters, get'[h].state = "reading", ~get'[h].good
                 PROVE  \/ ~Contains(cursors, get'[h].offset, SizeBytes[get'[h].digest])
                        \/ \E i \in 0 .. get'[h].done - 1 : DamagedBy(clobbered, get'[h].offset, i)
        BY <1>1 DEF ReadersSeeTheirBlob, Damaged, DamagedBy
    <2>1. CASE h = g
        BY <1>6, <1>8, <1>11, <2>1 DEF Valid, Damaged, DamagedBy
    <2>2. CASE h # g
        BY <1>6, <2>2 DEF ReadersSeeTheirBlob, Damaged, DamagedBy
    <2> QED
        BY <2>1, <2>2
<1> QED
    BY <1>1, <1>9, <1>10, <1>12, QuietInvariant DEF EntriesWritten

\* Get is done, and the checksum is right.
LEMMA GetSucceedsStep ==
    ASSUME StorageInvariant, NEW g \in Getters, GetSucceeds(g)
    PROVE  StorageInvariant'
<1>1. get' = [get EXCEPT ![g] = Idle]
      /\ UNCHANGED <<cursors, writeCursor, table, cache, data, put, written, clobbered, restarts>>
    BY DEF GetSucceeds
<1>2. CallsOK
    BY DEF StorageInvariant
<1>3. get'[g] = Idle /\ \A h \in Getters \ {g} : get'[h] = get[h]
    BY <1>1, <1>2 DEF CallsOK
<1>4. \A h \in Getters : Reading(h)' => get'[h] = get[h]
    BY <1>3 DEF Reading, Idle
<1>5. CallsOK'
    BY <1>1, <1>2, <1>4 DEF CallsOK, Writing, Reading
<1>6. CursorsAdvance
    BY <1>1, CursorsStay
<1>7. ReadersSeeTheirBlob'
    BY <1>1, <1>4, <1>6, QuietReaders
<1> QED
    BY <1>1, <1>5, <1>6, <1>7, QuietInvariant DEF StorageInvariant, EntriesWritten

\* Get is done, the checksum is wrong, and what the digest has now is invalidated.
LEMMA GetDiscardsStep ==
    ASSUME StorageInvariant, NEW g \in Getters, GetDiscards(g)
    PROVE  StorageInvariant'
<1> USE DEF StorageInvariant
<1>1. get' = [get EXCEPT ![g] = Idle]
      /\ UNCHANGED <<writeCursor, table, data, put, written, clobbered, restarts>>
    BY DEF GetDiscards
<1>2. get[g].digest \in Digests
    BY CallFacts DEF GetDiscards, AtEnd, Reading, Download
<1>3. PICK d \in Digests : d = get[g].digest
    BY <1>2
<1>4. /\ cursors' = IF Lookup(d) = {} THEN cursors
                    ELSE FileInvalidate(cursors, (CHOOSE x \in Lookup(d) : TRUE).offset,
                                        Positive((CHOOSE x \in Lookup(d) : TRUE).length))
      /\ cache' = CacheAfterGet(cache, table, cursors, d)
    BY <1>3 DEF GetDiscards
<1>5. get'[g] = Idle /\ \A h \in Getters \ {g} : get'[h] = get[h]
    BY <1>1 DEF CallsOK
<1>6. \A h \in Getters : Reading(h)' => get'[h] = get[h]
    BY <1>5 DEF Reading, Idle
<1>7. CallsOK'
    BY <1>1, <1>6 DEF CallsOK, Writing, Reading
<1>8. CursorsAdvance
    <2>1. CASE Lookup(d) = {}
        BY <1>1, <1>4, <2>1, CursorsStay
    <2>2. CASE Lookup(d) # {}
        <3>1. PICK e \in Lookup(d) : cursors' = FileInvalidate(cursors, e.offset, Positive(e.length))
            BY <1>4, <2>2
        <3>2. <<d, e.offset>> \in written /\ Valid(d, e.offset) /\ e = CacheEntry(d, e.offset, SizeBytes[d])
            BY LookupFacts
        <3>3. e.length = SizeBytes[d] /\ e.offset \in UInt64
            BY <3>2 DEF CacheEntry
        <3>4. Finish(d, e.offset) <= cursors.Write
            BY <3>2 DEF SpaceApart
        <3>5. cursors.Read <= e.offset
            BY <3>2, <3>3, <3>4, ValidFacts
        <3>6. e.offset \in Nat /\ Positive(e.length) \in Nat /\ e.offset + Positive(e.length) <= cursors.Write
            BY <3>3, <3>4, FinishFacts DEF Finish
        <3>7. Roomy(cursors') /\ cursors'.Write = cursors.Write /\ cursors.Read <= cursors'.Read
            BY <3>1, <3>5, <3>6, FileInvalidateFacts
        <3>8. cursors.Write \in Nat /\ writeCursor \in Nat
            BY RoomyFacts DEF UInt64
        <3> QED
            BY <1>1, <3>7, <3>8 DEF CursorsAdvance
    <2> QED
        BY <2>1, <2>2
<1>9. ReadersSeeTheirBlob'
    BY <1>1, <1>6, <1>8, QuietReaders
<1>10. cache' \in [CacheSlots -> Known]
    BY <1>4, CacheAfterLookup
<1> QED
    BY <1>1, <1>7, <1>8, <1>9, <1>10, QuietInvariant

\* FindMissing.
LEMMA FindMissingStep ==
    ASSUME StorageInvariant, NEW d \in Digests, FindMissing(d)
    PROVE  StorageInvariant'
<1> USE DEF StorageInvariant
<1>1. cache' = CacheAfterGet(cache, table, cursors, d)
      /\ UNCHANGED <<cursors, writeCursor, table, data, put, get, written, clobbered, restarts>>
    BY DEF FindMissing
<1>2. CursorsAdvance
    BY <1>1, CursorsStay
<1>3. cache' \in [CacheSlots -> Known]
    BY <1>1, CacheAfterLookup
<1>4. CallsOK'
    BY <1>1 DEF CallsOK, Writing, Reading
<1>5. ReadersSeeTheirBlob'
    BY <1>1, <1>2, QuietReaders
<1> QED
    BY <1>1, <1>2, <1>3, <1>4, <1>5, QuietInvariant

\* The cache of a new process.
LEMMA EmptyCacheKnown ==
    EmptyCache \in [CacheSlots -> Known]
BY DEF EmptyCache, CacheSlots, Known

\* A restart forgets calls, cache and bulk cursor; the next space comes after the
\* write cursor in the state file.
LEMMA RestartStep ==
    ASSUME StorageInvariant, Restart
    PROVE  StorageInvariant'
<1> USE DEF StorageInvariant
<1>1. writeCursor' = Width - 1 /\ cache' = EmptyCache
      /\ put' = [p \in Putters |-> Idle] /\ get' = [g \in Getters |-> Idle]
      /\ UNCHANGED <<cursors, table, data, written, clobbered>>
    BY DEF Restart
<1>2. Idle.state # "writing" /\ Idle.state # "reading"
    BY DEF Idle
<1>3. (\A p \in Putters : ~Writing(p)') /\ (\A g \in Getters : ~Reading(g)')
    BY <1>1, <1>2 DEF Writing, Reading
<1>4. CallsOK'
    BY <1>1, <1>3 DEF CallsOK
<1>5. CursorsAdvance
    <2>1. cursors.Read \in Nat /\ cursors.Write \in Nat /\ writeCursor \in Nat /\ writeCursor < Width /\ Width \in Nat
        BY RoomyFacts, CursorsAssumption DEF UInt64
    <2> QED
        BY <1>1, <2>1 DEF CursorsAdvance, UInt64
<1>6. ReadersSeeTheirBlob'
    BY <1>1, <1>3, <1>5, QuietReaders
<1> QED
    BY <1>1, <1>3, <1>4, <1>5, <1>6, EmptyCacheKnown, QuietInvariant

\* Nothing happens.
LEMMA StorageStutter ==
    ASSUME StorageInvariant, UNCHANGED vars
    PROVE  StorageInvariant'
<1> USE DEF StorageInvariant
<1>1. UNCHANGED <<cursors, writeCursor, table, cache, data, put, get, written, clobbered, restarts>>
    BY DEF vars
<1>2. CursorsAdvance
    BY <1>1, CursorsStay
<1>3. CallsOK'
    BY <1>1 DEF CallsOK, Writing, Reading
<1>4. ReadersSeeTheirBlob'
    BY <1>1, <1>2, QuietReaders
<1> QED
    BY <1>1, <1>2, <1>3, <1>4, QuietInvariant DEF EntriesWritten

\* An empty backend.
LEMMA StorageInit ==
    Init => StorageInvariant
<1> SUFFICES ASSUME Init PROVE StorageInvariant
    OBVIOUS
<1>1. Roomy(cursors) /\ writeCursor \in UInt64
    BY CursorsAssumption DEF Init, Roomy, CursorPair, UInt64
<1>2. Idle.state # "writing" /\ Idle.state # "reading"
    BY DEF Idle
<1>3. (\A p \in Putters : put[p] = Idle /\ ~Writing(p)) /\ (\A g \in Getters : get[g] = Idle /\ ~Reading(g))
    BY <1>2 DEF Init, Writing, Reading
<1>4. CallsOK
    BY <1>3 DEF CallsOK, Init
<1>5. ZeroRecord \in Record /\ Entry(ZeroRecord) = CacheEntry(NoDigest, 0, 0)
    BY OffsetTableAssumption, CursorsAssumption DEF ZeroRecord, Record, Attempts, UInt64, Entry, CacheEntry
<1>6. EntriesWritten
    <2> HIDE DEF ZeroRecord
    <2>1. table = [s \in Slots |-> ZeroRecord]
        BY DEF Init, EmptyTable
    <2>2. cache \in [CacheSlots -> Known]
        BY EmptyCacheKnown DEF Init
    <2> QED
        BY <1>5, <2>1, <2>2 DEF EntriesWritten, Table, Known
<1>7. written = {}
    BY DEF Init
<1>8. SpaceApart /\ DataSound
    BY <1>3, <1>7 DEF SpaceApart, DataSound
<1>9. ReadersSeeTheirBlob
    BY <1>3 DEF ReadersSeeTheirBlob, Reading
<1>10. data = [i \in 0 .. dataSize - 1 |-> data[i]]
    BY DEF Init
<1> QED
    BY <1>1, <1>4, <1>6, <1>7, <1>8, <1>9, <1>10 DEF StorageInvariant

\* There is space for a blob as long as the write cursor is below the bound.
LEMMA RoomForBlob ==
    ASSUME NEW d \in Digests, NEW w \in Nat, w < MaxWrite
    PROVE  LET size == Positive(SizeBytes[d])
           IN  size \in Nat /\ size >= 1 /\ w + size + chunkSize + dataSize <= Width
<1> DEFINE size == Positive(SizeBytes[d])
           bytes == SizeBytes[d]
<1>1. bytes \in Nat /\ MaxWrite \in Nat /\ chunkSize \in Nat /\ MaxWrite + bytes + chunkSize + dataSize < Width
      /\ dataSize \in Nat /\ Width \in Nat
    BY SizeFacts, CursorsAssumption
<1>2. size \in Nat /\ size >= 1 /\ size <= bytes + 1
    BY <1>1 DEF Positive
<1> HIDE DEF size, bytes
<1>3. w + size + chunkSize + dataSize <= Width
    BY <1>1, <1>2
<1> QED
    BY <1>2, <1>3 DEF size

\* Put allocates space: it comes after all that was handed out.
LEMMA PutAllocateStep ==
    ASSUME StorageInvariant, NEW p \in Putters, NEW d \in Digests, NEW good \in BOOLEAN,
           PutAllocate(p, d, good)
    PROVE  StorageInvariant'
<1> USE DEF StorageInvariant
<1> DEFINE size == Positive(SizeBytes[d])
           o == InRange(writeCursor, cursors)
           new == [state |-> "writing", digest |-> d, offset |-> o, done |-> 0, good |-> good]
<1>1. cursors.Write < MaxWrite /\ ~Writing(p)
      /\ cursors' = BulkCursors(cursors, writeCursor, size)
      /\ writeCursor' = Add(o, size)
      /\ put' = [put EXCEPT ![p] = new]
      /\ UNCHANGED <<table, cache, data, get, written, clobbered, restarts>>
    BY DEF PutAllocate, BulkWriteCursor, BulkOffset, Writing
<1>2. cursors.Read \in Nat /\ cursors.Write \in Nat /\ dataSize \in Nat /\ Width \in Nat /\ cursors.Write < Width
      /\ writeCursor \in Nat
    BY RoomyFacts DEF UInt64
<1>3. o \in Nat /\ o <= cursors.Write /\ (writeCursor <= o \/ o = cursors.Write)
    BY InRangeFacts
<1>4. size \in Nat /\ size >= 1 /\ cursors.Write + size + chunkSize + dataSize <= Width
    BY <1>1, <1>2, RoomForBlob
<1>5. Finish(d, o) = o + size
    BY DEF Finish
<1>6. put'[p] = new /\ \A q \in Putters \ {p} : put'[q] = put[q]
    BY <1>1 DEF CallsOK
<1>7. o \in UInt64
    BY <1>2, <1>3 DEF UInt64
<1>8. new \in Upload /\ new.state = "writing" /\ new.digest = d /\ new.offset = o /\ new.done = 0
    BY <1>7 DEF Upload
<1> HIDE DEF size, o, new
<1>9. Roomy(cursors') /\ cursors.Read <= cursors'.Read /\ cursors.Write <= cursors'.Write
      /\ o + size <= cursors'.Write
    BY <1>1, <1>4, BulkCursorsFacts DEF o
<1>10. cursors'.Write \in Nat /\ cursors'.Write < Width
    BY <1>9, RoomyFacts
<1>11. writeCursor' = o + size /\ writeCursor' \in UInt64
    BY <1>1, <1>2, <1>3, <1>4, <1>9, <1>10 DEF Add, UInt64
<1>12. CursorsAdvance
    BY <1>2, <1>3, <1>4, <1>9, <1>11 DEF CursorsAdvance
<1>13. \A q \in Putters : Writing(q)' => q = p \/ (put'[q] = put[q] /\ Writing(q))
    BY <1>6 DEF Writing
<1>14. \A q \in Putters : Writing(q) => put[q].digest \in Digests /\ put[q].offset \in UInt64
    BY CallFacts DEF Upload
<1>15. \A w \in written : w[1] \in Digests /\ w[2] \in UInt64
    OBVIOUS
<1>16. ASSUME NEW x \in Digests, NEW y \in UInt64, Finish(x, y) <= cursors.Write, Finish(x, y) <= writeCursor
       PROVE  /\ Finish(x, y) <= cursors'.Write /\ Finish(x, y) <= writeCursor'
              /\ Contains(cursors', y, SizeBytes[x]) => Valid(x, y)
              /\ Finish(x, y) <= o
    <2>1. Finish(x, y) \in Nat
        BY FinishFacts
    <2>2. Finish(x, y) <= o
        BY <1>2, <1>3, <1>16, <2>1
    <2> QED
        BY <1>12, <1>16, <2>2, SpaceStaysBelow DEF Valid
<1>17. CallsOK'
    <2>1. put' \in [Putters -> {Idle} \cup Upload]
        BY <1>1, <1>8 DEF CallsOK
    <2>2. new.done <= SizeBytes[new.digest]
        BY <1>8, SizeFacts
    <2> QED
        BY <1>1, <1>6, <1>13, <2>1, <2>2 DEF CallsOK, Writing, Reading
<1>18. SpaceApart'
    <2>1. \A w \in written :
             /\ Finish(w[1], w[2]) <= cursors'.Write /\ Finish(w[1], w[2]) <= writeCursor'
             /\ Apart(w[1], w[2], d, o)
        BY <1>15, <1>16 DEF SpaceApart, Apart
    <2>2. \A q \in Putters : Writing(q) =>
             /\ Finish(put[q].digest, put[q].offset) <= cursors'.Write
             /\ Finish(put[q].digest, put[q].offset) <= writeCursor'
             /\ Apart(put[q].digest, put[q].offset, d, o)
        BY <1>14, <1>16 DEF SpaceApart, Apart
    <2>3. Finish(d, o) <= cursors'.Write /\ Finish(d, o) <= writeCursor'
        BY <1>3, <1>4, <1>5, <1>9, <1>11
    <2>4. \A d1, d2, o1, o2 : Apart(d1, o1, d2, o2) => Apart(d2, o2, d1, o1)
        BY DEF Apart
    <2>5. \A q \in Putters : Writing(q)' =>
             /\ Finish(put'[q].digest, put'[q].offset) <= cursors'.Write
             /\ Finish(put'[q].digest, put'[q].offset) <= writeCursor'
        BY <1>6, <1>8, <1>13, <2>2, <2>3
    <2>6. \A w \in written, q \in Putters : Writing(q)' => Apart(w[1], w[2], put'[q].digest, put'[q].offset)
        BY <1>6, <1>8, <1>13, <2>1 DEF SpaceApart
    <2>7. ASSUME NEW q \in Putters, NEW r \in Putters, q # r, Writing(q)', Writing(r)'
          PROVE  Apart(put'[q].digest, put'[q].offset, put'[r].digest, put'[r].offset)
        <3>1. CASE q = p
            BY <1>6, <1>8, <1>13, <2>2, <2>4, <2>7, <3>1
        <3>2. CASE r = p
            BY <1>6, <1>8, <1>13, <2>2, <2>7, <3>2
        <3>3. CASE q # p /\ r # p
            BY <1>13, <2>7, <3>3 DEF SpaceApart
        <3> QED
            BY <3>1, <3>2, <3>3
    <2>8. \A v, w \in written : v # w => Apart(v[1], v[2], w[1], w[2])
        BY DEF SpaceApart
    <2> QED
        BY <1>1, <2>1, <2>5, <2>6, <2>7, <2>8 DEF SpaceApart, Apart, Finish
<1>19. DataSound'
    <2>1. \A x, y, n : Sound(x, y, n)' <=> Sound(x, y, n)
        BY <1>1 DEF Sound, Damaged
    <2>2. \A w \in written : Contains(cursors', w[2], SizeBytes[w[1]]) => Valid(w[1], w[2])
        BY <1>15, <1>16 DEF SpaceApart
    <2>3. \A q \in Putters : Writing(q) =>
             (Contains(cursors', put[q].offset, SizeBytes[put[q].digest]) => Valid(put[q].digest, put[q].offset))
        BY <1>14, <1>16 DEF SpaceApart
    <2>4. \A w \in written : Contains(cursors', w[2], SizeBytes[w[1]]) => Sound(w[1], w[2], SizeBytes[w[1]])
        BY <2>2 DEF DataSound
    <2>5. ASSUME NEW q \in Putters, Writing(q)', put'[q].good,
                 Contains(cursors', put'[q].offset, SizeBytes[put'[q].digest])
          PROVE  Sound(put'[q].digest, put'[q].offset, put'[q].done)
        <3>1. CASE q = p
            <4>1. put'[q].done = 0
                BY <1>6, <1>8, <3>1
            <4>2. \A x, y : Sound(x, y, 0)
                BY DEF Sound
            <4> QED
                BY <4>1, <4>2
        <3>2. CASE q # p
            <4>1. put'[q] = put[q] /\ Writing(q)
                BY <1>13, <2>5, <3>2
            <4>2. Valid(put[q].digest, put[q].offset)
                BY <2>3, <2>5, <4>1
            <4> QED
                BY <2>5, <4>1, <4>2 DEF DataSound
        <3> QED
            BY <3>1, <3>2
    <2> QED
        BY <1>1, <2>1, <2>4, <2>5 DEF DataSound, Valid, Writing
<1>20. ReadersSeeTheirBlob'
    BY <1>1, <1>12, QuietReaders
<1>21. EntriesWritten'
    BY <1>1 DEF EntriesWritten, Known
<1> QED
    BY <1>1, <1>9, <1>11, <1>17, <1>18, <1>19, <1>20, <1>21

\* Put publishes what it has written.
LEMMA PutPublishStep ==
    ASSUME StorageInvariant, NEW p \in Putters, PutPublish(p)
    PROVE  StorageInvariant'
<1> USE DEF StorageInvariant
<1>1. Writing(p) /\ put[p].good /\ put[p].done = SizeBytes[put[p].digest]
      /\ put' = [put EXCEPT ![p] = Idle]
      /\ UNCHANGED <<cursors, writeCursor, data, get, clobbered, restarts>>
    BY DEF PutPublish, ReadyToPublish, Writing
<1>2. put[p] \in Upload
    BY <1>1, CallFacts
<1>3. PICK d \in Digests, o \in UInt64 : d = put[p].digest /\ o = put[p].offset
    BY <1>2 DEF Upload
<1>4. written' = written \cup {<<d, o>>}
    BY <1>1, <1>3 DEF PutPublish
<1>5. SizeBytes[d] \in Nat
    BY SizeFacts
<1>6. put'[p] = Idle /\ \A q \in Putters \ {p} : put'[q] = put[q]
    BY <1>1 DEF CallsOK
<1>7. \A q \in Putters : Writing(q)' => q # p /\ put'[q] = put[q] /\ Writing(q)
    BY <1>6 DEF Writing, Idle
<1>8. CallsOK'
    <2>1. put' \in [Putters -> {Idle} \cup Upload]
        BY <1>1 DEF CallsOK
    <2> QED
        BY <1>1, <1>4, <1>7, <2>1 DEF CallsOK, Writing, Reading
<1>9. EntriesWritten'
    <2>1. Known \subseteq Known'
        BY <1>4 DEF Known
    <2>2. CacheEntry(d, o, SizeBytes[d]) \in Known'
        <3>1. <<d, o>> \in written' /\ <<d, o>>[1] = d /\ <<d, o>>[2] = o
            BY <1>4
        <3>2. \A w \in written' : CacheEntry(w[1], w[2], SizeBytes[w[1]]) \in Known'
            BY DEF Known
        <3> QED
            BY <3>1, <3>2
    <2> DEFINE K == Known'
    <2> HIDE DEF K
    <2>3. (\A s \in Slots : Entry(table[s]) \in K) /\ cache \in [CacheSlots -> K] /\ table \in Table
        BY <2>1 DEF EntriesWritten, K
    <2>4. CASE Valid(d, o)
        <3>1. table' = PutRounds(table, d, o, SizeBytes[d], cursors, maximumIterations).table
              /\ cache' = [cache EXCEPT ![CacheSlot[d]] = CacheEntry(d, o, SizeBytes[d])]
            BY <1>3, <2>4 DEF PutPublish, TablePut, CacheAfterPut, Valid
        <3>2. maximumIterations \in Nat
            BY OffsetTableAssumption
        <3>3. CacheEntry(d, o, SizeBytes[d]) \in K
            BY <2>2 DEF K
        <3>4. table' \in Table /\ \A s \in Slots : Entry(table'[s]) \in K
            BY <1>5, <2>3, <3>1, <3>2, <3>3, RoundsKeepEntries
        <3>5. cache' \in [CacheSlots -> K]
            BY <2>3, <3>1, <3>3
        <3> QED
            BY <3>4, <3>5 DEF EntriesWritten, K
    <2>5. CASE ~Valid(d, o)
        <3>1. table' = table /\ cache' = cache
            BY <1>3, <2>5 DEF PutPublish, Valid
        <3> QED
            BY <2>3, <3>1 DEF EntriesWritten, K
    <2> QED
        BY <2>4, <2>5
<1>10. SpaceApart'
    <2>1. \A d1, d2, o1, o2 : Apart(d1, o1, d2, o2) => Apart(d2, o2, d1, o1)
        BY DEF Apart
    <2>2. Finish(d, o) <= cursors.Write /\ Finish(d, o) <= writeCursor
        BY <1>1, <1>3 DEF SpaceApart
    <2>3. \A w \in written : Apart(w[1], w[2], d, o)
        BY <1>1, <1>3 DEF SpaceApart
    <2>4. \A q \in Putters : q # p /\ Writing(q) => Apart(d, o, put[q].digest, put[q].offset)
        BY <1>1, <1>3 DEF SpaceApart
    <2>5. <<d, o>>[1] = d /\ <<d, o>>[2] = o
        OBVIOUS
    <2>6. \A w \in written' : Finish(w[1], w[2]) <= cursors.Write /\ Finish(w[1], w[2]) <= writeCursor
        BY <1>4, <2>2, <2>5 DEF SpaceApart
    <2>7. \A q \in Putters : Writing(q)' =>
             /\ Finish(put'[q].digest, put'[q].offset) <= cursors.Write
             /\ Finish(put'[q].digest, put'[q].offset) <= writeCursor
        BY <1>7 DEF SpaceApart
    <2>8. \A v, w \in written' : v # w => Apart(v[1], v[2], w[1], w[2])
        BY <1>4, <2>1, <2>3, <2>5 DEF SpaceApart
    <2>9. \A w \in written', q \in Putters : Writing(q)' => Apart(w[1], w[2], put'[q].digest, put'[q].offset)
        BY <1>4, <1>7, <2>4, <2>5 DEF SpaceApart
    <2>10. \A q, r \in Putters : q # r /\ Writing(q)' /\ Writing(r)' =>
              Apart(put'[q].digest, put'[q].offset, put'[r].digest, put'[r].offset)
        BY <1>7 DEF SpaceApart
    <2> QED
        BY <1>1, <2>6, <2>7, <2>8, <2>9, <2>10 DEF SpaceApart, Apart, Finish
<1>11. DataSound'
    <2>1. \A x, y, n : Sound(x, y, n)' <=> Sound(x, y, n)
        BY <1>1 DEF Sound, Damaged
    <2>2. Valid(d, o) => Sound(d, o, SizeBytes[d])
        BY <1>1, <1>3 DEF DataSound
    <2>3. <<d, o>>[1] = d /\ <<d, o>>[2] = o
        OBVIOUS
    <2>4. \A w \in written' : Valid(w[1], w[2]) => Sound(w[1], w[2], SizeBytes[w[1]])
        BY <1>4, <2>2, <2>3 DEF DataSound
    <2>5. \A q \in Putters : Writing(q)' /\ put'[q].good /\ Valid(put'[q].digest, put'[q].offset) =>
             Sound(put'[q].digest, put'[q].offset, put'[q].done)
        BY <1>7 DEF DataSound
    <2> QED
        BY <1>1, <2>1, <2>4, <2>5 DEF DataSound, Valid
<1>12. CursorsAdvance
    BY <1>1, CursorsStay
<1>13. ReadersSeeTheirBlob'
    BY <1>1, <1>12, QuietReaders
<1>14. written' \subseteq Digests \X UInt64
    BY <1>4
<1> QED
    BY <1>1, <1>8, <1>9, <1>10, <1>11, <1>13, <1>14

\* Where one round of fileDataStore.Put writes: byte j of it after the last
\* byte written so far, as long as that is in the file.
LEMMA WrittenPosition ==
    ASSUME NEW o \in Nat, NEW done \in Nat, NEW n \in Nat,
           data = [i \in 0 .. dataSize - 1 |-> data[i]], NEW x \in WritePositions(o, done, n)
    PROVE  \E j \in 0 .. n - 1 : x = (o + (done + j)) % dataSize
<1> DEFINE wo == (o + done) % dataSize
           j == x - wo
<1>1. dataSize \in Nat /\ dataSize > 0 /\ o + done \in Nat
    BY CursorsAssumption
<1>2. wo \in Nat
    BY <1>1, Division
<1>3. DOMAIN data = 0 .. dataSize - 1
    OBVIOUS
<1>4. x \in wo .. wo + n - 1 /\ x \in 0 .. dataSize - 1
    BY <1>3 DEF WritePositions
<1> HIDE DEF wo
<1>5. j \in 0 .. n - 1 /\ j \in Nat /\ wo + j = x /\ wo + j < dataSize
    BY <1>1, <1>2, <1>4
<1> HIDE DEF j
<1>6. ((o + done) + j) % dataSize = wo + j
    BY <1>1, <1>5, ModShift DEF wo
<1>7. (o + done) + j = o + (done + j)
    BY <1>5
<1> QED
    BY <1>5, <1>6, <1>7

\* Bytes of valid spaces that have nothing in common are different places of
\* the data file.
LEMMA PositionsApart ==
    ASSUME Roomy(cursors), NEW d1 \in Digests, NEW o1 \in UInt64, NEW d2 \in Digests, NEW o2 \in UInt64,
           Finish(d1, o1) <= cursors.Write, Finish(d2, o2) <= cursors.Write,
           Valid(d1, o1), Valid(d2, o2), Apart(d1, o1, d2, o2),
           NEW i \in 0 .. SizeBytes[d1] - 1, NEW j \in 0 .. SizeBytes[d2] - 1
    PROVE  (o1 + i) % dataSize # (o2 + j) % dataSize
<1>1. cursors.Read \in Nat /\ cursors.Write \in Nat /\ cursors.Write - cursors.Read <= dataSize /\ dataSize \in Nat
    BY RoomyFacts
<1>2. o1 \in Nat /\ SizeBytes[d1] \in Nat /\ Finish(d1, o1) \in Nat /\ o1 + SizeBytes[d1] <= Finish(d1, o1)
    BY FinishFacts
<1>3. o2 \in Nat /\ SizeBytes[d2] \in Nat /\ Finish(d2, o2) \in Nat /\ o2 + SizeBytes[d2] <= Finish(d2, o2)
    BY FinishFacts
<1>4. cursors.Read <= o1 /\ cursors.Read <= o2
    BY ValidFacts
<1> DEFINE a == o1 + i
           b == o2 + j
<1>5. a \in Nat /\ cursors.Read <= a /\ o1 <= a /\ a < Finish(d1, o1) /\ a < cursors.Write
    BY <1>1, <1>2, <1>4
<1>6. b \in Nat /\ cursors.Read <= b /\ o2 <= b /\ b < Finish(d2, o2) /\ b < cursors.Write
    BY <1>1, <1>3, <1>4
<1> HIDE DEF a, b
<1>7. (a < b /\ b - a < dataSize) \/ (b < a /\ a - b < dataSize)
    <2>1. CASE Finish(d1, o1) <= o2
        BY <1>1, <1>2, <1>3, <1>5, <1>6, <2>1
    <2>2. CASE Finish(d2, o2) <= o1
        BY <1>1, <1>2, <1>3, <1>5, <1>6, <2>2
    <2> QED
        BY <2>1, <2>2 DEF Apart
<1>8. a % dataSize # b % dataSize
    BY <1>5, <1>6, <1>7, ModDistinct
<1> QED
    BY <1>8 DEF a, b

\* So are the bytes of one valid space.
LEMMA PositionsOfOne ==
    ASSUME Roomy(cursors), NEW d \in Digests, NEW o \in UInt64, Finish(d, o) <= cursors.Write, Valid(d, o),
           NEW i \in 0 .. SizeBytes[d] - 1, NEW j \in 0 .. SizeBytes[d] - 1, i < j
    PROVE  (o + i) % dataSize # (o + j) % dataSize
<1>1. cursors.Read \in Nat /\ cursors.Write \in Nat /\ cursors.Write - cursors.Read <= dataSize /\ dataSize \in Nat
    BY RoomyFacts
<1>2. o \in Nat /\ SizeBytes[d] \in Nat /\ Finish(d, o) \in Nat /\ o + SizeBytes[d] <= Finish(d, o)
    BY FinishFacts
<1>3. cursors.Read <= o
    BY ValidFacts
<1>4. o + i \in Nat /\ o + j \in Nat /\ o + i < o + j /\ (o + j) - (o + i) < dataSize
    BY <1>1, <1>2, <1>3
<1> QED
    BY <1>4, ModDistinct

\* Put writes some bytes: to its own space if that is still valid, and over
\* those of others only if it is not.
LEMMA PutWriteStep ==
    ASSUME StorageInvariant, NEW p \in Putters, NEW n \in 1 .. BufferSize, PutWrite(p, n)
    PROVE  StorageInvariant'
<1>1. /\ Roomy(cursors) /\ written \subseteq Digests \X UInt64 /\ data = [i \in 0 .. dataSize - 1 |-> data[i]]
      /\ CallsOK /\ SpaceApart /\ DataSound /\ ReadersSeeTheirBlob
    BY DEF StorageInvariant
<1>2. Writing(p) /\ UNCHANGED <<cursors, writeCursor, table, cache, get, written, restarts>>
      /\ put' = [put EXCEPT ![p].done = @ + n]
    BY DEF PutWrite, Writing
<1>3. put[p] \in Upload
    BY <1>1, <1>2, CallFacts
<1>4. PICK d \in Digests, o \in UInt64, done \in Nat, good \in BOOLEAN :
         d = put[p].digest /\ o = put[p].offset /\ done = put[p].done /\ good = put[p].good
    BY <1>3 DEF Upload
<1>5. PICK W : W = WritePositions(o, done, n)
    OBVIOUS
<1>6. PICK wo : wo = (o + done) % dataSize
    OBVIOUS
<1>7. n \in Nat /\ n > 0 /\ o \in Nat /\ SizeBytes[d] \in Nat /\ done + n <= SizeBytes[d]
      /\ dataSize \in Nat /\ dataSize > 0 /\ wo \in Nat
    <2>1. n \in Nat /\ n > 0
        BY BlobAccessAssumption
    <2>2. o \in Nat /\ SizeBytes[d] \in Nat /\ dataSize \in Nat /\ dataSize > 0
        BY FinishFacts, CursorsAssumption
    <2>3. done + n <= SizeBytes[d]
        BY <1>4 DEF PutWrite
    <2>4. wo \in Nat
        BY <1>6, <2>2, Division
    <2> QED
        BY <2>1, <2>2, <2>3, <2>4
<1>8. DOMAIN data = 0 .. dataSize - 1
    BY <1>1
<1>9. data' = [i \in 0 .. dataSize - 1 |->
                  IF i \notin W THEN data[i] ELSE IF good THEN <<d, done + i - wo>> ELSE Junk]
    BY <1>4, <1>5, <1>6, <1>8 DEF PutWrite, Written
<1>10. clobbered' = IF Valid(d, o) THEN clobbered \ W ELSE clobbered \cup W
    BY <1>4, <1>5 DEF PutWrite, Valid
<1>11. put'[p] = [put[p] EXCEPT !.done = done + n] /\ \A q \in Putters \ {p} : put'[q] = put[q]
    BY <1>1, <1>2, <1>4 DEF CallsOK
<1>12. put'[p] \in Upload /\ put'[p].state = "writing" /\ put'[p].digest = d /\ put'[p].offset = o
       /\ put'[p].done = done + n /\ put'[p].good = good
    BY <1>3, <1>4, <1>7, <1>11 DEF Upload
<1>13. \A q \in Putters : (Writing(q)' <=> Writing(q))
          /\ put'[q].digest = put[q].digest /\ put'[q].offset = put[q].offset
    BY <1>2, <1>4, <1>11, <1>12 DEF Writing
<1>14. CallsOK'
    <2>1. put' \in [Putters -> {Idle} \cup Upload]
        BY <1>1, <1>2, <1>11, <1>12 DEF CallsOK
    <2>2. \A q \in Putters : Writing(q)' => put'[q].done <= SizeBytes[put'[q].digest]
        BY <1>1, <1>7, <1>11, <1>12, <1>13 DEF CallsOK
    <2> QED
        BY <1>1, <1>2, <2>1, <2>2 DEF CallsOK, Reading
<1>15. SpaceApart'
    BY <1>1, <1>2, <1>13 DEF SpaceApart, Finish, Apart
<1>16. Finish(d, o) <= cursors.Write
    BY <1>1, <1>2, <1>4 DEF SpaceApart
<1>17. ASSUME NEW d1 \in Digests, NEW o1 \in UInt64, Valid(d1, o1), Finish(d1, o1) <= cursors.Write,
              Apart(d1, o1, d, o), NEW i \in 0 .. SizeBytes[d1] - 1
       PROVE  /\ DamagedBy(clobbered, o1, i) => DamagedBy(clobbered', o1, i)
              /\ data'[(o1 + i) % dataSize] = data[(o1 + i) % dataSize] \/ DamagedBy(clobbered', o1, i)
    <2>1. PICK x : x = (o1 + i) % dataSize
        OBVIOUS
    <2>2. x \in 0 .. dataSize - 1
        <3>1. o1 \in Nat /\ SizeBytes[d1] \in Nat
            BY FinishFacts
        <3>2. o1 + i \in Nat
            BY <3>1
        <3>3. x \in Nat /\ x < dataSize
            BY <1>7, <2>1, <3>2, Division
        <3> QED
            BY <1>7, <3>3
    <2>3. Valid(d, o) => x \notin W
        <3> SUFFICES ASSUME Valid(d, o), x \in W PROVE FALSE
            OBVIOUS
        <3>1. PICK j \in 0 .. n - 1 : x = (o + (done + j)) % dataSize
            BY <1>1, <1>5, <1>7, WrittenPosition
        <3>2. done + j \in 0 .. SizeBytes[d] - 1
            BY <1>7
        <3> QED
            BY <1>1, <1>16, <1>17, <2>1, <3>1, <3>2, PositionsApart
    <2>4. x \notin W => data'[x] = data[x] /\ (x \in clobbered => x \in clobbered')
        BY <1>9, <1>10, <2>2
    <2>5. x \in W => x \in clobbered'
        BY <1>10, <2>3
    <2> QED
        BY <2>1, <2>4, <2>5 DEF DamagedBy
<1>18. ASSUME NEW d1 \in Digests, NEW o1 \in UInt64, Valid(d1, o1), Finish(d1, o1) <= cursors.Write,
              Apart(d1, o1, d, o), NEW m \in Nat, m <= SizeBytes[d1], Sound(d1, o1, m)
       PROVE  \A i \in 0 .. m - 1 : data'[(o1 + i) % dataSize] = <<d1, i>> \/ DamagedBy(clobbered', o1, i)
    <2> SUFFICES ASSUME NEW i \in 0 .. m - 1
                 PROVE  data'[(o1 + i) % dataSize] = <<d1, i>> \/ DamagedBy(clobbered', o1, i)
        OBVIOUS
    <2>1. SizeBytes[d1] \in Nat
        BY FinishFacts
    <2>2. i \in 0 .. SizeBytes[d1] - 1
        BY <1>18, <2>1
    <2>3. data[(o1 + i) % dataSize] = <<d1, i>> \/ DamagedBy(clobbered, o1, i)
        BY <1>18 DEF Sound, Damaged, DamagedBy
    <2> QED
        BY <1>17, <1>18, <2>2, <2>3
<1>19. ASSUME Valid(d, o), good
       PROVE  \A i \in 0 .. (done + n) - 1 : data'[(o + i) % dataSize] = <<d, i>> \/ DamagedBy(clobbered', o, i)
    <2> SUFFICES ASSUME NEW i \in 0 .. (done + n) - 1
                 PROVE  data'[(o + i) % dataSize] = <<d, i>> \/ DamagedBy(clobbered', o, i)
        OBVIOUS
    <2>1. i \in Nat /\ i < done + n /\ i \in 0 .. SizeBytes[d] - 1
        BY <1>7
    <2>2. CASE i < done
        <3>1. PICK x : x = (o + i) % dataSize
            OBVIOUS
        <3>2. x \in 0 .. dataSize - 1
            <4>1. x \in Nat /\ x < dataSize
                BY <1>7, <2>1, <3>1, Division
            <4> QED
                BY <1>7, <4>1
        <3>3. x \notin W
            <4> SUFFICES ASSUME x \in W PROVE FALSE
                OBVIOUS
            <4>1. PICK j \in 0 .. n - 1 : x = (o + (done + j)) % dataSize
                BY <1>1, <1>5, <1>7, WrittenPosition
            <4>2. done + j \in 0 .. SizeBytes[d] - 1 /\ i < done + j
                BY <1>7, <2>1, <2>2
            <4> QED
                BY <1>1, <1>16, <1>19, <2>1, <3>1, <4>1, <4>2, PositionsOfOne
        <3>4. data'[x] = data[x] /\ (x \in clobbered => x \in clobbered')
            BY <1>9, <1>10, <3>2, <3>3
        <3>5. Sound(d, o, done)
            BY <1>1, <1>2, <1>4, <1>19 DEF DataSound
        <3>6. i \in 0 .. done - 1
            BY <2>1, <2>2
        <3>7. data[x] = <<d, i>> \/ DamagedBy(clobbered, o, i)
            BY <3>1, <3>5, <3>6 DEF Sound, Damaged, DamagedBy
        <3> QED
            BY <3>1, <3>4, <3>7 DEF DamagedBy
    <2>3. CASE i >= done /\ (o % dataSize) + i >= dataSize
        BY <2>3 DEF DamagedBy
    <2>4. CASE i >= done /\ (o % dataSize) + i < dataSize
        <3>1. PICK a : a = o % dataSize
            OBVIOUS
        <3>2. a \in Nat /\ a + i < dataSize
            BY <1>7, <2>4, <3>1, Division
        <3>3. a + done < dataSize
            BY <1>7, <2>1, <2>4, <3>2
        <3>4. (o + i) % dataSize = a + i
            BY <1>7, <2>1, <3>1, <3>2, ModShift
        <3>5. wo = a + done
            BY <1>6, <1>7, <3>1, <3>3, ModShift
        <3>6. a + i \in 0 .. dataSize - 1 /\ a + i \in wo .. wo + n - 1
            BY <1>7, <2>1, <2>4, <3>2, <3>5
        <3>7. a + i \in W
            BY <1>5, <1>6, <1>8, <3>6 DEF WritePositions
        <3>8. data'[a + i] = <<d, done + (a + i) - wo>>
            BY <1>9, <1>19, <3>6, <3>7
        <3>9. done + (a + i) - wo = i
            BY <2>1, <3>2, <3>5
        <3> QED
            BY <3>4, <3>8, <3>9
    <2>5. o % dataSize \in Nat
        BY <1>7, Division
    <2> QED
        BY <1>7, <2>1, <2>2, <2>3, <2>4, <2>5
<1>20. \A q \in Putters : Writing(q) => put[q] \in Upload
    BY <1>1, CallFacts
<1>21. \A w \in written : w[1] \in Digests /\ w[2] \in UInt64 /\ w = <<w[1], w[2]>>
    BY <1>1
<1>22. DataSound'
    <2>1. ASSUME NEW w \in written, Valid(w[1], w[2])
          PROVE  \A i \in 0 .. SizeBytes[w[1]] - 1 :
                    data'[(w[2] + i) % dataSize] = <<w[1], i>> \/ DamagedBy(clobbered', w[2], i)
        <3>1. PICK d1 \in Digests, o1 \in UInt64 : d1 = w[1] /\ o1 = w[2]
            BY <1>21
        <3>2. Finish(d1, o1) <= cursors.Write /\ Apart(d1, o1, d, o)
            BY <1>1, <1>2, <1>4, <3>1 DEF SpaceApart
        <3>3. Sound(d1, o1, SizeBytes[d1]) /\ Valid(d1, o1)
            BY <1>1, <2>1, <3>1 DEF DataSound
        <3>4. SizeBytes[d1] \in Nat /\ SizeBytes[d1] <= SizeBytes[d1]
            BY FinishFacts
        <3>5. \A i \in 0 .. SizeBytes[d1] - 1 :
                 data'[(o1 + i) % dataSize] = <<d1, i>> \/ DamagedBy(clobbered', o1, i)
            BY <1>18, <3>2, <3>3, <3>4
        <3> QED
            BY <3>1, <3>5
    <2>2. ASSUME NEW q \in Putters, Writing(q), put'[q].good, Valid(put[q].digest, put[q].offset)
          PROVE  \A i \in 0 .. put'[q].done - 1 :
                    data'[(put[q].offset + i) % dataSize] = <<put[q].digest, i>>
                    \/ DamagedBy(clobbered', put[q].offset, i)
        <3>1. CASE q = p
            BY <1>4, <1>12, <1>19, <2>2, <3>1
        <3>2. CASE q # p
            <4>1. put'[q] = put[q] /\ put[q] \in Upload
                BY <1>11, <1>20, <2>2, <3>2
            <4>2. PICK d1 \in Digests, o1 \in UInt64, m \in Nat :
                     d1 = put[q].digest /\ o1 = put[q].offset /\ m = put[q].done
                BY <4>1 DEF Upload
            <4>3. Finish(d1, o1) <= cursors.Write /\ Apart(d1, o1, d, o)
                BY <1>1, <1>2, <1>4, <2>2, <3>2, <4>2 DEF SpaceApart
            <4>4. Sound(d1, o1, m) /\ Valid(d1, o1) /\ m <= SizeBytes[d1]
                BY <1>1, <2>2, <4>1, <4>2 DEF DataSound, CallsOK
            <4>5. \A i \in 0 .. m - 1 :
                     data'[(o1 + i) % dataSize] = <<d1, i>> \/ DamagedBy(clobbered', o1, i)
                BY <1>18, <4>3, <4>4
            <4> QED
                BY <4>1, <4>2, <4>5
        <3> QED
            BY <3>1, <3>2
    <2> QED
        BY <1>2, <1>13, <2>1, <2>2 DEF DataSound, Sound, Damaged, DamagedBy, Valid
<1>23. ReadersSeeTheirBlob'
    <2> SUFFICES ASSUME NEW g \in Getters, Reading(g), ~get[g].good,
                        Valid(get[g].digest, get[g].offset)
                 PROVE  \E i \in 0 .. get[g].done - 1 : DamagedBy(clobbered', get[g].offset, i)
        BY <1>2 DEF ReadersSeeTheirBlob, Reading, Valid, Damaged, DamagedBy
    <2>1. get[g] \in Download
        BY <1>1, CallFacts
    <2>2. PICK d1 \in Digests, o1 \in UInt64, m \in Nat :
             d1 = get[g].digest /\ o1 = get[g].offset /\ m = get[g].done
        BY <2>1 DEF Download
    <2>3. <<d1, o1>> \in written /\ m <= SizeBytes[d1] /\ SizeBytes[d1] \in Nat
        BY <1>1, <2>2, FinishFacts DEF CallsOK
    <2>4. <<d1, o1>>[1] = d1 /\ <<d1, o1>>[2] = o1
        OBVIOUS
    <2>5. Finish(d1, o1) <= cursors.Write /\ Apart(d1, o1, d, o)
        BY <1>1, <1>2, <1>4, <2>3, <2>4 DEF SpaceApart
    <2>6. PICK i \in 0 .. m - 1 : DamagedBy(clobbered, o1, i)
        BY <1>1, <2>2 DEF ReadersSeeTheirBlob, Reading, Valid, Damaged, DamagedBy
    <2>7. i \in 0 .. SizeBytes[d1] - 1
        BY <2>3
    <2>8. DamagedBy(clobbered', o1, i)
        BY <1>17, <2>2, <2>5, <2>6, <2>7
    <2> QED
        BY <2>2, <2>6, <2>8
<1>24. EntriesWritten'
    BY <1>2 DEF StorageInvariant, EntriesWritten, Known
<1>25. data' = [i \in 0 .. dataSize - 1 |-> data'[i]]
    BY <1>9
<1>26. Roomy(cursors') /\ writeCursor' \in UInt64 /\ written' \subseteq Digests \X UInt64
    BY <1>2 DEF StorageInvariant
<1> QED
    BY <1>14, <1>15, <1>22, <1>23, <1>24, <1>25, <1>26 DEF StorageInvariant

---------------------------------------------------------------------------
\* The invariant holds: spaces that were handed out have no offset in common,
\* table and cache name only data that was written, and valid data is there
\* but for the two kinds of damage that Damaged describes.
THEOREM StorageInvariantHolds == Spec => []StorageInvariant
<1>1. StorageInvariant /\ [Next]_vars => StorageInvariant'
    <2> SUFFICES ASSUME StorageInvariant, [Next]_vars PROVE StorageInvariant'
        OBVIOUS
    <2>1. ASSUME NEW p \in Putters, NEW d \in Digests, NEW good \in BOOLEAN, PutAllocate(p, d, good)
          PROVE  StorageInvariant'
        BY <2>1, PutAllocateStep
    <2>2. ASSUME NEW p \in Putters, NEW n \in 1 .. BufferSize, PutWrite(p, n) PROVE StorageInvariant'
        BY <2>2, PutWriteStep
    <2>3. ASSUME NEW p \in Putters, PutAborts(p) PROVE StorageInvariant'
        BY <2>3, PutAbortsStep
    <2>4. ASSUME NEW p \in Putters, PutPublish(p) PROVE StorageInvariant'
        BY <2>4, PutPublishStep
    <2>5. ASSUME NEW g \in Getters, NEW d \in Digests, GetLookup(g, d) PROVE StorageInvariant'
        BY <2>5, GetLookupStep
    <2>6. ASSUME NEW g \in Getters, NEW n \in 1 .. BufferSize, GetRead(g, n) PROVE StorageInvariant'
        BY <2>6, GetReadStep
    <2>7. ASSUME NEW g \in Getters, GetSucceeds(g) PROVE StorageInvariant'
        BY <2>7, GetSucceedsStep
    <2>8. ASSUME NEW g \in Getters, GetDiscards(g) PROVE StorageInvariant'
        BY <2>8, GetDiscardsStep
    <2>9. ASSUME NEW d \in Digests, FindMissing(d) PROVE StorageInvariant'
        BY <2>9, FindMissingStep
    <2>10. CASE Restart
        BY <2>10, RestartStep
    <2>11. CASE UNCHANGED vars
        BY <2>11, StorageStutter
    <2> QED
        BY <2>1, <2>2, <2>3, <2>4, <2>5, <2>6, <2>7, <2>8, <2>9, <2>10, <2>11 DEF Next
<1> QED
    BY <1>1, StorageInit, PTL DEF Spec

\* circularBlobAccess publishes an offset only after all of the data: no
\* lookup, before or after a restart, leads to an upload that is in progress,
\* was aborted or failed its checksum.
THEOREM OnlyWrittenBlobsAlwaysFound == Spec => []OnlyWrittenBlobsFound
<1>1. StorageInvariant => OnlyWrittenBlobsFound
    BY LookupFacts DEF StorageInvariant, OnlyWrittenBlobsFound
<1> QED
    BY <1>1, StorageInvariantHolds, PTL

\* Whatever a lookup finds is intact but for bytes beyond the end of the data
\* file and bytes that an upload wrote whose own space had been reused.
THEOREM DamageAlwaysExplained == Spec => []DamageExplained
<1>1. StorageInvariant => DamageExplained
    <2> SUFFICES ASSUME StorageInvariant, NEW d \in Digests, NEW e \in Lookup(d), NEW i \in 0 .. e.length - 1
                 PROVE  ByteIntact(e, i) \/ Damaged(e.offset, i)
        BY DEF DamageExplained
    <2>1. /\ EntriesWritten /\ written \subseteq Digests \X UInt64 /\ DataSound
        BY DEF StorageInvariant
    <2>2. e = CacheEntry(d, e.offset, SizeBytes[d]) /\ <<d, e.offset>> \in written /\ Valid(d, e.offset)
        BY <2>1, LookupFacts
    <2>3. e.digest = d /\ e.length = SizeBytes[d]
        BY <2>2 DEF CacheEntry
    <2>4. Sound(d, e.offset, SizeBytes[d])
        BY <2>1, <2>2 DEF DataSound
    <2> QED
        BY <2>3, <2>4 DEF Sound, ByteIntact
<1> QED
    BY <1>1, StorageInvariantHolds, PTL

\* The checksum that merkleBlobAccess verifies fails for a reader only if its
\* space was reused or invalidated meanwhile, or one of the two kinds of damage
\* happened where it read.
THEOREM ReadersAlwaysSeeTheirBlob == Spec => []ReadersSeeTheirBlob
<1>1. StorageInvariant => ReadersSeeTheirBlob
    BY DEF StorageInvariant
<1> QED
    BY <1>1, StorageInvariantHolds, PTL

---------------------------------------------------------------------------
\* Circular storage implements FifoStore.

\* Space as FifoStore sees it.
LEMMA SpaceFacts ==
    ASSUME NEW d \in Digests, NEW o
    PROVE  o + [x \in Digests |-> Positive(SizeBytes[x])][d] = Finish(d, o)
BY DEF Finish

\* The copies after a step that publishes nothing: those at or after the read
\* cursor.
LEMMA CopiesGivenUp ==
    ASSUME StorageInvariant, StorageInvariant', written' = written, cursors.Read <= cursors'.Read
    PROVE  Copies' = {c \in Copies : c[2] >= cursors'.Read}
<1>1. ASSUME NEW w \in written
      PROVE  /\ Contains(cursors, w[2], SizeBytes[w[1]]) <=> cursors.Read <= w[2]
             /\ Contains(cursors', w[2], SizeBytes[w[1]]) <=> cursors'.Read <= w[2]
             /\ w[2] \in Nat
    <2>1. w[1] \in Digests /\ w[2] \in UInt64
        BY DEF StorageInvariant
    <2>2. PICK d \in Digests, o \in UInt64 : d = w[1] /\ o = w[2]
        BY <2>1
    <2>3. Finish(d, o) <= cursors.Write /\ Finish(d, o) <= cursors'.Write
        BY <2>2 DEF StorageInvariant, SpaceApart, Finish
    <2>4. Roomy(cursors) /\ Roomy(cursors')
        BY DEF StorageInvariant
    <2>5. o \in Nat /\ SizeBytes[d] \in Nat
        BY FinishFacts
    <2>6. /\ Contains(cursors, o, SizeBytes[d]) <=> cursors.Read <= o
          /\ Contains(cursors', o, SizeBytes[d]) <=> cursors'.Read <= o
        BY <2>3, <2>4, <2>5, ContainsBelow DEF Finish
    <2> QED
        BY <2>2, <2>5, <2>6
<1>2. cursors.Read \in Nat /\ cursors'.Read \in Nat
    BY RoomyFacts DEF StorageInvariant
<1>3. \A w \in written : cursors'.Read <= w[2] <=> cursors.Read <= w[2] /\ w[2] >= cursors'.Read
    BY <1>1, <1>2
<1> QED
    BY <1>1, <1>3 DEF Copies

\* A step that leaves copies and calls alone as FifoStore sees them.
LEMMA FifoStutter ==
    ASSUME UNCHANGED <<cursors, written>>, Uploads' = Uploads, Downloads' = Downloads
    PROVE  UNCHANGED Fifo!fifoVars
<1>1. Copies' = Copies
    BY DEF Copies
<1> QED
    BY <1>1 DEF Fifo!fifoVars

\* What FifoStore sees of a call of Put or Get that begins, goes on or ends.
LEMMA UploadsChange ==
    ASSUME CallsOK, NEW p \in Putters, NEW new, put' = [put EXCEPT ![p] = new]
    PROVE  /\ Uploads' = [Uploads EXCEPT ![p] = Uploads'[p]]
           /\ Uploads'[p] = IF new = Idle THEN [kind |-> "none"]
                            ELSE [kind |-> "put", digest |-> new.digest, position |-> new.offset, good |-> new.good]
           /\ Uploads'[p] = Uploads[p] => Uploads' = Uploads
<1>1. put'[p] = new /\ \A q \in Putters \ {p} : put'[q] = put[q]
    BY DEF CallsOK
<1>2. \A q \in Putters \ {p} : Uploads'[q] = Uploads[q]
    BY <1>1 DEF Uploads
<1>3. /\ DOMAIN Uploads = Putters /\ Uploads = [q \in Putters |-> Uploads[q]]
      /\ Uploads' = [q \in Putters |-> Uploads'[q]]
    BY DEF Uploads
<1>4. Uploads'[p] = IF new = Idle THEN [kind |-> "none"]
                    ELSE [kind |-> "put", digest |-> new.digest, position |-> new.offset, good |-> new.good]
    BY <1>1 DEF Uploads
<1> QED
    BY <1>2, <1>3, <1>4

LEMMA DownloadsChange ==
    ASSUME CallsOK, NEW g \in Getters, NEW new, get' = [get EXCEPT ![g] = new]
    PROVE  /\ Downloads' = [Downloads EXCEPT ![g] = Downloads'[g]]
           /\ Downloads'[g] = IF new = Idle THEN [kind |-> "none"]
                              ELSE [kind |-> "get", digest |-> new.digest, position |-> new.offset]
           /\ Downloads'[g] = Downloads[g] => Downloads' = Downloads
<1>1. get'[g] = new /\ \A h \in Getters \ {g} : get'[h] = get[h]
    BY DEF CallsOK
<1>2. \A h \in Getters \ {g} : Downloads'[h] = Downloads[h]
    BY <1>1 DEF Downloads
<1>3. /\ DOMAIN Downloads = Getters /\ Downloads = [h \in Getters |-> Downloads[h]]
      /\ Downloads' = [h \in Getters |-> Downloads'[h]]
    BY DEF Downloads
<1>4. Downloads'[g] = IF new = Idle THEN [kind |-> "none"]
                      ELSE [kind |-> "get", digest |-> new.digest, position |-> new.offset]
    BY <1>1 DEF Downloads
<1> QED
    BY <1>2, <1>3, <1>4


\* Put allocates space.
LEMMA FifoBeginUpload ==
    ASSUME StorageInvariant, StorageInvariant', NEW p \in Putters, NEW d \in Digests, NEW good \in BOOLEAN,
           PutAllocate(p, d, good)
    PROVE  Fifo!BeginUpload(p)
<1> DEFINE size == Positive(SizeBytes[d])
           o == InRange(writeCursor, cursors)
           new == [state |-> "writing", digest |-> d, offset |-> o, done |-> 0, good |-> good]
           seen == [kind |-> "put", digest |-> d, position |-> o, good |-> good]
<1>1. /\ cursors.Write < MaxWrite /\ put[p] = Idle
      /\ cursors' = BulkCursors(cursors, writeCursor, size)
      /\ put' = [put EXCEPT ![p] = new]
      /\ UNCHANGED <<get, written>>
    BY CallFacts DEF PutAllocate, BulkOffset, Writing, StorageInvariant
<1>2. Roomy(cursors) /\ Roomy(cursors') /\ writeCursor \in UInt64 /\ CallsOK /\ SpaceApart
      /\ written \subseteq Digests \X UInt64
    BY DEF StorageInvariant
<1>3. /\ cursors.Read \in Nat /\ cursors.Write \in Nat /\ writeCursor \in Nat /\ cursors.Write < Width /\ Width \in Nat
      /\ cursors'.Read \in Nat /\ cursors'.Write \in Nat /\ cursors'.Write - cursors'.Read <= dataSize
      /\ dataSize \in Nat /\ chunkSize \in Nat
    BY <1>2, RoomyFacts, CursorsAssumption DEF UInt64
<1>4. o \in Nat /\ cursors.Read <= o /\ o <= cursors.Write /\ (writeCursor <= o \/ o = cursors.Write)
    BY <1>2, InRangeFacts
<1>5. size \in Nat /\ cursors.Write + size + chunkSize + dataSize <= Width
    BY <1>1, <1>3, RoomForBlob
<1>6. /\ cursors.Read <= cursors'.Read /\ o + size <= cursors'.Write
      /\ cursors'.Read = cursors.Read \/ cursors'.Read + dataSize < o + size + chunkSize
    BY <1>1, <1>2, <1>5, BulkCursorsFacts
<1>7. new # Idle /\ new.digest = d /\ new.offset = o /\ new.good = good
    BY DEF Idle
<1>8. Uploads[p] = [kind |-> "none"]
    BY <1>1 DEF Uploads
<1> HIDE DEF new
<1>9. Uploads'[p] = seen /\ Uploads' = [Uploads EXCEPT ![p] = Uploads'[p]]
    <2>1. CallsOK /\ put' = [put EXCEPT ![p] = new]
        BY <1>1, <1>2
    <2>2. /\ Uploads' = [Uploads EXCEPT ![p] = Uploads'[p]]
          /\ Uploads'[p] = IF new = Idle THEN [kind |-> "none"]
                           ELSE [kind |-> "put", digest |-> new.digest, position |-> new.offset, good |-> new.good]
        BY <2>1, UploadsChange
    <2>3. Uploads'[p] = [kind |-> "put", digest |-> new.digest, position |-> new.offset, good |-> new.good]
        BY <1>7, <2>2
    <2> HIDE DEF o
    <2> QED
        BY <1>7, <2>2, <2>3
<1>10. o \in UInt64
    BY <1>3, <1>4 DEF UInt64
<1>11. seen \in Fifo!Upload /\ seen.position = o /\ seen.digest = d
    BY <1>10 DEF Fifo!Upload
<1> HIDE DEF o, size, seen
<1>12. ASSUME NEW x \in Digests, NEW y \in UInt64, Finish(x, y) <= cursors.Write, Finish(x, y) <= writeCursor
       PROVE  y + [z \in Digests |-> Positive(SizeBytes[z])][x] <= o
    <2>1. Finish(x, y) \in Nat
        BY FinishFacts
    <2>2. Finish(x, y) <= o
        BY <1>3, <1>4, <1>12, <2>1
    <2> QED
        BY <2>2, SpaceFacts
<1>13. \A c \in Copies : c[2] + [z \in Digests |-> Positive(SizeBytes[z])][c[1]] <= o
    <2> SUFFICES ASSUME NEW c \in Copies PROVE c[2] + [z \in Digests |-> Positive(SizeBytes[z])][c[1]] <= o
        OBVIOUS
    <2>1. c \in written
        BY DEF Copies
    <2> QED
        BY <1>2, <1>12, <2>1 DEF SpaceApart
<1>14. ASSUME NEW q \in Putters, Uploads[q] # Fifo!NoCall
       PROVE  Uploads[q].position + [z \in Digests |-> Positive(SizeBytes[z])][Uploads[q].digest] <= o
    <2>1. Writing(q)
        BY <1>2, <1>14, CallFacts DEF Uploads, Fifo!NoCall
    <2>2. put[q] # Idle
        BY <2>1 DEF Writing, Idle
    <2>3. Uploads[q].position = put[q].offset /\ Uploads[q].digest = put[q].digest
        BY <2>2 DEF Uploads
    <2>4. put[q].digest \in Digests /\ put[q].offset \in UInt64
        BY <1>2, <2>1, CallFacts DEF Upload
    <2> QED
        BY <1>2, <1>12, <2>1, <2>3, <2>4 DEF SpaceApart
<1>15. Fifo!IsFree(o)
    BY <1>4, <1>13, <1>14 DEF Fifo!IsFree
<1>16. Fifo!GiveUpOldest
    BY <1>1, <1>6, CopiesGivenUp DEF Fifo!GiveUpOldest
<1>17. Downloads' = Downloads
    BY <1>1 DEF Downloads
<1>18. o + [z \in Digests |-> Positive(SizeBytes[z])][d] = o + size
    BY DEF size
<1>19. o + size <= cursors'.Read + dataSize
    BY <1>3, <1>4, <1>5, <1>6
<1>20. cursors'.Read = cursors.Read \/ (cursors'.Read > cursors.Read /\ cursors'.Read + dataSize < o + size + chunkSize)
    BY <1>3, <1>6
<1> QED
    BY <1>8, <1>9, <1>11, <1>15, <1>16, <1>17, <1>18, <1>19, <1>20 DEF Fifo!BeginUpload, Fifo!NoCall

\* Put ends, with or without a copy.
LEMMA FifoPublish ==
    ASSUME StorageInvariant, NEW p \in Putters, PutPublish(p)
    PROVE  Fifo!Publish(p)
<1>1. Writing(p) /\ put[p].good /\ put' = [put EXCEPT ![p] = Idle] /\ UNCHANGED <<cursors, get>>
      /\ put[p].done = SizeBytes[put[p].digest]
    BY DEF PutPublish, ReadyToPublish, Writing
<1>2. CallsOK /\ SpaceApart /\ Roomy(cursors)
    BY DEF StorageInvariant
<1>3. put[p] \in Upload /\ put[p] # Idle
    BY <1>1, <1>2, CallFacts DEF Writing, Idle
<1>4. PICK d \in Digests, o \in UInt64 : d = put[p].digest /\ o = put[p].offset
    BY <1>3 DEF Upload
<1>5. written' = written \cup {<<d, o>>}
    BY <1>1, <1>4 DEF PutPublish
<1>6. Finish(d, o) <= cursors.Write
    BY <1>1, <1>2, <1>4 DEF SpaceApart
<1>7. Contains(cursors, o, SizeBytes[d]) <=> ~(o < cursors.Read)
    <2>1. cursors.Read \in Nat /\ o \in Nat
        BY <1>2, RoomyFacts, FinishFacts
    <2> QED
        BY <1>2, <1>6, <2>1, ValidFacts DEF Valid
<1>8. Copies' = IF o < cursors.Read THEN Copies ELSE Copies \cup {<<d, o>>}
    <2>1. <<d, o>>[1] = d /\ <<d, o>>[2] = o
        OBVIOUS
    <2>2. Copies' = {w \in written \cup {<<d, o>>} : Contains(cursors, w[2], SizeBytes[w[1]])}
        BY <1>1, <1>5 DEF Copies
    <2> QED
        BY <1>7, <2>1, <2>2 DEF Copies
<1>9. Uploads[p] = [kind |-> "put", digest |-> d, position |-> o, good |-> put[p].good]
    BY <1>3, <1>4 DEF Uploads
<1>10. Uploads[p].kind = "put" /\ Uploads[p].digest = d /\ Uploads[p].position = o /\ Uploads[p].good
    BY <1>1, <1>9
<1>11. Uploads[p] # Fifo!NoCall
    BY <1>10 DEF Fifo!NoCall
<1>12. Uploads' = [Uploads EXCEPT ![p] = Fifo!NoCall]
    BY <1>1, <1>2, UploadsChange DEF Fifo!NoCall
<1>13. Downloads' = Downloads
    BY <1>1 DEF Downloads
<1> QED
    BY <1>1, <1>8, <1>10, <1>11, <1>12, <1>13 DEF Fifo!Publish

LEMMA FifoAbandon ==
    ASSUME StorageInvariant, NEW p \in Putters, PutAborts(p)
    PROVE  Fifo!Abandon(p)
<1>1. Writing(p) /\ put' = [put EXCEPT ![p] = Idle] /\ UNCHANGED <<cursors, written, get>>
    BY DEF PutAborts, Writing
<1>2. CallsOK
    BY DEF StorageInvariant
<1>3. put[p] # Idle
    BY <1>1 DEF Writing, Idle
<1>4. Uploads[p].kind = "put"
    BY <1>3 DEF Uploads
<1>5. Uploads[p] # Fifo!NoCall
    BY <1>4 DEF Fifo!NoCall
<1>6. Uploads' = [Uploads EXCEPT ![p] = Fifo!NoCall]
    BY <1>1, <1>2, UploadsChange DEF Fifo!NoCall
<1>7. Copies' = Copies /\ Downloads' = Downloads
    BY <1>1 DEF Copies, Downloads
<1> QED
    BY <1>1, <1>5, <1>6, <1>7 DEF Fifo!Abandon

\* Put writes some bytes.
LEMMA FifoWrites ==
    ASSUME StorageInvariant, NEW p \in Putters, NEW n \in 1 .. BufferSize, PutWrite(p, n)
    PROVE  UNCHANGED Fifo!fifoVars
<1>1. Writing(p) /\ put' = [put EXCEPT ![p].done = @ + n] /\ UNCHANGED <<cursors, written, get>>
    BY DEF PutWrite, Writing
<1>2. CallsOK
    BY DEF StorageInvariant
<1>3. put[p] \in Upload /\ put[p] # Idle
    BY <1>1, <1>2, CallFacts DEF Writing, Idle
<1>4. PICK new : new = [put[p] EXCEPT !.done = put[p].done + n]
    OBVIOUS
<1>5. put' = [put EXCEPT ![p] = new]
    BY <1>1, <1>2, <1>4 DEF CallsOK
<1>6. /\ new.state = put[p].state /\ new.digest = put[p].digest
      /\ new.offset = put[p].offset /\ new.good = put[p].good
    BY <1>3, <1>4 DEF Upload
<1>7. new # Idle
    BY <1>1, <1>6 DEF Writing, Idle
<1>8. Uploads'[p] = Uploads[p]
    BY <1>2, <1>3, <1>5, <1>6, <1>7, UploadsChange DEF Uploads
<1>9. Uploads' = Uploads
    BY <1>2, <1>5, <1>8, UploadsChange
<1>10. Downloads' = Downloads
    BY <1>1 DEF Downloads
<1> QED
    BY <1>1, <1>9, <1>10, FifoStutter


\* Get finds a copy.
LEMMA FifoFind ==
    ASSUME StorageInvariant, NEW g \in Getters, NEW d \in Digests, GetLookup(g, d)
    PROVE  \E c \in Copies : Fifo!Find(g, c)
<1>1. PICK e \in Lookup(d) :
         get' = [get EXCEPT ![g] = [state |-> "reading", digest |-> d,
                    offset |-> e.offset, done |-> 0, good |-> TRUE]]
    BY DEF GetLookup
<1>2. get[g].state = "idle" /\ UNCHANGED <<cursors, written, put>>
    BY DEF GetLookup
<1>3. CallsOK /\ EntriesWritten /\ written \subseteq Digests \X UInt64
    BY DEF StorageInvariant
<1>4. <<d, e.offset>> \in written /\ Valid(d, e.offset)
    BY <1>3, LookupFacts
<1>5. PICK c \in written : c = <<d, e.offset>> /\ c[1] = d /\ c[2] = e.offset
    BY <1>4
<1>6. c \in Copies
    BY <1>4, <1>5 DEF Copies, Valid
<1>7. PICK new : new = [state |-> "reading", digest |-> d, offset |-> e.offset, done |-> 0, good |-> TRUE]
    OBVIOUS
<1>8. new # Idle /\ new.digest = d /\ new.offset = e.offset
    BY <1>7 DEF Idle
<1>9. get[g] = Idle
    BY <1>2, <1>3, CallFacts DEF Reading
<1>10. Downloads[g] = Fifo!NoCall
    BY <1>9 DEF Downloads, Fifo!NoCall
<1>11. get' = [get EXCEPT ![g] = new]
    BY <1>1, <1>7
<1>12. /\ Downloads' = [Downloads EXCEPT ![g] = Downloads'[g]]
       /\ Downloads'[g] = [kind |-> "get", digest |-> d, position |-> e.offset]
    BY <1>3, <1>8, <1>11, DownloadsChange
<1>13. Downloads' = [Downloads EXCEPT ![g] = Fifo!Download(c[1], c[2])]
    BY <1>5, <1>12 DEF Fifo!Download
<1>14. Copies' = Copies /\ Uploads' = Uploads
    BY <1>2 DEF Copies, Uploads
<1> QED
    BY <1>2, <1>6, <1>10, <1>13, <1>14 DEF Fifo!Find

\* Get reads some bytes.
LEMMA FifoReads ==
    ASSUME StorageInvariant, NEW g \in Getters, NEW n \in 1 .. BufferSize, GetRead(g, n)
    PROVE  UNCHANGED Fifo!fifoVars
<1>1. Reading(g) /\ UNCHANGED <<cursors, written, put>>
    BY DEF GetRead, Reading
<1>2. CallsOK
    BY DEF StorageInvariant
<1>3. PICK done, good : get' = [get EXCEPT ![g].done = done, ![g].good = good]
    BY DEF GetRead
<1>4. get[g] \in Download /\ get[g] # Idle
    BY <1>1, <1>2, CallFacts DEF Reading, Idle
<1>5. PICK new : new = [get[g] EXCEPT !.done = done, !.good = good]
    OBVIOUS
<1>6. get' = [get EXCEPT ![g] = new]
    BY <1>2, <1>3, <1>5 DEF CallsOK
<1>7. new.state = get[g].state /\ new.digest = get[g].digest /\ new.offset = get[g].offset
    BY <1>4, <1>5 DEF Download
<1>8. new # Idle
    BY <1>1, <1>7 DEF Reading, Idle
<1>9. Downloads'[g] = Downloads[g]
    BY <1>2, <1>4, <1>6, <1>7, <1>8, DownloadsChange DEF Downloads
<1>10. Downloads' = Downloads
    BY <1>2, <1>6, <1>9, DownloadsChange
<1>11. Uploads' = Uploads
    BY <1>1 DEF Uploads
<1> QED
    BY <1>1, <1>10, <1>11, FifoStutter

\* Get ends, and what was bad is given up.
LEMMA FifoEnds ==
    ASSUME StorageInvariant, NEW g \in Getters, GetSucceeds(g)
    PROVE  Fifo!EndDownload(g)
<1>1. Reading(g) /\ get' = [get EXCEPT ![g] = Idle] /\ UNCHANGED <<cursors, written, put>>
    BY DEF GetSucceeds, AtEnd, Reading
<1>2. CallsOK
    BY DEF StorageInvariant
<1>3. get[g] # Idle
    BY <1>1 DEF Reading, Idle
<1>4. Downloads[g].kind = "get"
    BY <1>3 DEF Downloads
<1>5. Downloads[g] # Fifo!NoCall
    BY <1>4 DEF Fifo!NoCall
<1>6. Downloads' = [Downloads EXCEPT ![g] = Fifo!NoCall]
    BY <1>1, <1>2, DownloadsChange DEF Fifo!NoCall
<1>7. Copies' = Copies /\ Uploads' = Uploads
    BY <1>1 DEF Copies, Uploads
<1> QED
    BY <1>1, <1>5, <1>6, <1>7 DEF Fifo!EndDownload

LEMMA FifoDiscards ==
    ASSUME StorageInvariant, StorageInvariant', NEW g \in Getters, GetDiscards(g)
    PROVE  Fifo!EndDownload(g) \/ \E c \in Copies : Fifo!Discard(g, c)
<1>1. Reading(g) /\ get' = [get EXCEPT ![g] = Idle] /\ UNCHANGED <<written, put>>
    BY DEF GetDiscards, AtEnd, Reading
<1>2. CallsOK /\ EntriesWritten /\ written \subseteq Digests \X UInt64 /\ SpaceApart /\ Roomy(cursors)
    BY DEF StorageInvariant
<1>3. get[g] # Idle /\ get[g] \in Download
    BY <1>1, <1>2, CallFacts DEF Reading, Idle
<1>4. PICK d \in Digests : d = get[g].digest
    BY <1>3 DEF Download
<1>5. Downloads[g].kind = "get" /\ Downloads[g].digest = d
    BY <1>3, <1>4 DEF Downloads
<1>6. Downloads[g] # Fifo!NoCall
    BY <1>5 DEF Fifo!NoCall
<1>7. Downloads' = [Downloads EXCEPT ![g] = Fifo!NoCall]
    BY <1>1, <1>2, DownloadsChange DEF Fifo!NoCall
<1>8. Uploads' = Uploads
    BY <1>1 DEF Uploads
<1>9. cursors' = IF Lookup(d) = {} THEN cursors
                 ELSE FileInvalidate(cursors, (CHOOSE x \in Lookup(d) : TRUE).offset,
                                     Positive((CHOOSE x \in Lookup(d) : TRUE).length))
    BY <1>4 DEF GetDiscards
<1>10. CASE Lookup(d) = {}
    <2>1. cursors' = cursors /\ Copies' = Copies
        BY <1>1, <1>9, <1>10 DEF Copies
    <2> QED
        BY <1>6, <1>7, <1>8, <2>1 DEF Fifo!EndDownload
<1>11. CASE Lookup(d) # {}
    <2>1. PICK e \in Lookup(d) : cursors' = FileInvalidate(cursors, e.offset, Positive(e.length))
        BY <1>9, <1>11
    <2>2. <<d, e.offset>> \in written /\ Valid(d, e.offset) /\ e = CacheEntry(d, e.offset, SizeBytes[d])
        BY <1>2, LookupFacts
    <2>3. e.length = SizeBytes[d] /\ e.offset \in UInt64
        BY <1>2, <2>2 DEF CacheEntry
    <2>4. Finish(d, e.offset) <= cursors.Write
        BY <1>2, <2>2 DEF SpaceApart
    <2>5. cursors.Read <= e.offset
        BY <1>2, <2>2, <2>3, <2>4, ValidFacts
    <2>6. e.offset \in Nat /\ Positive(e.length) \in Nat /\ e.offset + Positive(e.length) = Finish(d, e.offset)
        BY <2>3, FinishFacts DEF Finish
    <2>7. cursors'.Read = Finish(d, e.offset) /\ cursors.Read <= cursors'.Read
        BY <1>2, <2>1, <2>4, <2>5, <2>6, FileInvalidateFacts
    <2>8. PICK c \in written : c = <<d, e.offset>> /\ c[1] = d /\ c[2] = e.offset
        BY <2>2
    <2>9. c \in Copies
        BY <2>2, <2>8 DEF Copies, Valid
    <2>10. cursors'.Read = c[2] + [x \in Digests |-> Positive(SizeBytes[x])][c[1]]
        BY <2>7, <2>8, SpaceFacts
    <2>11. Fifo!GiveUpOldest
        BY <1>1, <2>7, CopiesGivenUp DEF Fifo!GiveUpOldest
    <2>12. Fifo!Discard(g, c)
        BY <1>5, <1>6, <1>7, <1>8, <2>8, <2>10, <2>11 DEF Fifo!Discard
    <2> QED
        BY <2>9, <2>12
<1> QED
    BY <1>10, <1>11

\* circularBlobAccess is a log of complete copies that gives up the oldest first,
\* for any blobs, file and chunk sizes, concurrent calls and restarts: every step
\* is one of FifoStore, or leaves what FifoStore sees unchanged.
THEOREM CircularImplementsFifo == Spec => ImplementsFifo
<1>1. Init => Fifo!FifoInit
    <2> SUFFICES ASSUME Init PROVE Fifo!FifoInit
        OBVIOUS
    <2>1. Copies = {} /\ cursors.Read = 0
        BY DEF Init, Copies
    <2>2. Uploads = [p \in Putters |-> Fifo!NoCall] /\ Downloads = [g \in Getters |-> Fifo!NoCall]
        BY DEF Init, Uploads, Downloads, Fifo!NoCall
    <2> QED
        BY <2>1, <2>2 DEF Fifo!FifoInit
<1>2. StorageInvariant /\ StorageInvariant' /\ [Next]_vars => [Fifo!FifoNext]_(Fifo!fifoVars)
    <2> SUFFICES ASSUME StorageInvariant, StorageInvariant', [Next]_vars
                 PROVE  Fifo!FifoNext \/ UNCHANGED Fifo!fifoVars
        OBVIOUS
    <2>1. ASSUME NEW p \in Putters, NEW d \in Digests, NEW good \in BOOLEAN, PutAllocate(p, d, good)
          PROVE  Fifo!FifoNext
        BY <2>1, FifoBeginUpload DEF Fifo!FifoNext
    <2>2. ASSUME NEW p \in Putters, PutAborts(p) \/ PutPublish(p) PROVE Fifo!FifoNext
        BY <2>2, FifoAbandon, FifoPublish DEF Fifo!FifoNext
    <2>3. ASSUME NEW g \in Getters, NEW d \in Digests, GetLookup(g, d) PROVE Fifo!FifoNext
        BY <2>3, FifoFind DEF Fifo!FifoNext
    <2>4. ASSUME NEW g \in Getters, GetSucceeds(g) \/ GetDiscards(g) PROVE Fifo!FifoNext
        BY <2>4, FifoEnds, FifoDiscards DEF Fifo!FifoNext
    <2>5. CASE Restart
        <3>1. UNCHANGED <<cursors, written>> /\ put' = [p \in Putters |-> Idle] /\ get' = [g \in Getters |-> Idle]
            BY <2>5 DEF Restart
        <3>2. Copies' = Copies
            BY <3>1 DEF Copies
        <3>3. Uploads' = [p \in Putters |-> Fifo!NoCall] /\ Downloads' = [g \in Getters |-> Fifo!NoCall]
            BY <3>1 DEF Uploads, Downloads, Fifo!NoCall
        <3> QED
            BY <3>1, <3>2, <3>3 DEF Fifo!FifoNext, Fifo!Crash
    <2>6. ASSUME UNCHANGED <<cursors, written, put, get>> PROVE UNCHANGED Fifo!fifoVars
        <3>1. Uploads' = Uploads /\ Downloads' = Downloads
            BY <2>6 DEF Uploads, Downloads
        <3> QED
            BY <2>6, <3>1, FifoStutter
    <2>7. ASSUME NEW d \in Digests, FindMissing(d) PROVE UNCHANGED Fifo!fifoVars
        BY <2>6, <2>7 DEF FindMissing
    <2>8. CASE UNCHANGED vars
        BY <2>6, <2>8 DEF vars
    <2> QED
        BY <2>1, <2>2, <2>3, <2>4, <2>5, <2>7, <2>8, FifoWrites, FifoReads DEF Next
<1> QED
    BY <1>1, <1>2, StorageInvariantHolds, PTL DEF Spec, ImplementsFifo, Fifo!FifoSpec
===========================================================================
