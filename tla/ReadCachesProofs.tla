-------------------------- MODULE ReadCachesProofs --------------------------
(***************************************************************************)
(* Proofs about the read caches of a worker, for any number of threads,    *)
(* any files and directories, any limits, and any failures and restarts.   *)
(***************************************************************************)
EXTENDS ReadCaches, TLAPS, FiniteSetTheorems, SequenceTheorems

FileLabels == {"lookup", "hit", "open", "copy", "insert", "space"}
DirectoryLabels == {"getDirectory", "insertDirectory"}
Requests == Files \cup Directories \cup {Nothing}
Call == [pc : FileLabels \cup DirectoryLabels \cup {"idle"}, request : Requests,
         target : Requests \cup {Partial}, result : {"none", "OK", "error"}, failed : BOOLEAN]

CacheTypes ==
    /\ readers \in SUBSET Threads
    /\ writer \in Threads \cup {NoThread}
    /\ filesPresentList \in Seq(Files)
    /\ directoriesPresentList \in Seq(Directories)
    /\ call \in [Threads -> Call]

\* What is cached, according to the lists.
CachedFiles == ToSet(filesPresentList)
CachedDirectories == ToSet(directoriesPresentList)

NoneTwice(s) == \A i, j \in 1 .. Len(s) : s[i] = s[j] => i = j

\* As many units as the keys in s are large: the sum of the sizes of s is how
\* many these are.
Units(g, s) == {u \in s \X Nat : u[2] \in 1 .. g[u[1]]}

\* The books of the hardlinking cache and its directory are those of the list,
\* also while a thread is changing the cache.
FileBooks ==
    /\ NoneTwice(filesPresentList)
    /\ filesPresentSize = [k \in CachedFiles |-> SizeBytes[k[1]]]
    /\ cacheDirectory = [k \in CachedFiles |-> k]
    /\ filesPresentTotalSize \in Nat
    /\ filesPresentTotalSize = Cardinality(Units(filesPresentSize, CachedFiles))

DirectoryBooks ==
    /\ NoneTwice(directoriesPresentList)
    /\ directoriesPresentMessage = [d \in CachedDirectories |-> d]

Limits ==
    /\ Len(filesPresentList) <= maxFiles
    /\ Len(filesPresentList) > 1 => filesPresentTotalSize <= maxSize
    /\ Len(directoriesPresentList) <= maxDirectories

\* The lock of the hardlinking cache is held as the calls are.
LockHeld ==
    /\ \A t \in Threads : (t \in readers <=> At(t, "hit")) /\ (writer = t <=> At(t, "space"))
    /\ writer # NoThread => readers = {}

\* A call returns what it asked for or after a failure below it.  A hit stays
\* in the cache and a miss that is being stored stays out of it.
CallFine(t) ==
    /\ call[t].pc \in FileLabels => call[t].request \in Files
    /\ call[t].pc \in DirectoryLabels => call[t].request \in Directories
    /\ call[t].pc # "idle" => call[t].result = "none"
    /\ call[t].pc \in {"insert", "space", "insertDirectory"} => call[t].target = call[t].request
    /\ call[t].result = "OK" => call[t].target = call[t].request
    /\ call[t].result = "error" => call[t].failed = TRUE
    /\ At(t, "hit") => call[t].request \in CachedFiles
    /\ At(t, "space") => call[t].request \notin CachedFiles

CallsFine == \A t \in Threads : CallFine(t)

CacheInvariant ==
    /\ CacheTypes
    /\ FileBooks
    /\ DirectoryBooks
    /\ Limits
    /\ LockHeld
    /\ CallsFine

---------------------------------------------------------------------------
\* The units of one key are as many as its size.
LEMMA UnitsOfOne ==
    ASSUME NEW k, NEW g, g[k] \in Nat
    PROVE  IsFiniteSet(Units(g, {k})) /\ Cardinality(Units(g, {k})) = g[k]
<1> DEFINE f == [i \in 1 .. g[k] |-> <<k, i>>]
<1>1. IsFiniteSet(1 .. g[k]) /\ Cardinality(1 .. g[k]) = g[k]
    BY FS_Interval
<1>2. \A i \in 1 .. g[k] : <<k, i>> \in Units(g, {k})
    BY DEF Units
<1>3. \A u \in Units(g, {k}) : u[2] \in 1 .. g[k] /\ u = <<k, u[2]>>
    BY DEF Units
<1>4. f \in [1 .. g[k] -> Units(g, {k})]
    BY <1>2
<1>5. f \in Injection(1 .. g[k], Units(g, {k}))
    BY <1>4 DEF Injection, IsInjective
<1>6. f \in Surjection(1 .. g[k], Units(g, {k}))
    <2>1. \A u \in Units(g, {k}) : f[u[2]] = u
        BY <1>3
    <2> QED
        BY <1>3, <1>4, <2>1 DEF Surjection
<1>7. ExistsBijection(1 .. g[k], Units(g, {k}))
    BY <1>5, <1>6 DEF ExistsBijection, Bijection
<1> QED
    BY <1>1, <1>7, FS_Bijection

\* The units of one more key come on top of the others.
LEMMA UnitsOfOneMore ==
    ASSUME NEW k, NEW s, NEW g, g[k] \in Nat, k \notin s, IsFiniteSet(Units(g, s))
    PROVE  /\ IsFiniteSet(Units(g, s \cup {k}))
           /\ Cardinality(Units(g, s \cup {k})) = g[k] + Cardinality(Units(g, s))
<1>1. Units(g, s \cup {k}) = Units(g, s) \cup Units(g, {k})
    BY DEF Units
<1>2. Units(g, s) \cap Units(g, {k}) = {}
    BY DEF Units
<1>3. Cardinality(Units(g, s)) \in Nat /\ Cardinality(Units(g, s) \cap Units(g, {k})) = 0
    BY <1>2, FS_CardinalityType, FS_EmptySet
<1>4. IsFiniteSet(Units(g, {k})) /\ Cardinality(Units(g, {k})) = g[k]
    BY UnitsOfOne
<1>5. /\ IsFiniteSet(Units(g, s) \cup Units(g, {k}))
      /\ Cardinality(Units(g, s) \cup Units(g, {k})) =
            Cardinality(Units(g, s)) + Cardinality(Units(g, {k}))
               - Cardinality(Units(g, s) \cap Units(g, {k}))
    BY <1>4, FS_Union
<1>6. Cardinality(Units(g, s) \cup Units(g, {k})) = g[k] + Cardinality(Units(g, s))
    BY <1>3, <1>4, <1>5
<1> QED
    BY <1>1, <1>5, <1>6

\* Finitely many keys have finitely many units.
LEMMA UnitsFinite ==
    ASSUME NEW s, IsFiniteSet(s), NEW g, \A k \in s : g[k] \in Nat
    PROVE  IsFiniteSet(Units(g, s))
<1> DEFINE parts == {Units(g, {k}) : k \in s}
<1> DEFINE f == [k \in s |-> Units(g, {k})]
<1>1. f \in Surjection(s, parts)
    BY DEF Surjection
<1>2. IsFiniteSet(parts)
    BY <1>1, FS_Surjection
<1>3. \A p \in parts : IsFiniteSet(p)
    BY UnitsOfOne
<1>4. Units(g, s) = UNION parts
    BY DEF Units
<1> QED
    BY <1>2, <1>3, <1>4, FS_UNION

\* What MapThenSumSet computes is this sum, in whichever order it takes the
\* keys: the number of units meets its recursive definition, and nothing else
\* does, as a smallest set where something else did would have a smaller one.
LEMMA SumIsUnits ==
    ASSUME NEW S, IsFiniteSet(S), NEW g, \A k \in S : g[k] \in Nat
    PROVE  MapThenSumSet(LAMBDA k : g[k], S) = Cardinality(Units(g, S))
<1> DEFINE Chosen(s) == CHOOSE x \in s : TRUE
           Step(f) == [s \in SUBSET S |-> IF s = {} THEN 0 ELSE g[Chosen(s)] + f[s \ {Chosen(s)}]]
           units == [s \in SUBSET S |-> Cardinality(Units(g, s))]
           iter == CHOOSE f : f = Step(f)
<1>1. MapThenSumSet(LAMBDA k : g[k], S) = iter[S]
    BY DEF MapThenSumSet, MapThenFoldSet
<1>2. ASSUME NEW s \in SUBSET S, s # {}
      PROVE  /\ Chosen(s) \in s /\ s \ {Chosen(s)} \in SUBSET S
             /\ units[s] = g[Chosen(s)] + units[s \ {Chosen(s)}]
    <2>1. Chosen(s) \in s
        BY <1>2
    <2> HIDE DEF Chosen
    <2>2. IsFiniteSet(s \ {Chosen(s)})
        BY FS_Subset, <2>1
    <2>3. IsFiniteSet(Units(g, s \ {Chosen(s)}))
        BY <2>2, UnitsFinite
    <2>4. s = (s \ {Chosen(s)}) \cup {Chosen(s)}
        BY <2>1
    <2>5. Cardinality(Units(g, s)) = g[Chosen(s)] + Cardinality(Units(g, s \ {Chosen(s)}))
        <3> DEFINE x == Chosen(s)
                   r == s \ {x}
        <3>1. x \notin r /\ g[x] \in Nat /\ IsFiniteSet(Units(g, r)) /\ s = r \cup {x}
            BY <2>1, <2>3, <2>4
        <3> HIDE DEF x, r
        <3>2. Cardinality(Units(g, r \cup {x})) = g[x] + Cardinality(Units(g, r))
            BY <3>1, UnitsOfOneMore
        <3>3. Cardinality(Units(g, s)) = g[x] + Cardinality(Units(g, r))
            BY <3>1, <3>2
        <3> QED
            BY <3>3 DEF x, r
    <2> QED
        BY <2>1, <2>5
<1>3. units[{}] = 0
    BY FS_EmptySet DEF Units
<1>4. units = Step(units)
    <2> HIDE DEF Chosen
    <2> QED
    BY <1>2, <1>3
<1>5. iter = Step(iter)
    <2> HIDE DEF Step, units
    <2> QED
    BY <1>4
<1> HIDE DEF iter, units, Chosen
<1>6. \A s \in SUBSET S : iter[s] = IF s = {} THEN 0 ELSE g[Chosen(s)] + iter[s \ {Chosen(s)}]
    BY <1>5
<1> HIDE DEF Step
<1>7. ASSUME NEW s0 \in SUBSET S, iter[s0] # units[s0]
      PROVE  FALSE
    <2> DEFINE Bad == {s \in SUBSET S : iter[s] # units[s]}
    <2>1. SUBSET S \subseteq FiniteSubsetsOf(S)
        BY FS_Subset DEF FiniteSubsetsOf
    <2>2. \E s \in Bad : \A r \in Bad : <<r, s>> \notin StrictSubsetOrdering(S)
        <3>1. Bad \subseteq FiniteSubsetsOf(S) /\ Bad # {}
            BY <1>7, <2>1
        <3> HIDE DEF Bad
        <3> QED
            BY <3>1, FS_StrictSubsetOrderingWellFounded, WFMin
    <2>3. PICK s \in Bad : \A r \in Bad : <<r, s>> \notin StrictSubsetOrdering(S)
        BY <2>2
    <2>4. s # {}
        BY <1>3, <1>6
    <2>5. iter[s \ {Chosen(s)}] # units[s \ {Chosen(s)}]
        BY <1>2, <1>6, <2>4
    <2>6. <<s \ {Chosen(s)}, s>> \in StrictSubsetOrdering(S)
        BY <1>2, <2>4 DEF StrictSubsetOrdering
    <2> QED
        BY <1>2, <2>3, <2>4, <2>5, <2>6
<1> QED
    BY <1>1, <1>7 DEF units

---------------------------------------------------------------------------
\* One element is removed: it is gone, the others are still there, once each.
LEMMA SwapRemoveRemoves ==
    ASSUME NEW A, NEW s \in Seq(A), NoneTwice(s), NEW idx \in 1 .. Len(s)
    PROVE  /\ SwapRemove(s, idx) \in Seq(A)
           /\ Len(SwapRemove(s, idx)) = Len(s) - 1
           /\ NoneTwice(SwapRemove(s, idx))
           /\ ToSet(SwapRemove(s, idx)) = ToSet(s) \ {s[idx]}
<1> DEFINE n == Len(s)
           p == [s EXCEPT ![idx] = s[n]]
           r == SubSeq(p, 1, n - 1)
<1>1. n \in Nat \ {0} /\ idx \in 1 .. n /\ DOMAIN s = 1 .. n /\ \A i \in 1 .. n : s[i] \in A
    BY LenProperties
<1>2. p \in Seq(A) /\ Len(p) = n /\ \A i \in 1 .. n : p[i] = IF i = idx THEN s[n] ELSE s[i]
    BY <1>1, ExceptSeq
<1>3. SwapRemove(s, idx) = r
    BY <1>2 DEF SwapRemove, Front, ReplaceAt, Last
<1> HIDE DEF n, p
<1>4. r \in Seq(A) /\ Len(r) = n - 1 /\ \A i \in 1 .. n - 1 : r[i] = p[i]
    <2>1. \A i \in 1 .. n - 1 : p[i] \in A
        BY <1>1, <1>2
    <2> QED
        BY <1>1, <2>1, SubSeqProperties
<1> HIDE DEF r
<1>5. \A i \in 1 .. n - 1 : r[i] = IF i = idx THEN s[n] ELSE s[i]
    BY <1>1, <1>2, <1>4
<1>6. NoneTwice(r)
    <2> SUFFICES ASSUME NEW i \in 1 .. n - 1, NEW j \in 1 .. n - 1, r[i] = r[j]
                 PROVE  i = j
        BY <1>4 DEF NoneTwice
    <2>1. \A a, b \in 1 .. n : s[a] = s[b] => a = b
        BY DEF NoneTwice, n
    <2>2. i \in 1 .. n /\ j \in 1 .. n /\ n \in 1 .. n /\ i # n /\ j # n
        BY <1>1
    <2> QED
        BY <1>5, <2>1, <2>2
<1>7. DOMAIN r = 1 .. n - 1
    BY <1>4, LenProperties
<1>8. ASSUME NEW i \in 1 .. n, i # idx
      PROVE  s[i] \in ToSet(r)
    <2>1. CASE i = n
        BY <1>1, <1>5, <1>7, <1>8, <2>1 DEF ToSet
    <2>2. CASE i # n
        BY <1>1, <1>5, <1>7, <1>8, <2>2 DEF ToSet
    <2> QED
        BY <2>1, <2>2
<1>9. ASSUME NEW i \in 1 .. n - 1
      PROVE  r[i] \in ToSet(s) \ {s[idx]}
    <2>1. n # i /\ n \in 1 .. n /\ i \in 1 .. n
        BY <1>1
    <2>2. \A a, b \in 1 .. n : s[a] = s[b] => a = b
        BY DEF NoneTwice, n
    <2> QED
        BY <1>1, <1>5, <2>1, <2>2 DEF ToSet
<1> QED
    BY <1>1, <1>3, <1>4, <1>6, <1>7, <1>8, <1>9 DEF ToSet, n

\* One element is added that was not there.
LEMMA AppendAdds ==
    ASSUME NEW A, NEW s \in Seq(A), NoneTwice(s), NEW e \in A, e \notin ToSet(s)
    PROVE  /\ Append(s, e) \in Seq(A)
           /\ Len(Append(s, e)) = Len(s) + 1
           /\ NoneTwice(Append(s, e))
           /\ ToSet(Append(s, e)) = ToSet(s) \cup {e}
<1> DEFINE n == Len(s)
           r == Append(s, e)
<1>1. n \in Nat /\ DOMAIN s = 1 .. n
    BY LenProperties
<1>2. r \in Seq(A) /\ Len(r) = n + 1 /\ (\A i \in 1 .. n : r[i] = s[i]) /\ r[n + 1] = e
    BY AppendProperties
<1>3. DOMAIN r = 1 .. n + 1
    BY <1>2, LenProperties
<1>4. \A i \in 1 .. n : s[i] # e /\ s[i] \in ToSet(s)
    BY <1>1 DEF ToSet
<1>5. \A i, j \in 1 .. n : s[i] = s[j] => i = j
    BY DEF NoneTwice
<1> HIDE DEF n, r
<1>6. NoneTwice(r)
    BY <1>1, <1>2, <1>4, <1>5 DEF NoneTwice
<1>7. ToSet(r) = ToSet(s) \cup {e}
    BY <1>1, <1>2, <1>3, <1>4 DEF ToSet
<1> QED
    BY <1>2, <1>6, <1>7 DEF n, r

\* A list names finitely many elements, as many as it is long.
LEMMA ListCounts ==
    ASSUME NEW A, NEW s \in Seq(A), NoneTwice(s)
    PROVE  IsFiniteSet(ToSet(s)) /\ Cardinality(ToSet(s)) = Len(s)
<1>1. Len(s) \in Nat /\ DOMAIN s = 1 .. Len(s) /\ s \in [1 .. Len(s) -> A]
    BY LenProperties
<1>2. s \in Injection(1 .. Len(s), ToSet(s)) /\ s \in Surjection(1 .. Len(s), ToSet(s))
    BY <1>1 DEF NoneTwice, ToSet, Injection, IsInjective, Surjection
<1>3. IsFiniteSet(1 .. Len(s)) /\ Cardinality(1 .. Len(s)) = Len(s)
    BY <1>1, FS_Interval
<1> QED
    BY <1>2, <1>3, FS_Surjection

---------------------------------------------------------------------------
\* Before the first call, and after a restart, nothing is cached and no lock is
\* held.
LEMMA CacheInit ==
    ASSUME Init
    PROVE  CacheInvariant
<1> USE CachesAssumption DEF Init, NoCall, NoKeys
<1>1. CachedFiles = {} /\ CachedDirectories = {}
    BY DEF CachedFiles, CachedDirectories, ToSet
<1>2. CacheTypes
    BY DEF CacheTypes, Call, Requests
<1>3. FileBooks
    <2>1. Units(filesPresentSize, CachedFiles) = {}
        BY <1>1 DEF Units
    <2>2. NoneTwice(filesPresentList) /\ filesPresentSize = [k \in {} |-> SizeBytes[k[1]]]
          /\ cacheDirectory = [k \in {} |-> k]
        BY DEF NoneTwice
    <2> QED
        BY <1>1, <2>1, <2>2, FS_EmptySet DEF FileBooks
<1>4. DirectoryBooks /\ Limits
    BY <1>1 DEF DirectoryBooks, Limits, NoneTwice
<1>5. LockHeld /\ CallsFine
    BY <1>1 DEF LockHeld, CallsFine, CallFine, At, FileLabels, DirectoryLabels
<1> QED
    BY <1>2, <1>3, <1>4, <1>5 DEF CacheInvariant

LEMMA RestartStep ==
    ASSUME Restart
    PROVE  CacheInvariant'
<1> USE CachesAssumption DEF Restart, NoCall, NoKeys, CacheAtStart
<1>1. CachedFiles' = {} /\ CachedDirectories' = {}
    BY DEF CachedFiles, CachedDirectories, ToSet
<1>2. CacheTypes'
    BY DEF CacheTypes, Call, Requests
<1>3. FileBooks'
    <2>1. Units(filesPresentSize', CachedFiles') = {}
        BY <1>1 DEF Units
    <2>2. NoneTwice(filesPresentList') /\ filesPresentSize' = [k \in {} |-> SizeBytes[k[1]]]
          /\ cacheDirectory' = [k \in {} |-> k]
        BY DEF NoneTwice
    <2> QED
        BY <1>1, <2>1, <2>2, FS_EmptySet DEF FileBooks
<1>4. DirectoryBooks' /\ Limits'
    BY <1>1 DEF DirectoryBooks, Limits, NoneTwice
<1>5. LockHeld' /\ CallsFine'
    BY <1>1 DEF LockHeld, CallsFine, CallFine, At, FileLabels, DirectoryLabels
<1> QED
    BY <1>2, <1>3, <1>4, <1>5 DEF CacheInvariant

\* A step that leaves the caches alone leaves their books and limits alone.
LEMMA SameCaches ==
    ASSUME FileBooks, DirectoryBooks, Limits, UNCHANGED <<fileVars, directoryVars>>
    PROVE  FileBooks' /\ DirectoryBooks' /\ Limits' /\ CachedFiles' = CachedFiles
BY DEF FileBooks, DirectoryBooks, Limits, CachedFiles, CachedDirectories, fileVars, directoryVars

\* A step of one thread that neither evicts what another one is about to link
\* nor caches what another one is about to cache.
LEMMA OtherCalls ==
    ASSUME CallsFine, NEW t \in Threads, CallFine(t)',
           \A u \in Threads \ {t} :
              /\ call'[u] = call[u]
              /\ At(u, "hit") => CachedFiles \subseteq CachedFiles'
              /\ At(u, "space") => CachedFiles' \subseteq CachedFiles
    PROVE  CallsFine'
BY DEF CallsFine, CallFine, At

\* A step of a thread that changes neither the caches nor the lock, and does
\* not hold the lock before or after.
LEMMA PrivateStep ==
    ASSUME CacheInvariant, NEW t \in Threads, NEW c \in Call, call' = [call EXCEPT ![t] = c],
           UNCHANGED <<lockVars, fileVars, directoryVars>>, CallFine(t)',
           call[t].pc \notin {"hit", "space"}, c.pc \notin {"hit", "space"}
    PROVE  CacheInvariant'
<1> USE DEF CacheInvariant
<1>1. FileBooks' /\ DirectoryBooks' /\ Limits' /\ CachedFiles' = CachedFiles
    BY SameCaches
<1>2. CacheTypes'
    BY DEF CacheTypes, lockVars, fileVars, directoryVars
<1>3. \A u \in Threads : call'[u] = IF u = t THEN c ELSE call[u]
    BY DEF CacheTypes
<1>4. LockHeld'
    BY <1>3 DEF LockHeld, At, lockVars
<1>5. CallsFine'
    BY <1>1, <1>3, OtherCalls
<1> QED
    BY <1>1, <1>2, <1>4, <1>5

\* GetFile and GetDirectory are called; a directory that is cached is returned.
LEMMA GetFileStep ==
    ASSUME CacheInvariant, NEW t \in Threads, NEW f \in Files, GetFile(t, f)
    PROVE  CacheInvariant'
<1> DEFINE c == [NoCall EXCEPT !.pc = "lookup", !.request = f]
<1>1. c.pc = "lookup" /\ c.request = f /\ c.result = "none"
    BY DEF NoCall
<1>2. c \in Call
    BY DEF NoCall, Call, Requests, FileLabels
<1>3. call' = [call EXCEPT ![t] = c] /\ call'[t] = c
    BY DEF GetFile, CacheInvariant, CacheTypes
<1> HIDE DEF c
<1>4. CallFine(t)'
    BY <1>1, <1>3 DEF CallFine, At, FileLabels, DirectoryLabels
<1> QED
    BY <1>1, <1>2, <1>3, <1>4, PrivateStep DEF GetFile, At

LEMMA GetDirectoryStep ==
    ASSUME CacheInvariant, NEW t \in Threads, NEW d \in Directories, GetDirectory(t, d)
    PROVE  CacheInvariant'
<1> DEFINE c == IF d \in DOMAIN directoriesPresentMessage
                THEN [NoCall EXCEPT !.request = d, !.target = directoriesPresentMessage[d], !.result = "OK"]
                ELSE [NoCall EXCEPT !.request = d, !.pc = "getDirectory"]
<1>1. \/ c = [pc |-> "idle", request |-> d, target |-> d, result |-> "OK", failed |-> FALSE]
      \/ c = [pc |-> "getDirectory", request |-> d, target |-> Nothing, result |-> "none", failed |-> FALSE]
    BY DEF NoCall, CacheInvariant, DirectoryBooks
<1>2. c \in Call
    BY <1>1 DEF Call, Requests, DirectoryLabels
<1>3. call' = [call EXCEPT ![t] = c] /\ call'[t] = c
    BY DEF GetDirectory, CacheInvariant, CacheTypes
<1> HIDE DEF c
<1>4. CallFine(t)'
    BY <1>1, <1>3 DEF CallFine, At, FileLabels, DirectoryLabels
<1> QED
    BY <1>1, <1>2, <1>3, <1>4, PrivateStep DEF GetDirectory, At

\* The base downloads a file or a directory, or fails.
LEMMA DownloadStep ==
    ASSUME CacheInvariant, NEW t \in Threads,
           Download(t) \/ DownloadFails(t) \/ DownloadDirectory(t)
    PROVE  CacheInvariant'
<1>1. call \in [Threads -> Call] /\ call[t] \in Call
    BY DEF CacheInvariant, CacheTypes
<1>2. ASSUME NEW c \in Call, call' = [call EXCEPT ![t] = c], CallFine(t)',
             call[t].pc \notin {"hit", "space"}, c.pc \notin {"hit", "space"}
      PROVE  CacheInvariant'
    BY <1>2, PrivateStep DEF Download, DownloadFails, DownloadDirectory
<1> USE DEF CacheInvariant, CallsFine, CallFine, At, FileLabels, DirectoryLabels
<1>3. CASE Download(t)
    <2>1. CASE At(t, "open") /\ call' = [call EXCEPT ![t].pc = "copy", ![t].target = Partial]
        <3> DEFINE c == [call[t] EXCEPT !.pc = "copy", !.target = Partial]
        <3>1. c \in Call /\ call' = [call EXCEPT ![t] = c] /\ call'[t] = c
            BY <1>1, <2>1 DEF Call
        <3>2. c.pc = "copy" /\ c.request = call[t].request /\ c.result = call[t].result
            BY <1>1 DEF Call
        <3> HIDE DEF c
        <3> QED
            BY <1>2, <2>1, <3>1, <3>2
    <2>2. CASE At(t, "copy") /\ call' = [call EXCEPT ![t].pc = "insert", ![t].target = call[t].request]
        <3> DEFINE c == [call[t] EXCEPT !.pc = "insert", !.target = call[t].request]
        <3>1. c \in Call /\ call' = [call EXCEPT ![t] = c] /\ call'[t] = c
            BY <1>1, <2>2 DEF Call
        <3>2. c.pc = "insert" /\ c.request = call[t].request /\ c.result = call[t].result
              /\ c.target = c.request
            BY <1>1 DEF Call
        <3> HIDE DEF c
        <3> QED
            BY <1>2, <2>2, <3>1, <3>2
    <2> QED
        BY <1>3, <2>1, <2>2 DEF Download
<1>4. CASE DownloadDirectory(t) /\ call' = [call EXCEPT ![t].pc = "insertDirectory", ![t].target = call[t].request]
    <2> DEFINE c == [call[t] EXCEPT !.pc = "insertDirectory", !.target = call[t].request]
    <2>1. c \in Call /\ call' = [call EXCEPT ![t] = c] /\ call'[t] = c
        BY <1>1, <1>4 DEF Call
    <2>2. c.pc = "insertDirectory" /\ c.request = call[t].request /\ c.result = call[t].result
          /\ c.target = c.request
        BY <1>1 DEF Call
    <2> HIDE DEF c
    <2> QED
        BY <1>2, <1>4, <2>1, <2>2 DEF DownloadDirectory
<1>5. CASE DownloadFails(t)
    <2>1. PICK left \in {call[t].target, Nothing} :
             call' = [call EXCEPT ![t] = [@ EXCEPT !.pc = "idle", !.result = "error",
                                                   !.failed = TRUE, !.target = left]]
        BY <1>5 DEF DownloadFails
    <2> DEFINE c == [call[t] EXCEPT !.pc = "idle", !.result = "error", !.failed = TRUE, !.target = left]
    <2>2. c \in Call /\ call' = [call EXCEPT ![t] = c] /\ call'[t] = c
        BY <1>1, <2>1 DEF Call, Requests
    <2>3. c.pc = "idle" /\ c.result = "error" /\ c.failed = TRUE
        BY <1>1 DEF Call
    <2> HIDE DEF c
    <2> QED
        BY <1>2, <1>5, <2>2, <2>3 DEF DownloadFails
<1>6. CASE DownloadDirectory(t) /\ ReturnFailure(t)
    <2> DEFINE c == [call[t] EXCEPT !.pc = "idle", !.result = "error", !.failed = TRUE]
    <2>1. c \in Call /\ call' = [call EXCEPT ![t] = c] /\ call'[t] = c
        BY <1>1, <1>6 DEF Call, ReturnFailure
    <2>2. c.pc = "idle" /\ c.result = "error" /\ c.failed = TRUE
        BY <1>1 DEF Call
    <2> HIDE DEF c
    <2> QED
        BY <1>2, <1>6, <2>1, <2>2 DEF DownloadDirectory
<1> QED
    BY <1>3, <1>4, <1>5, <1>6 DEF DownloadDirectory

\* A call returns after a failure below it, or takes another step.
LEMMA CallChanges ==
    ASSUME CacheTypes, NEW t \in Threads
    PROVE  /\ ReturnFailure(t) => /\ call' \in [Threads -> Call]
                                  /\ \A u \in Threads \ {t} : call'[u] = call[u]
                                  /\ call'[t].pc = "idle" /\ call'[t].result = "error"
                                  /\ call'[t].failed = TRUE
           /\ Return(t, "OK") => /\ call' \in [Threads -> Call]
                                 /\ \A u \in Threads \ {t} : call'[u] = call[u]
                                 /\ call'[t].pc = "idle" /\ call'[t].result = "OK"
                                 /\ call'[t].target = call[t].target
                                 /\ call'[t].request = call[t].request
           /\ \A l \in FileLabels : Goto(t, l) =>
                 /\ call' \in [Threads -> Call]
                 /\ \A u \in Threads \ {t} : call'[u] = call[u]
                 /\ call'[t].pc = l /\ call'[t].result = call[t].result
                 /\ call'[t].target = call[t].target /\ call'[t].request = call[t].request
<1> USE DEF CacheTypes, Call
<1>1. ReturnFailure(t) => /\ call' \in [Threads -> Call]
                          /\ \A u \in Threads \ {t} : call'[u] = call[u]
                          /\ call'[t].pc = "idle" /\ call'[t].result = "error"
                          /\ call'[t].failed = TRUE
    <2> SUFFICES ASSUME ReturnFailure(t)
                 PROVE  /\ call' \in [Threads -> Call]
                        /\ \A u \in Threads \ {t} : call'[u] = call[u]
                        /\ call'[t].pc = "idle" /\ call'[t].result = "error" /\ call'[t].failed = TRUE
        OBVIOUS
    <2> DEFINE c == [call[t] EXCEPT !.pc = "idle", !.result = "error", !.failed = TRUE]
    <2>1. c \in Call /\ call' = [call EXCEPT ![t] = c]
        BY DEF ReturnFailure
    <2>2. c.pc = "idle" /\ c.result = "error" /\ c.failed = TRUE
        OBVIOUS
    <2> HIDE DEF c, Call
    <2> QED
        BY <2>1, <2>2
<1>2. Return(t, "OK") => /\ call' \in [Threads -> Call]
                         /\ \A u \in Threads \ {t} : call'[u] = call[u]
                         /\ call'[t].pc = "idle" /\ call'[t].result = "OK"
                         /\ call'[t].target = call[t].target
                         /\ call'[t].request = call[t].request
    <2> SUFFICES ASSUME Return(t, "OK")
                 PROVE  /\ call' \in [Threads -> Call]
                        /\ \A u \in Threads \ {t} : call'[u] = call[u]
                        /\ call'[t].pc = "idle" /\ call'[t].result = "OK"
                        /\ call'[t].target = call[t].target
                        /\ call'[t].request = call[t].request
        OBVIOUS
    <2> DEFINE c == [call[t] EXCEPT !.pc = "idle", !.result = "OK"]
    <2>1. c \in Call /\ call' = [call EXCEPT ![t] = c]
        BY DEF Return
    <2>2. c.pc = "idle" /\ c.result = "OK" /\ c.target = call[t].target /\ c.request = call[t].request
        OBVIOUS
    <2> HIDE DEF c, Call
    <2> QED
        BY <2>1, <2>2
<1>3. ASSUME NEW l \in FileLabels, Goto(t, l)
      PROVE  /\ call' \in [Threads -> Call]
             /\ \A u \in Threads \ {t} : call'[u] = call[u]
             /\ call'[t].pc = l /\ call'[t].result = call[t].result
             /\ call'[t].target = call[t].target /\ call'[t].request = call[t].request
    BY <1>3 DEF Goto
<1> QED
    BY <1>1, <1>2, <1>3

\* The lookup: no thread is changing the cache, and none can start to while a
\* hit is being linked.
LEMMA LookupStep ==
    ASSUME CacheInvariant, NEW t \in Threads, Lookup(t)
    PROVE  CacheInvariant'
<1> USE DEF CacheInvariant, Lookup, At
<1>1. FileBooks' /\ DirectoryBooks' /\ Limits' /\ CachedFiles' = CachedFiles
    BY SameCaches
<1>2. CallFine(t)
    BY DEF CallsFine
<1>3. call[t].request \in Files /\ call[t].result = "none"
    BY <1>2 DEF CallFine, FileLabels
<1>4. CASE Key(t) \in DOMAIN filesPresentSize
    <2>1. Goto(t, "hit") /\ readers' = readers \cup {t}
        BY <1>4
    <2>2. /\ call' \in [Threads -> Call]
          /\ \A u \in Threads \ {t} : call'[u] = call[u]
          /\ call'[t].pc = "hit" /\ call'[t].result = "none" /\ call'[t].request = call[t].request
        BY <1>3, <2>1, CallChanges DEF FileLabels
    <2>3. call[t].request \in CachedFiles
        BY <1>4 DEF FileBooks, Key, KeyOf
    <2>4. CacheTypes' /\ LockHeld'
        BY <2>1, <2>2 DEF CacheTypes, LockHeld, fileVars, directoryVars
    <2>5. CallFine(t)'
        BY <1>1, <1>3, <2>2, <2>3 DEF CallFine, FileLabels, DirectoryLabels
    <2>6. CallsFine'
        BY <1>1, <2>2, <2>5, OtherCalls
    <2> QED
        BY <1>1, <2>4, <2>6
<1>5. CASE Key(t) \notin DOMAIN filesPresentSize
    <2>1. Goto(t, "open") /\ readers' = readers
        BY <1>5
    <2>2. /\ call' \in [Threads -> Call]
          /\ \A u \in Threads \ {t} : call'[u] = call[u]
          /\ call'[t].pc = "open" /\ call'[t].result = "none" /\ call'[t].request = call[t].request
        BY <1>3, <2>1, CallChanges DEF FileLabels
    <2>3. CacheTypes' /\ LockHeld'
        BY <2>1, <2>2 DEF CacheTypes, LockHeld, fileVars, directoryVars
    <2>4. CallFine(t)'
        BY <1>1, <1>3, <2>2 DEF CallFine, FileLabels, DirectoryLabels
    <2>5. CallsFine'
        BY <1>1, <2>2, <2>4, OtherCalls
    <2> QED
        BY <1>1, <2>3, <2>5
<1> QED
    BY <1>4, <1>5

\* A hit is linked: it is still there.
LEMMA LinkHitStep ==
    ASSUME CacheInvariant, NEW t \in Threads, LinkHit(t)
    PROVE  CacheInvariant'
<1> USE DEF CacheInvariant, LinkHit, At
<1>1. FileBooks' /\ DirectoryBooks' /\ Limits' /\ CachedFiles' = CachedFiles
    BY SameCaches
<1>2. CallFine(t)
    BY DEF CallsFine
<1>3. call[t].request \in Files /\ Key(t) = call[t].request /\ Key(t) \in DOMAIN cacheDirectory
      /\ cacheDirectory[Key(t)] = call[t].request
    BY <1>2 DEF CallFine, FileLabels, FileBooks, Key, KeyOf
<1>4. /\ call' \in [Threads -> Call]
      /\ \A u \in Threads \ {t} : call'[u] = call[u]
      /\ call'[t].pc = "idle"
      /\ \/ call'[t].result = "OK" /\ call'[t].target = call'[t].request
         \/ call'[t].result = "error" /\ call'[t].failed = TRUE
    <2>1. CASE call' = [call EXCEPT ![t].pc = "idle", ![t].result = "OK",
                                    ![t].target = cacheDirectory[Key(t)]]
        BY <1>3, <2>1 DEF CacheTypes, Call, Requests
    <2>2. CASE ReturnFailure(t)
        BY <2>2, CallChanges
    <2> QED
        BY <1>3, <2>1, <2>2
<1>5. CacheTypes' /\ LockHeld'
    BY <1>4 DEF CacheTypes, LockHeld, fileVars, directoryVars
<1>6. CallFine(t)'
    BY <1>4 DEF CallFine, FileLabels, DirectoryLabels
<1>7. CallsFine'
    BY <1>1, <1>4, <1>6, OtherCalls
<1> QED
    BY <1>1, <1>5, <1>7

\* The file is stored unless another thread has stored it; nobody else holds the
\* lock from here on.
LEMMA LockForInsertStep ==
    ASSUME CacheInvariant, NEW t \in Threads, LockForInsert(t)
    PROVE  CacheInvariant'
<1> USE DEF CacheInvariant, LockForInsert, At
<1>1. FileBooks' /\ DirectoryBooks' /\ Limits' /\ CachedFiles' = CachedFiles
    BY SameCaches
<1>2. CallFine(t)
    BY DEF CallsFine
<1>3. call[t].request \in Files /\ call[t].result = "none" /\ call[t].target = call[t].request
    BY <1>2 DEF CallFine, FileLabels
<1>4. CASE StillMissing(t)
    <2>1. Goto(t, "space") /\ writer' = t
        BY <1>4
    <2>2. /\ call' \in [Threads -> Call]
          /\ \A u \in Threads \ {t} : call'[u] = call[u]
          /\ call'[t].pc = "space" /\ call'[t].result = "none" /\ call'[t].request = call[t].request
          /\ call'[t].target = call'[t].request
        BY <1>3, <2>1, CallChanges DEF FileLabels
    <2>3. call[t].request \notin CachedFiles
        BY <1>4 DEF StillMissing, FileBooks, Key, KeyOf
    <2>4. CacheTypes' /\ LockHeld'
        BY <2>1, <2>2, CachesAssumption DEF CacheTypes, LockHeld, fileVars, directoryVars
    <2>5. CallFine(t)'
        BY <1>1, <1>3, <2>2, <2>3 DEF CallFine, FileLabels, DirectoryLabels
    <2>6. CallsFine'
        BY <1>1, <2>2, <2>5, OtherCalls
    <2> QED
        BY <1>1, <2>4, <2>6
<1>5. CASE ~StillMissing(t)
    <2>1. Return(t, "OK") /\ writer' = writer
        BY <1>5
    <2>2. /\ call' \in [Threads -> Call]
          /\ \A u \in Threads \ {t} : call'[u] = call[u]
          /\ call'[t].pc = "idle" /\ call'[t].result = "OK"
          /\ call'[t].target = call'[t].request
        BY <1>3, <2>1, CallChanges
    <2>3. CacheTypes' /\ LockHeld'
        BY <2>1, <2>2 DEF CacheTypes, LockHeld, fileVars, directoryVars
    <2>4. CallFine(t)'
        BY <2>2 DEF CallFine, FileLabels, DirectoryLabels
    <2>5. CallsFine'
        BY <1>1, <2>2, <2>4, OtherCalls
    <2> QED
        BY <1>1, <2>3, <2>5
<1> QED
    BY <1>4, <1>5

\* Storing a file fails only after a failure below: what is to be removed is
\* there, and what is to be linked is not.
LEMMA InsertFailsStep ==
    ASSUME CacheInvariant, NEW t \in Threads, InsertFails(t)
    PROVE  CacheInvariant'
<1> USE DEF CacheInvariant, InsertFails, At
<1>1. FileBooks' /\ DirectoryBooks' /\ Limits' /\ CachedFiles' = CachedFiles
    BY SameCaches
<1>2. CallFine(t)
    BY DEF CallsFine
<1>3. ToSet(filesPresentList) = DOMAIN cacheDirectory /\ Key(t) \notin DOMAIN cacheDirectory
    BY <1>2 DEF CallFine, FileLabels, FileBooks, Key, KeyOf, CachedFiles
<1>4. ReturnFailure(t)
    BY <1>3
<1>5. /\ call' \in [Threads -> Call]
      /\ \A u \in Threads \ {t} : call'[u] = call[u]
      /\ call'[t].pc = "idle" /\ call'[t].result = "error" /\ call'[t].failed = TRUE
    BY <1>4, CallChanges
<1>6. CacheTypes' /\ LockHeld'
    BY <1>5, CachesAssumption DEF CacheTypes, LockHeld, fileVars, directoryVars, Unlock
<1>7. CallFine(t)'
    BY <1>5 DEF CallFine, FileLabels, DirectoryLabels
<1>8. CallsFine'
    BY <1>1, <1>5, <1>7, OtherCalls
<1> QED
    BY <1>1, <1>6, <1>8

\* Making space: what is removed from the list is removed from the books and
\* from the directory, and nobody is about to link it.
LEMMA RemoveFileStep ==
    ASSUME CacheInvariant, NEW t \in Threads, NEW idx, RemoveFile(t, idx)
    PROVE  CacheInvariant'
<1> USE DEF CacheInvariant, RemoveFile, At
<1> DEFINE key == filesPresentList[idx]
           rest == CachedFiles \ {key}
<1>1. idx \in 1 .. Len(filesPresentList) /\ key \in CachedFiles /\ Len(filesPresentList) \in Nat
      /\ CachedFiles \subseteq Files
    BY LenProperties DEF CacheTypes, CachedFiles, ToSet
<1>2. /\ filesPresentList' \in Seq(Files)
      /\ Len(filesPresentList') = Len(filesPresentList) - 1
      /\ NoneTwice(filesPresentList')
      /\ CachedFiles' = rest
    BY <1>1, SwapRemoveRemoves DEF CacheTypes, FileBooks, CachedFiles
<1>3. filesPresentSize' = [k \in rest |-> SizeBytes[k[1]]] /\ cacheDirectory' = [k \in rest |-> k]
    BY DEF FileBooks, Without, Restrict
<1>4. filesPresentTotalSize' = filesPresentTotalSize - filesPresentSize[key]
    OBVIOUS
<1>5. /\ filesPresentSize[key] \in Nat
      /\ \A k \in CachedFiles : filesPresentSize[k] = SizeBytes[k[1]] /\ SizeBytes[k[1]] \in Nat
    BY <1>1, CachesAssumption DEF FileBooks, Files
<1>6. IsFiniteSet(Units(filesPresentSize, rest))
    <2>1. IsFiniteSet(rest)
        BY ListCounts, FS_Subset DEF CacheTypes, FileBooks, CachedFiles
    <2> QED
        BY <1>5, <2>1, UnitsFinite
<1>7. Cardinality(Units(filesPresentSize, CachedFiles)) =
         filesPresentSize[key] + Cardinality(Units(filesPresentSize, rest))
    <2>1. CachedFiles = rest \cup {key} /\ key \notin rest
        BY <1>1
    <2> HIDE DEF rest, key
    <2>2. Cardinality(Units(filesPresentSize, rest \cup {key})) =
             filesPresentSize[key] + Cardinality(Units(filesPresentSize, rest))
        BY <1>5, <1>6, <2>1, UnitsOfOneMore
    <2> QED
        BY <2>1, <2>2
<1>8. Units(filesPresentSize', rest) = Units(filesPresentSize, rest)
    BY <1>3, <1>5 DEF Units
<1>9. Cardinality(Units(filesPresentSize, rest)) \in Nat
    BY <1>6, FS_CardinalityType
<1> HIDE DEF key, rest
<1>10. /\ filesPresentTotalSize' = Cardinality(Units(filesPresentSize', CachedFiles'))
       /\ filesPresentTotalSize' \in Nat
       /\ filesPresentTotalSize' <= filesPresentTotalSize
    <2>1. filesPresentTotalSize \in Nat
          /\ filesPresentTotalSize = filesPresentSize[key] + Cardinality(Units(filesPresentSize, rest))
        BY <1>7 DEF FileBooks
    <2>2. filesPresentTotalSize' = Cardinality(Units(filesPresentSize, rest))
          /\ filesPresentTotalSize' <= filesPresentTotalSize
        BY <1>4, <1>5, <1>9, <2>1
    <2> QED
        BY <1>2, <1>8, <1>9, <2>2
<1>11. FileBooks'
    BY <1>2, <1>3, <1>10 DEF FileBooks
<1>12. Limits'
    BY <1>1, <1>2, <1>10, CachesAssumption DEF Limits, FileBooks, directoryVars
<1>13. DirectoryBooks'
    BY DEF DirectoryBooks, CachedDirectories, directoryVars
<1>14. CacheTypes' /\ LockHeld'
    BY <1>2 DEF CacheTypes, LockHeld, directoryVars, lockVars
<1>15. CallFine(t)'
    <2>1. CallFine(t)
        BY DEF CallsFine
    <2> QED
        BY <1>2, <2>1 DEF CallFine, rest
<1>16. \A u \in Threads \ {t} : call'[u] = call[u] /\ ~At(u, "hit") /\ ~At(u, "space")
    BY CachesAssumption DEF LockHeld
<1>17. CallsFine'
    BY <1>15, <1>16, OtherCalls
<1> QED
    BY <1>11, <1>12, <1>13, <1>14, <1>17

\* The file is stored: there is space for it, or it is larger than the cache
\* and will be alone.
LEMMA LinkIntoCacheStep ==
    ASSUME CacheInvariant, NEW t \in Threads, LinkIntoCache(t)
    PROVE  CacheInvariant'
<1> USE DEF CacheInvariant, LinkIntoCache, At
<1> DEFINE key == Key(t)
           more == CachedFiles \cup {key}
<1>1. CallFine(t)
    BY DEF CallsFine
<1>2. key = call[t].request /\ call[t].target = key /\ key \in Files /\ key \notin CachedFiles
    BY <1>1 DEF CallFine, FileLabels, Key, KeyOf
<1>3. /\ Len(filesPresentList) \in Nat
      /\ CachedFiles \subseteq Files
    BY LenProperties DEF CacheTypes, CachedFiles, ToSet
<1>4. /\ filesPresentList' \in Seq(Files)
      /\ Len(filesPresentList') = Len(filesPresentList) + 1
      /\ NoneTwice(filesPresentList')
      /\ CachedFiles' = more
    BY <1>2, AppendAdds DEF CacheTypes, FileBooks, CachedFiles
<1>5. Size(t) = SizeBytes[key[1]] /\ Size(t) \in Nat
    BY <1>2, CachesAssumption DEF Size, Files
<1>6. filesPresentSize' = [k \in more |-> SizeBytes[k[1]]] /\ cacheDirectory' = [k \in more |-> k]
    BY <1>2, <1>5 DEF FileBooks, With
<1>7. filesPresentTotalSize' = filesPresentTotalSize + Size(t)
    OBVIOUS
<1>8. /\ filesPresentSize'[key] = Size(t)
      /\ \A k \in CachedFiles : /\ filesPresentSize[k] = SizeBytes[k[1]] /\ SizeBytes[k[1]] \in Nat
                                /\ filesPresentSize'[k] = SizeBytes[k[1]]
    BY <1>3, <1>5, <1>6, CachesAssumption DEF FileBooks, Files
<1>9. Units(filesPresentSize', CachedFiles) = Units(filesPresentSize, CachedFiles)
    BY <1>8 DEF Units
<1>10. IsFiniteSet(Units(filesPresentSize', CachedFiles))
    <2>1. IsFiniteSet(CachedFiles)
        BY ListCounts DEF CacheTypes, FileBooks, CachedFiles
    <2>2. \A k \in CachedFiles : filesPresentSize'[k] \in Nat
        BY <1>8
    <2> QED
        BY <2>1, <2>2, UnitsFinite
<1>11. Cardinality(Units(filesPresentSize', more)) =
          Size(t) + Cardinality(Units(filesPresentSize, CachedFiles))
    <2> HIDE DEF key
    <2>1. filesPresentSize'[key] \in Nat
        BY <1>5, <1>8
    <2>2. Cardinality(Units(filesPresentSize', CachedFiles \cup {key})) =
             filesPresentSize'[key] + Cardinality(Units(filesPresentSize', CachedFiles))
        BY <1>2, <1>10, <2>1, UnitsOfOneMore
    <2> QED
        BY <1>8, <1>9, <2>2
<1> HIDE DEF key, more
<1>12. /\ filesPresentTotalSize' = Cardinality(Units(filesPresentSize', CachedFiles'))
       /\ filesPresentTotalSize' \in Nat
    <2>1. filesPresentTotalSize \in Nat
          /\ filesPresentTotalSize = Cardinality(Units(filesPresentSize, CachedFiles))
        BY DEF FileBooks
    <2>2. filesPresentTotalSize' = Cardinality(Units(filesPresentSize', more))
          /\ filesPresentTotalSize' \in Nat
        BY <1>5, <1>7, <1>11, <2>1
    <2> QED
        BY <1>4, <2>2
<1>13. FileBooks'
    BY <1>4, <1>6, <1>12 DEF FileBooks
<1>14. Limits'
    <2>1. filesPresentList = <<>> \/ filesPresentList # <<>>
        OBVIOUS
    <2>2. CASE filesPresentList = <<>>
        <3>1. Len(filesPresentList') = 1
            BY <1>4, <2>2, EmptySeq
        <3> QED
            BY <3>1, CachesAssumption DEF Limits, directoryVars
    <2>3. CASE filesPresentList # <<>>
        BY <1>3, <1>4, <1>5, <1>7, <2>3, CachesAssumption DEF Limits, NeedsSpace, FileBooks, directoryVars
    <2> QED
        BY <2>2, <2>3
<1>15. DirectoryBooks'
    BY DEF DirectoryBooks, CachedDirectories, directoryVars
<1>16. /\ call' \in [Threads -> Call]
       /\ \A u \in Threads \ {t} : call'[u] = call[u]
       /\ call'[t].pc = "idle" /\ call'[t].result = "OK" /\ call'[t].target = call'[t].request
    BY <1>2, CallChanges
<1>17. CacheTypes' /\ LockHeld'
    BY <1>4, <1>16, CachesAssumption DEF CacheTypes, LockHeld, directoryVars
<1>18. CallFine(t)'
    BY <1>16 DEF CallFine, FileLabels, DirectoryLabels
<1>19. \A u \in Threads \ {t} : ~At(u, "hit") /\ ~At(u, "space")
    BY CachesAssumption DEF LockHeld
<1>20. CallsFine'
    BY <1>16, <1>18, <1>19, OtherCalls
<1> QED
    BY <1>13, <1>14, <1>15, <1>17, <1>20

\* A directory is stored, in place of another one if the cache is full.
LEMMA InsertDirectoryStep ==
    ASSUME CacheInvariant, NEW t \in Threads, InsertDirectory(t)
    PROVE  CacheInvariant'
<1> USE DEF CacheInvariant, InsertDirectory, At
<1> DEFINE d == call[t].request
<1>1. CallFine(t)
    BY DEF CallsFine
<1>2. d \in Directories /\ call[t].target = d
    BY <1>1 DEF CallFine, DirectoryLabels
<1>3. FileBooks' /\ CachedFiles' = CachedFiles
    BY DEF FileBooks, CachedFiles, fileVars
<1>4. /\ directoriesPresentList \in Seq(Directories) /\ NoneTwice(directoriesPresentList)
      /\ Len(directoriesPresentList) \in Nat
      /\ Len(directoriesPresentList) <= maxDirectories
      /\ DOMAIN directoriesPresentMessage = ToSet(directoriesPresentList)
    BY LenProperties DEF CacheTypes, DirectoryBooks, Limits, CachedDirectories
<1>5. /\ directoriesPresentList' \in Seq(Directories)
      /\ DirectoryBooks'
      /\ Len(directoriesPresentList') <= maxDirectories
    <2>1. CASE UNCHANGED directoryVars
        BY <1>4, <2>1 DEF CacheTypes, DirectoryBooks, CachedDirectories, directoryVars
    <2>2. CASE /\ d \notin DOMAIN directoriesPresentMessage
               /\ Len(directoriesPresentList) < maxDirectories
               /\ directoriesPresentList' = Append(directoriesPresentList, d)
               /\ directoriesPresentMessage' = With(directoriesPresentMessage, d, call[t].target)
        <3>1. /\ directoriesPresentList' \in Seq(Directories)
              /\ Len(directoriesPresentList') = Len(directoriesPresentList) + 1
              /\ NoneTwice(directoriesPresentList')
              /\ CachedDirectories' = CachedDirectories \cup {d}
            BY <1>2, <1>4, <2>2, AppendAdds DEF CachedDirectories
        <3>2. directoriesPresentMessage' = [x \in CachedDirectories \cup {d} |-> x]
            BY <1>2, <2>2 DEF DirectoryBooks, With
        <3> QED
            BY <1>4, <2>2, <3>1, <3>2, CachesAssumption DEF DirectoryBooks
    <2>3. ASSUME d \notin DOMAIN directoriesPresentMessage,
                 NEW idx \in DOMAIN directoriesPresentList,
                 directoriesPresentList' = Append(SwapRemove(directoriesPresentList, idx), d),
                 directoriesPresentMessage' = With(
                    Without(directoriesPresentMessage, directoriesPresentList[idx]), d, call[t].target)
          PROVE  /\ directoriesPresentList' \in Seq(Directories)
                 /\ DirectoryBooks'
                 /\ Len(directoriesPresentList') <= maxDirectories
        <3> DEFINE list == SwapRemove(directoriesPresentList, idx)
                   gone == directoriesPresentList[idx]
        <3>1. idx \in 1 .. Len(directoriesPresentList)
            BY <1>4, LenProperties
        <3>2. /\ list \in Seq(Directories) /\ Len(list) = Len(directoriesPresentList) - 1
              /\ NoneTwice(list) /\ ToSet(list) = CachedDirectories \ {gone}
            BY <1>4, <3>1, SwapRemoveRemoves DEF CachedDirectories
        <3>3. d \notin ToSet(list)
            BY <1>4, <2>3, <3>2 DEF CachedDirectories
        <3> HIDE DEF list, gone
        <3>4. directoriesPresentList' = Append(list, d)
            BY <2>3 DEF list
        <3>5. /\ directoriesPresentList' \in Seq(Directories)
              /\ Len(directoriesPresentList') = Len(list) + 1
              /\ NoneTwice(directoriesPresentList')
              /\ CachedDirectories' = (CachedDirectories \ {gone}) \cup {d}
            BY <1>2, <3>2, <3>3, <3>4, AppendAdds DEF CachedDirectories
        <3>6. directoriesPresentMessage' = [x \in (CachedDirectories \ {gone}) \cup {d} |-> x]
            BY <1>2, <2>3 DEF DirectoryBooks, With, Without, Restrict, gone
        <3> QED
            BY <1>4, <3>2, <3>5, <3>6, CachesAssumption DEF DirectoryBooks
    <2> QED
        BY <2>1, <2>2, <2>3
<1>6. Limits'
    BY <1>5 DEF Limits, fileVars
<1>7. /\ call' \in [Threads -> Call]
      /\ \A u \in Threads \ {t} : call'[u] = call[u]
      /\ call'[t].pc = "idle" /\ call'[t].result = "OK" /\ call'[t].target = call'[t].request
    BY <1>2, CallChanges
<1>8. CacheTypes' /\ LockHeld'
    BY <1>5, <1>7 DEF CacheTypes, LockHeld, fileVars, lockVars
<1>9. CallFine(t)'
    BY <1>7 DEF CallFine, FileLabels, DirectoryLabels
<1>10. CallsFine'
    BY <1>3, <1>7, <1>9, OtherCalls
<1> QED
    BY <1>3, <1>5, <1>6, <1>8, <1>10

---------------------------------------------------------------------------
\* The caches, their lock and the calls always fit together.
THEOREM CacheInvariantHolds == Spec => []CacheInvariant
<1>1. Init => CacheInvariant
    BY CacheInit
<1>2. CacheInvariant /\ [Next]_vars => CacheInvariant'
    <2> SUFFICES ASSUME CacheInvariant, [Next]_vars
                 PROVE  CacheInvariant'
        OBVIOUS
    <2>1. CASE Next
        <3>1. ASSUME NEW t \in Threads, NEW f \in Files, GetFile(t, f)
              PROVE  CacheInvariant'
            BY <3>1, GetFileStep
        <3>2. ASSUME NEW t \in Threads, NEW d \in Directories, GetDirectory(t, d)
              PROVE  CacheInvariant'
            BY <3>2, GetDirectoryStep
        <3>3. ASSUME NEW t \in Threads, Lookup(t) \/ LockForInsert(t)
              PROVE  CacheInvariant'
            BY <3>3, LookupStep, LockForInsertStep
        <3>4. ASSUME NEW t \in Threads, Continue(t)
              PROVE  CacheInvariant'
            BY <3>4, LinkHitStep, DownloadStep, RemoveFileStep, LinkIntoCacheStep, InsertFailsStep,
               InsertDirectoryStep DEF Continue
        <3>5. CASE Restart
            BY <3>5, RestartStep
        <3> QED
            BY <2>1, <3>1, <3>2, <3>3, <3>4, <3>5 DEF Next
    <2>2. CASE UNCHANGED vars
        BY <2>2, SameCaches DEF vars, lockVars, CacheInvariant, CacheTypes, LockHeld, CallsFine, CallFine, At,
           fileVars, directoryVars
    <2> QED
        BY <2>1, <2>2
<1> QED
    BY <1>1, <1>2, PTL DEF Spec

\* The list, the map of sizes, the total size and the directory on disk always
\* agree, whatever failed, died or was evicted: hardlinkingContentAddressable-
\* Storage never leaves one of them behind.
THEOREM BooksAlwaysExact == Spec => []BooksExact
<1>1. ASSUME CacheInvariant
      PROVE  BooksExact
    <2> USE <1>1 DEF CacheInvariant
    <2>1. IsFiniteSet(CachedFiles) /\ Cardinality(CachedFiles) = Len(filesPresentList)
        BY ListCounts DEF CacheTypes, FileBooks, CachedFiles
    <2>2. CachedFiles \subseteq Files
        BY LenProperties DEF CacheTypes, CachedFiles, ToSet
    <2>3. DOMAIN filesPresentSize = CachedFiles /\ DOMAIN cacheDirectory = CachedFiles
          /\ \A k \in CachedFiles : cacheDirectory[k] = k
        BY DEF FileBooks
    <2>4. \A k \in CachedFiles : filesPresentSize[k] \in Nat
        BY <2>2, CachesAssumption DEF FileBooks, Files
    <2>5. MapThenSumSet(LAMBDA k : filesPresentSize[k], CachedFiles)
             = Cardinality(Units(filesPresentSize, CachedFiles))
        BY <2>1, <2>4, SumIsUnits
    <2>6. filesPresentTotalSize = Cardinality(Units(filesPresentSize, CachedFiles))
        BY DEF FileBooks
    <2>7. filesPresentTotalSize = MapThenSumSet(LAMBDA k : filesPresentSize[k], DOMAIN filesPresentSize)
        BY <2>3, <2>5, <2>6
    <2> QED
        BY <2>1, <2>2, <2>3, <2>7 DEF BooksExact, CachedFiles, KeyOf
<1> QED
    BY <1>1, CacheInvariantHolds, PTL

\* A call fails only because a call to storage or to the file system failed,
\* never because of what another thread did to the cache meanwhile.
THEOREM FailuresAlwaysHaveCauses == Spec => []FailuresHaveCauses
<1>1. ASSUME CacheInvariant
      PROVE  FailuresHaveCauses
    <2>1. \A t \in Threads : call[t].result = "error" => call[t].failed = TRUE
        BY <1>1 DEF CacheInvariant, CallsFine, CallFine
    <2> QED
        BY <2>1 DEF FailuresHaveCauses
<1> QED
    BY <1>1, CacheInvariantHolds, PTL

\* GetFile and GetDirectory deliver what was asked for, complete, or an error.
THEOREM SuccessIsAlwaysRight == Spec => []SuccessIsRight
<1>1. CacheInvariant => SuccessIsRight
    BY DEF CacheInvariant, CallsFine, CallFine, SuccessIsRight
<1> QED
    BY <1>1, CacheInvariantHolds, PTL

\* makeSpace keeps both caches within their limits.
THEOREM CachesAlwaysBounded == Spec => []CachesBounded
<1>1. CacheInvariant => CachesBounded
    BY DEF CacheInvariant, Limits, DirectoryBooks, CachedDirectories, CachesBounded
<1> QED
    BY <1>1, CacheInvariantHolds, PTL
=============================================================================
