---------------------------- MODULE ReadCaches ----------------------------
(***************************************************************************)
(* The caches through which all threads of a bbb_worker read from the      *)
(* Content Addressable Storage: directoryCachingContentAddressableStorage  *)
(* on hardlinkingContentAddressableStorage on                              *)
(* blobAccessContentAddressableStorage.  Each cache has a sync.RWMutex of  *)
(* its own.  The hardlinking cache keeps its lock during calls to the file *)
(* system; the directory cache only accesses memory.                       *)
(*                                                                         *)
(* A file is a pair of digest and executable bit.  Its content, with its   *)
(* mode, is the file itself; Partial is a file that is not fully written.  *)
(***************************************************************************)
EXTENDS Integers, SequencesExt

CONSTANTS
    Threads,
    Digests, SizeBytes,  \* digests of files, and their sizes
    Directories,         \* digests of Directory messages
    maxFiles, maxSize, maxDirectories,
    NoThread, Nothing, Partial

ASSUME CachesAssumption ==
    /\ SizeBytes \in [Digests -> Nat]
    /\ maxFiles \in Nat \ {0} /\ maxSize \in Nat /\ maxDirectories \in Nat \ {0}
    /\ NoThread \notin Threads

VARIABLES
    readers, writer,  \* lock of the hardlinking cache
    filesPresentList, filesPresentSize, filesPresentTotalSize,
    cacheDirectory,   \* key -> content of the file on disk
    directoriesPresentList, directoriesPresentMessage,
    call              \* thread -> its call: what it asks for, what is at the
                      \* destination, and whether a call below failed (history)

lockVars == <<readers, writer>>
fileVars == <<filesPresentList, filesPresentSize, filesPresentTotalSize, cacheDirectory>>
directoryVars == <<directoriesPresentList, directoriesPresentMessage>>
vars == <<lockVars, fileVars, directoryVars, call>>

Files == Digests \X BOOLEAN
NoKeys == [k \in {} |-> 0]
NoCall == [pc |-> "idle", request |-> Nothing, target |-> Nothing, result |-> "none", failed |-> FALSE]

Init ==
    /\ readers = {} /\ writer = NoThread
    /\ filesPresentList = <<>> /\ filesPresentSize = NoKeys /\ filesPresentTotalSize = 0
    /\ cacheDirectory = NoKeys
    /\ directoriesPresentList = <<>> /\ directoriesPresentMessage = NoKeys
    /\ call = [t \in Threads |-> NoCall]

At(t, label) == call[t].pc = label
Goto(t, label) == call' = [call EXCEPT ![t].pc = label]
Return(t, r) == call' = [call EXCEPT ![t].pc = "idle", ![t].result = r]

\* A call to the file system or to storage fails, and the call with it.
ReturnFailure(t) ==
    call' = [call EXCEPT ![t].pc = "idle", ![t].result = "error", ![t].failed = TRUE]

\* The last element takes the place of the one at idx.
SwapRemove(s, idx) == Front(ReplaceAt(s, idx, Last(s)))

With(f, k, v) == [x \in DOMAIN f \cup {k} |-> IF x = k THEN v ELSE f[x]]
Without(f, k) == Restrict(f, DOMAIN f \ {k})

\* Mutation of KeyOf: files with and without the executable bit share a key.
KeyOfDigest(f) == f[1]

\* The key of a file in the cache: digest and +x or -x.
KeyOf(f) == f

Key(t) == KeyOf(call[t].request)
Size(t) == SizeBytes[call[t].request[1]]

---------------------------------------------------------------------------
\* GetFile of the hardlinking cache is called.
GetFile(t, f) ==
    /\ At(t, "idle")
    /\ call' = [call EXCEPT ![t] = [NoCall EXCEPT !.pc = "lookup", !.request = f]]
    /\ UNCHANGED <<lockVars, fileVars, directoryVars>>

\* The file is looked up under the read lock, which is kept on a hit.
Lookup(t) ==
    /\ At(t, "lookup") /\ writer = NoThread
    /\ IF Key(t) \in DOMAIN filesPresentSize
       THEN Goto(t, "hit") /\ readers' = readers \cup {t}
       ELSE Goto(t, "open") /\ UNCHANGED readers
    /\ UNCHANGED <<writer, fileVars, directoryVars>>

\* A hit is linked to the destination.  This fails if the file is not there,
\* or for another reason.
LinkHit(t) ==
    /\ At(t, "hit")
    /\ \/ /\ Key(t) \in DOMAIN cacheDirectory
          /\ call' = [call EXCEPT ![t].pc = "idle", ![t].result = "OK",
                                  ![t].target = cacheDirectory[Key(t)]]
       \/ Key(t) \notin DOMAIN cacheDirectory /\ Return(t, "error")
       \/ ReturnFailure(t)
    /\ readers' = readers \ {t}
    /\ UNCHANGED <<writer, fileVars, directoryVars>>

\* GetFile of the base: the destination is created, then filled.
Download(t) ==
    /\ \/ At(t, "open") /\ call' = [call EXCEPT ![t].pc = "copy", ![t].target = Partial]
       \/ At(t, "copy") /\ call' = [call EXCEPT ![t].pc = "insert", ![t].target = call[t].request]
    /\ UNCHANGED <<lockVars, fileVars, directoryVars>>

\* It fails.  The file is removed if copying failed, but not if the blob could
\* not be got in the first place.
DownloadFails(t) ==
    /\ At(t, "open") \/ At(t, "copy")
    /\ \E left \in {call[t].target, Nothing} :
          call' = [call EXCEPT ![t] = [@ EXCEPT !.pc = "idle", !.result = "error",
                                                !.failed = TRUE, !.target = left]]
    /\ UNCHANGED <<lockVars, fileVars, directoryVars>>

\* Mutation of StillMissing: the cache is not consulted again.
StillMissingAssumed(t) == TRUE

\* Another thread may have stored the file since the lookup.
StillMissing(t) == Key(t) \notin DOMAIN filesPresentSize

\* The write lock is taken to link the file into the cache.
LockForInsert(t) ==
    /\ At(t, "insert") /\ writer = NoThread /\ readers = {}
    /\ IF StillMissing(t)
       THEN Goto(t, "space") /\ writer' = t
       ELSE Return(t, "OK") /\ UNCHANGED writer
    /\ UNCHANGED <<readers, fileVars, directoryVars>>

\* Mutation of NeedsSpace: the file to be stored is not counted.
NeedsSpaceAfterwards(t) ==
    filesPresentList # <<>> /\ (Len(filesPresentList) > maxFiles \/ filesPresentTotalSize > maxSize)

\* The condition of the loop in makeSpace.
NeedsSpace(t) ==
    /\ filesPresentList # <<>>
    /\ Len(filesPresentList) >= maxFiles \/ filesPresentTotalSize + Size(t) > maxSize

\* Mutation of Unlock: an error path keeps the lock.
UnlockForgotten(t) == UNCHANGED writer

\* The deferred Unlock, on error paths.
Unlock(t) == writer' = NoThread

\* makeSpace: a random file is removed from disk and from the books; as the
\* lock is held, nobody sees one without the other.
RemoveFile(t, idx) ==
    /\ At(t, "space") /\ NeedsSpace(t)
    /\ idx \in DOMAIN filesPresentList
    /\ LET key == filesPresentList[idx]
       IN  /\ key \in DOMAIN cacheDirectory
           /\ cacheDirectory' = Without(cacheDirectory, key)
           /\ filesPresentTotalSize' = filesPresentTotalSize - filesPresentSize[key]
           /\ filesPresentSize' = Without(filesPresentSize, key)
    /\ filesPresentList' = SwapRemove(filesPresentList, idx)
    /\ UNCHANGED <<lockVars, directoryVars, call>>

\* The file is linked into the cache and entered into the books.
LinkIntoCache(t) ==
    /\ At(t, "space") /\ ~NeedsSpace(t)
    /\ Key(t) \notin DOMAIN cacheDirectory
    /\ cacheDirectory' = With(cacheDirectory, Key(t), call[t].target)
    /\ filesPresentList' = Append(filesPresentList, Key(t))
    /\ filesPresentSize' = With(filesPresentSize, Key(t), Size(t))
    /\ filesPresentTotalSize' = filesPresentTotalSize + Size(t)
    /\ writer' = NoThread
    /\ Return(t, "OK")
    /\ UNCHANGED <<readers, directoryVars>>

\* Removing or linking fails: because the file to be removed is not there, the
\* one to be linked is there already, or for another reason.
InsertFails(t) ==
    /\ At(t, "space")
    /\ \/ /\ IF NeedsSpace(t) THEN ~(ToSet(filesPresentList) \subseteq DOMAIN cacheDirectory)
                              ELSE Key(t) \in DOMAIN cacheDirectory
          /\ Return(t, "error")
       \/ ReturnFailure(t)
    /\ Unlock(t)
    /\ UNCHANGED <<readers, fileVars, directoryVars>>

---------------------------------------------------------------------------
\* GetDirectory of the directory cache: the lookup, under the read lock.
GetDirectory(t, d) ==
    /\ At(t, "idle")
    /\ call' = [call EXCEPT ![t] =
          IF d \in DOMAIN directoriesPresentMessage
          THEN [NoCall EXCEPT !.request = d, !.target = directoriesPresentMessage[d], !.result = "OK"]
          ELSE [NoCall EXCEPT !.request = d, !.pc = "getDirectory"]]
    /\ UNCHANGED <<lockVars, fileVars, directoryVars>>

\* The message is downloaded and unmarshalled.
DownloadDirectory(t) ==
    /\ At(t, "getDirectory")
    /\ \/ call' = [call EXCEPT ![t].pc = "insertDirectory", ![t].target = call[t].request]
       \/ ReturnFailure(t)
    /\ UNCHANGED <<lockVars, fileVars, directoryVars>>

\* Under the write lock it is inserted, unless another thread has done so, in
\* place of a random one if the cache is full (makeSpace never has to remove
\* two: insertions come one at a time).
InsertDirectory(t) ==
    /\ At(t, "insertDirectory")
    /\ LET d == call[t].request IN
       \/ d \in DOMAIN directoriesPresentMessage /\ UNCHANGED directoryVars
       \/ /\ d \notin DOMAIN directoriesPresentMessage
          /\ Len(directoriesPresentList) < maxDirectories
          /\ directoriesPresentList' = Append(directoriesPresentList, d)
          /\ directoriesPresentMessage' = With(directoriesPresentMessage, d, call[t].target)
       \/ /\ d \notin DOMAIN directoriesPresentMessage
          /\ Len(directoriesPresentList) >= maxDirectories
          /\ \E idx \in DOMAIN directoriesPresentList :
                /\ directoriesPresentList' = Append(SwapRemove(directoriesPresentList, idx), d)
                /\ directoriesPresentMessage' = With(
                      Without(directoriesPresentMessage, directoriesPresentList[idx]), d, call[t].target)
    /\ Return(t, "OK")
    /\ UNCHANGED <<lockVars, fileVars>>

---------------------------------------------------------------------------
\* Mutation of CacheAtStart: the files of the last process are left there.
CacheAtStartKept == cacheDirectory

\* main empties the cache directory before it creates the caches.
CacheAtStart == NoKeys

\* The worker dies at any point and is started again.
Restart ==
    /\ readers' = {} /\ writer' = NoThread
    /\ filesPresentList' = <<>> /\ filesPresentSize' = NoKeys /\ filesPresentTotalSize' = 0
    /\ cacheDirectory' = CacheAtStart
    /\ directoriesPresentList' = <<>> /\ directoriesPresentMessage' = NoKeys
    /\ call' = [t \in Threads |-> NoCall]

\* What a call in progress does next, waiting for locks apart.
Continue(t) ==
    \/ LinkHit(t) \/ Download(t) \/ DownloadFails(t)
    \/ \E idx \in 1 .. maxFiles : RemoveFile(t, idx)
    \/ LinkIntoCache(t) \/ InsertFails(t)
    \/ DownloadDirectory(t) \/ InsertDirectory(t)

Next ==
    \/ \E t \in Threads :
          \/ \E f \in Files : GetFile(t, f)
          \/ \E d \in Directories : GetDirectory(t, d)
          \/ Lookup(t) \/ LockForInsert(t) \/ Continue(t)
    \/ Restart

Spec == Init /\ [][Next]_vars

\* File system and storage answer; sync.RWMutex starves neither readers nor
\* writers.
FairSpec ==
    /\ Spec
    /\ \A t \in Threads :
          WF_vars(Continue(t)) /\ SF_vars(Lookup(t)) /\ SF_vars(LockForInsert(t))

---------------------------------------------------------------------------
\* Unless a thread is changing the cache, its books are exact: the list, the
\* sizes and the files on disk are those of the same keys, each of them once,
\* the total size is their sum, and each file is complete and has the content
\* of its key, whatever failed or died half-way before.
BooksExact ==
    writer = NoThread =>
        /\ Len(filesPresentList) = Cardinality(ToSet(filesPresentList))
        /\ ToSet(filesPresentList) = DOMAIN filesPresentSize
        /\ DOMAIN filesPresentSize = DOMAIN cacheDirectory
        /\ \A k \in DOMAIN cacheDirectory :
              cacheDirectory[k] \in Files /\ KeyOf(cacheDirectory[k]) = k
        /\ filesPresentTotalSize = MapThenSumSet(LAMBDA k : filesPresentSize[k], DOMAIN filesPresentSize)

\* Threads do not disturb each other: a call only fails if a call below it
\* did.  A hit is never evicted before it is linked, and two threads that
\* downloaded the same file do not both insert it.
FailuresHaveCauses == \A t \in Threads : call[t].result = "error" => call[t].failed

\* What a successful call leaves at its destination is the complete file with
\* the mode asked for, or the Directory asked for, cached or not.
SuccessIsRight == \A t \in Threads : call[t].result = "OK" => call[t].target = call[t].request

\* The caches keep their limits; a file larger than the limit on the size is
\* cached, but alone.
CachesBounded ==
    /\ Len(filesPresentList) <= maxFiles
    /\ Len(filesPresentList) > 1 => filesPresentTotalSize <= maxSize
    /\ Len(directoriesPresentList) <= maxDirectories
    /\ ToSet(directoriesPresentList) = DOMAIN directoriesPresentMessage

\* Every call returns, also after errors: no path keeps a lock.
CallsEnd == \A t \in Threads : ~At(t, "idle") ~> At(t, "idle")
===========================================================================
