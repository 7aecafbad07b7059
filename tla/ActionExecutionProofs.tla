----------------------- MODULE ActionExecutionProofs -----------------------
(***************************************************************************)
(* Proofs about the execution of actions, for any threads, actions,        *)
(* outputs and size of batches, and any number of failures.                *)
(***************************************************************************)
EXTENDS ActionExecution, TLAPS, FiniteSetTheorems

EntryKinds == {"absent", "malformed", "result", "foreign"}
Labels == {"idle", "upload", "cache", "find", "store", "respond"}

\* What the provers have to know of the variables.
ExecutionTypes ==
    /\ actionCache \in [Actions -> [kind : EntryKinds, blobs : SUBSET Blobs]]
    /\ pc \in [Threads -> Labels]
    /\ action \in [Threads -> Actions \cup {NoAction}]
    /\ todo \in [Threads -> SUBSET Blobs]
    /\ result \in [Threads -> SUBSET Blobs]
    /\ cacheable \in [Threads -> BOOLEAN]
    /\ response \in [Threads -> {"none", "OK", "error"}]
    /\ pending \in [Threads -> SUBSET Blobs]
    /\ missing \in [Threads -> SUBSET Blobs]
    /\ resume \in [Threads -> Labels]
    /\ confirmed \in [Threads -> SUBSET Blobs]

\* A flush returns to the upload, to the Put of the failure, or to the response.
FlushesReturn ==
    \A t \in Threads : pc[t] \in {"find", "store"} => resume[t] \in {"upload", "cache", "respond"}

\* A thread that executes something has an action to execute.
ActionsKnown == \A t \in Threads : pc[t] # "idle" => action[t] \in Actions

\* Before the caching executor has spoken, there is neither success nor failure.
NoResponseYet ==
    \A t \in Threads :
        \/ pc[t] \in {"upload", "cache"}
        \/ pc[t] \in {"find", "store"} /\ resume[t] \in {"upload", "cache"}
        => response[t] = "none"

\* As long as nothing has failed, every blob of the result is stored or pending.
ResultsKept ==
    \A t \in Threads : pc[t] # "idle" /\ response[t] # "error"
        => result[t] \subseteq confirmed[t] \cup pending[t]

\* What a flush does not have to store is known to be stored.
FlushKnows ==
    \A t \in Threads : pc[t] = "store" =>
        missing[t] \subseteq pending[t] /\ pending[t] \subseteq confirmed[t] \cup missing[t]

\* What is known to be stored is there, or was evicted.
ConfirmedStored == \A t \in Threads : confirmed[t] \subseteq cas \cup excused

\* CacheEntriesBacked blob by blob.
EntriesBacked ==
    \A a \in Actions, b \in Blobs :
        actionCache[a].kind = "result" /\ b \in actionCache[a].blobs
            => b \in cas \/ b \in excused \/ \E t \in Threads : b \in pending[t]

PendingFinite ==
    \A t \in Threads : IsFiniteSet(pending[t]) /\ Cardinality(pending[t]) <= batchSize

ExecutionInvariant ==
    /\ ExecutionTypes
    /\ FlushesReturn
    /\ ActionsKnown
    /\ NoResponseYet
    /\ ResultsKept
    /\ FlushKnows
    /\ ConfirmedStored
    /\ SuccessMeansStored
    /\ EntriesBacked
    /\ PendingFinite

---------------------------------------------------------------------------
\* Every blob that an action yields is one of Blobs.
LEMMA BlobsOfActions ==
    ASSUME NEW a \in Actions
    PROVE  Outputs[a] \subseteq Blobs /\ Failure[a] \in Blobs
BY DEF Blobs

\* A batch that is not full has room for one more operation.
LEMMA RoomForOne ==
    ASSUME NEW t \in Threads, NEW b, PendingFinite, ~Full(t)
    PROVE  IsFiniteSet(pending[t] \cup {b}) /\ Cardinality(pending[t] \cup {b}) <= batchSize
<1>1. IsFiniteSet(pending[t]) /\ Cardinality(pending[t]) \in Nat
    BY FS_CardinalityType DEF PendingFinite
<1>2. Cardinality(pending[t]) + 1 <= batchSize
    BY <1>1, ExecutionAssumption DEF Full
<1>3. /\ IsFiniteSet(pending[t] \cup {b})
      /\ Cardinality(pending[t] \cup {b}) \in {Cardinality(pending[t]), Cardinality(pending[t]) + 1}
    BY <1>1, FS_AddElement
<1> QED
    BY <1>1, <1>2, <1>3, ExecutionAssumption

\* Smaller batches are within the bound as well.
LEMMA FewerPending ==
    ASSUME NEW t \in Threads, PendingFinite, NEW S \in SUBSET pending[t]
    PROVE  IsFiniteSet(S) /\ Cardinality(S) <= batchSize
<1>1. IsFiniteSet(pending[t]) /\ Cardinality(pending[t]) \in Nat /\ Cardinality(pending[t]) <= batchSize
    BY FS_CardinalityType DEF PendingFinite
<1>2. IsFiniteSet(S) /\ Cardinality(S) <= Cardinality(pending[t])
    BY <1>1, FS_Subset
<1>3. Cardinality(S) \in Nat
    BY <1>2, FS_CardinalityType
<1> QED
    BY <1>1, <1>2, <1>3, ExecutionAssumption

\* At the start nothing is stored, pending or promised.
LEMMA InitInvariant == Init => ExecutionInvariant
<1> SUFFICES ASSUME Init PROVE ExecutionInvariant
    OBVIOUS
<1> USE DEF Init
<1>1. ExecutionTypes
    BY DEF ExecutionTypes, Labels, EntryKinds, Entry, NoEntry
<1>2. FlushesReturn /\ ActionsKnown /\ NoResponseYet
    BY DEF FlushesReturn, ActionsKnown, NoResponseYet
<1>3. ResultsKept /\ FlushKnows /\ SuccessMeansStored
    BY DEF ResultsKept, FlushKnows, SuccessMeansStored
<1>4. ConfirmedStored /\ EntriesBacked
    BY DEF ConfirmedStored, EntriesBacked, Entry, NoEntry
<1>5. PendingFinite
    BY FS_EmptySet, ExecutionAssumption DEF PendingFinite
<1> QED
    BY <1>1, <1>2, <1>3, <1>4, <1>5 DEF ExecutionInvariant

---------------------------------------------------------------------------
\* Preservation of the invariant, action by action.

\* A new execution promises nothing yet.
LEMMA RunCommandInv ==
    ASSUME ExecutionInvariant, NEW t \in Threads, NEW a \in Actions, RunCommand(t, a)
    PROVE  ExecutionInvariant'
<1> USE DEF ExecutionInvariant, ExecutionTypes, RunCommand, Goto, remoteVars
<1>1. ExecutionTypes'
    BY BlobsOfActions DEF Labels, EntryKinds
<1>2. FlushesReturn' /\ ActionsKnown' /\ NoResponseYet'
    BY DEF FlushesReturn, ActionsKnown, NoResponseYet
<1>3. ResultsKept' /\ FlushKnows' /\ SuccessMeansStored'
    BY DEF ResultsKept, FlushKnows, SuccessMeansStored
<1>4. ConfirmedStored' /\ EntriesBacked'
    BY DEF ConfirmedStored, EntriesBacked
<1>5. PendingFinite'
    BY DEF PendingFinite
<1> QED
    BY <1>1, <1>2, <1>3, <1>4, <1>5

\* An execution that fails at once is without a result.
LEMMA RunCommandFailsInv ==
    ASSUME ExecutionInvariant, NEW t \in Threads, NEW a \in Actions, RunCommandFails(t, a)
    PROVE  ExecutionInvariant'
<1> USE DEF ExecutionInvariant, ExecutionTypes, RunCommandFails, Goto, remoteVars
<1>1. ExecutionTypes'
    BY DEF Labels, EntryKinds
<1>2. FlushesReturn' /\ ActionsKnown' /\ NoResponseYet'
    BY DEF FlushesReturn, ActionsKnown, NoResponseYet
<1>3. ResultsKept' /\ FlushKnows' /\ SuccessMeansStored'
    BY DEF ResultsKept, FlushKnows, SuccessMeansStored
<1>4. ConfirmedStored' /\ EntriesBacked'
    BY DEF ConfirmedStored, EntriesBacked
<1>5. PendingFinite'
    BY DEF PendingFinite
<1> QED
    BY <1>1, <1>2, <1>3, <1>4, <1>5

\* A flush in between keeps result and batch.
LEMMA FlushFirstInv ==
    ASSUME ExecutionInvariant, NEW t \in Threads, pc[t] \in {"upload", "cache"}, FlushFirst(t)
    PROVE  ExecutionInvariant'
<1> USE DEF ExecutionInvariant, ExecutionTypes, FlushFirst, Goto, remoteVars, threadVars
<1>1. ExecutionTypes'
    BY DEF Labels, EntryKinds
<1>2. FlushesReturn' /\ ActionsKnown' /\ NoResponseYet'
    BY DEF FlushesReturn, ActionsKnown, NoResponseYet
<1>3. ResultsKept' /\ FlushKnows' /\ SuccessMeansStored'
    BY DEF ResultsKept, FlushKnows, SuccessMeansStored
<1>4. ConfirmedStored' /\ EntriesBacked'
    BY DEF ConfirmedStored, EntriesBacked
<1>5. PendingFinite'
    BY DEF PendingFinite
<1> QED
    BY <1>1, <1>2, <1>3, <1>4, <1>5

\* Taking a blob into the batch: the result may refer to it from now on.
LEMMA UploadInv ==
    ASSUME ExecutionInvariant, NEW t \in Threads, NEW b \in Blobs, Upload(t, b)
    PROVE  ExecutionInvariant'
<1>1. CASE FlushFirst(t)
    BY <1>1, FlushFirstInv DEF Upload
<1>2. CASE Enqueue(t, b) /\ ~FlushFirst(t)
    <2> USE <1>2 DEF ExecutionInvariant, ExecutionTypes, Upload, Enqueue, remoteVars, flushVars
    <2>1. ExecutionTypes'
        BY DEF Labels
    <2>2. FlushesReturn' /\ ActionsKnown' /\ NoResponseYet'
        BY DEF FlushesReturn, ActionsKnown, NoResponseYet
    <2>3. ResultsKept' /\ FlushKnows' /\ SuccessMeansStored'
        BY DEF ResultsKept, FlushKnows, SuccessMeansStored
    <2>4. ConfirmedStored' /\ EntriesBacked'
        BY DEF ConfirmedStored, EntriesBacked
    <2>5. PendingFinite'
        BY RoomForOne DEF PendingFinite
    <2> QED
        BY <2>1, <2>2, <2>3, <2>4, <2>5
<1> QED
    BY <1>1, <1>2 DEF Upload

\* A failed upload leaves an error and no result to account for.
LEMMA UploadFailsInv ==
    ASSUME ExecutionInvariant, NEW t \in Threads, UploadFails(t)
    PROVE  ExecutionInvariant'
<1> USE DEF ExecutionInvariant, ExecutionTypes, UploadFails, Error, Goto, remoteVars, threadVars
<1>1. ExecutionTypes'
    BY DEF Labels, EntryKinds
<1>2. FlushesReturn' /\ ActionsKnown' /\ NoResponseYet'
    BY DEF FlushesReturn, ActionsKnown, NoResponseYet
<1>3. ResultsKept' /\ FlushKnows' /\ SuccessMeansStored'
    BY DEF ResultsKept, FlushKnows, SuccessMeansStored
<1>4. ConfirmedStored' /\ EntriesBacked'
    BY DEF ConfirmedStored, EntriesBacked
<1>5. PendingFinite'
    BY DEF PendingFinite
<1> QED
    BY <1>1, <1>2, <1>3, <1>4, <1>5

\* The caching executor takes over what the local one accounts for.
LEMMA UploadDoneInv ==
    ASSUME ExecutionInvariant, NEW t \in Threads, UploadDone(t)
    PROVE  ExecutionInvariant'
<1> USE DEF ExecutionInvariant, ExecutionTypes, UploadDone, Goto, remoteVars, threadVars, flushVars
<1>1. ExecutionTypes'
    BY DEF Labels, EntryKinds
<1>2. FlushesReturn' /\ ActionsKnown' /\ NoResponseYet'
    BY DEF FlushesReturn, ActionsKnown, NoResponseYet
<1>3. ResultsKept' /\ FlushKnows' /\ SuccessMeansStored'
    BY DEF ResultsKept, FlushKnows, SuccessMeansStored
<1>4. ConfirmedStored' /\ EntriesBacked'
    BY DEF ConfirmedStored, EntriesBacked
<1>5. PendingFinite'
    BY DEF PendingFinite
<1> QED
    BY <1>1, <1>2, <1>3, <1>4, <1>5

\* The entry written is backed, as the result is.
LEMMA CacheResultInv ==
    ASSUME ExecutionInvariant, NEW t \in Threads, CacheResult(t)
    PROVE  ExecutionInvariant'
<1> USE DEF ExecutionInvariant, ExecutionTypes, CacheResult, ReturnToFlush, Goto, threadVars, Entry
<1>1. ExecutionTypes'
    BY DEF Labels, EntryKinds
<1>2. FlushesReturn' /\ ActionsKnown' /\ NoResponseYet'
    BY DEF FlushesReturn, ActionsKnown, NoResponseYet
<1>3. ResultsKept' /\ FlushKnows' /\ SuccessMeansStored'
    BY DEF ResultsKept, FlushKnows, SuccessMeansStored, NoResponseYet
<1>4. ConfirmedStored' /\ EntriesBacked'
    BY DEF ConfirmedStored, EntriesBacked, ResultsKept, NoResponseYet
<1>5. PendingFinite'
    BY DEF PendingFinite
<1> QED
    BY <1>1, <1>2, <1>3, <1>4, <1>5

\* An entry that was written although the call failed is backed, too.
LEMMA CacheResultFailsInv ==
    ASSUME ExecutionInvariant, NEW t \in Threads, CacheResultFails(t)
    PROVE  ExecutionInvariant'
<1> USE DEF ExecutionInvariant, ExecutionTypes, CacheResultFails, ReturnToFlush, Goto, threadVars, Entry
<1> DEFINE written == [actionCache EXCEPT ![action[t]] = Entry("result", result[t])]
<1>1. actionCache' = actionCache \/ actionCache' = written
    OBVIOUS
<1>2. actionCache' \in [Actions -> [kind : EntryKinds, blobs : SUBSET Blobs]]
    BY <1>1 DEF EntryKinds
<1>3. ExecutionTypes'
    BY <1>2 DEF Labels
<1>4. FlushesReturn' /\ ActionsKnown' /\ NoResponseYet'
    BY DEF FlushesReturn, ActionsKnown, NoResponseYet
<1>5. ResultsKept' /\ FlushKnows' /\ SuccessMeansStored'
    BY DEF ResultsKept, FlushKnows, SuccessMeansStored
<1>6. ConfirmedStored'
    BY DEF ConfirmedStored
<1>7. CASE actionCache' = actionCache
    BY <1>3, <1>4, <1>5, <1>6, <1>7 DEF EntriesBacked, PendingFinite
<1>8. CASE actionCache' = written
    <2>1. EntriesBacked'
        BY <1>8 DEF EntriesBacked, ResultsKept, NoResponseYet, ConfirmedStored
    <2> QED
        BY <1>3, <1>4, <1>5, <1>6, <2>1 DEF PendingFinite
<1> QED
    BY <1>1, <1>7, <1>8

\* The message about an uncached result joins the batch.
LEMMA StoreFailureInv ==
    ASSUME ExecutionInvariant, NEW t \in Threads, StoreFailure(t)
    PROVE  ExecutionInvariant'
<1>1. CASE FlushFirst(t)
    BY <1>1, FlushFirstInv DEF StoreFailure
<1>2. CASE Enqueue(t, FailureOf(t)) /\ ~FlushFirst(t)
    <2>1. FailureOf(t) \in Blobs
        BY BlobsOfActions DEF ExecutionInvariant, ActionsKnown, StoreFailure, FailureOf
    <2> DEFINE b == FailureOf(t)
    <2>2. b \in Blobs
        BY <2>1
    <2>3. /\ pending' = [pending EXCEPT ![t] = @ \cup {b}] /\ ~Full(t)
          /\ pc[t] = "cache" /\ ReturnToFlush(t, "OK")
          /\ UNCHANGED <<remoteVars, threadVars, missing, confirmed, counts>>
        BY <1>2 DEF StoreFailure, Enqueue
    <2> HIDE DEF b
    <2> USE <2>2, <2>3 DEF ExecutionInvariant, ExecutionTypes, ReturnToFlush, Goto, remoteVars, threadVars
    <2>4. ExecutionTypes'
        BY DEF Labels
    <2>5. FlushesReturn' /\ ActionsKnown' /\ NoResponseYet'
        BY DEF FlushesReturn, ActionsKnown, NoResponseYet
    <2>6. ResultsKept' /\ FlushKnows' /\ SuccessMeansStored'
        BY DEF ResultsKept, FlushKnows, SuccessMeansStored, NoResponseYet
    <2>7. ConfirmedStored' /\ EntriesBacked'
        BY DEF ConfirmedStored, EntriesBacked
    <2>8. PendingFinite'
        BY RoomForOne DEF PendingFinite
    <2> QED
        BY <2>4, <2>5, <2>6, <2>7, <2>8
<1> QED
    BY <1>1, <1>2 DEF StoreFailure

\* FindMissing divides the batch into what is stored and what is missing.
LEMMA FlushFindInv ==
    ASSUME ExecutionInvariant, NEW t \in Threads, FlushFind(t)
    PROVE  ExecutionInvariant'
<1> USE DEF ExecutionInvariant, ExecutionTypes, FlushFind, Goto, remoteVars, threadVars
<1>1. ExecutionTypes'
    BY DEF Labels, EntryKinds
<1>2. FlushesReturn' /\ ActionsKnown' /\ NoResponseYet'
    BY DEF FlushesReturn, ActionsKnown, NoResponseYet
<1>3. ResultsKept' /\ FlushKnows' /\ SuccessMeansStored'
    BY DEF ResultsKept, FlushKnows, SuccessMeansStored
<1>4. ConfirmedStored' /\ EntriesBacked'
    BY DEF ConfirmedStored, EntriesBacked
<1>5. PendingFinite'
    BY DEF PendingFinite
<1> QED
    BY <1>1, <1>2, <1>3, <1>4, <1>5

\* A blob moves from the batch to storage.
LEMMA FlushPutInv ==
    ASSUME ExecutionInvariant, NEW t \in Threads, NEW b \in Blobs, FlushPut(t, b)
    PROVE  ExecutionInvariant'
<1> USE DEF ExecutionInvariant, ExecutionTypes, FlushPut, threadVars
<1>1. ExecutionTypes'
    BY DEF Labels, EntryKinds
<1>2. FlushesReturn' /\ ActionsKnown' /\ NoResponseYet'
    BY DEF FlushesReturn, ActionsKnown, NoResponseYet
<1>3. ResultsKept' /\ FlushKnows' /\ SuccessMeansStored'
    BY DEF ResultsKept, FlushKnows, SuccessMeansStored
<1>4. ConfirmedStored' /\ EntriesBacked'
    BY DEF ConfirmedStored, EntriesBacked
<1>5. PendingFinite'
    BY FewerPending DEF PendingFinite
<1> QED
    BY <1>1, <1>2, <1>3, <1>4, <1>5

\* Nothing is dropped that is not known to be stored.
LEMMA FlushDoneInv ==
    ASSUME ExecutionInvariant, NEW t \in Threads, FlushDone(t)
    PROVE  ExecutionInvariant'
<1> USE DEF ExecutionInvariant, ExecutionTypes, FlushDone, Goto, StillPending, remoteVars, threadVars, flushVars
<1>1. ExecutionTypes'
    BY DEF Labels, EntryKinds
<1>2. FlushesReturn' /\ ActionsKnown' /\ NoResponseYet'
    BY DEF FlushesReturn, ActionsKnown, NoResponseYet, Labels
<1>3. ResultsKept' /\ FlushKnows' /\ SuccessMeansStored'
    BY DEF ResultsKept, FlushKnows, SuccessMeansStored
<1>4. ConfirmedStored' /\ EntriesBacked'
    BY DEF ConfirmedStored, EntriesBacked, FlushKnows
<1>5. PendingFinite'
    BY FewerPending DEF PendingFinite
<1> QED
    BY <1>1, <1>2, <1>3, <1>4, <1>5

\* A flush that fails at once leaves the batch alone.
LEMMA FlushFindFailsInv ==
    ASSUME ExecutionInvariant, NEW t \in Threads, FlushFindFails(t)
    PROVE  ExecutionInvariant'
<1> USE DEF ExecutionInvariant, ExecutionTypes, FlushFindFails, AfterFlushError, Goto, Error, remoteVars, threadVars
<1>1. ExecutionTypes'
    BY DEF Labels, EntryKinds
<1>2. FlushesReturn' /\ ActionsKnown' /\ NoResponseYet'
    BY DEF FlushesReturn, ActionsKnown, NoResponseYet
<1>3. ResultsKept' /\ FlushKnows' /\ SuccessMeansStored'
    BY DEF ResultsKept, FlushKnows, SuccessMeansStored
<1>4. ConfirmedStored' /\ EntriesBacked'
    BY DEF ConfirmedStored, EntriesBacked
<1>5. PendingFinite'
    BY DEF PendingFinite
<1> QED
    BY <1>1, <1>2, <1>3, <1>4, <1>5

\* A blob whose Put fails is excused, and the response is an error.
LEMMA FlushPutFailsInv ==
    ASSUME ExecutionInvariant, NEW t \in Threads, NEW b \in Blobs, FlushPutFails(t, b)
    PROVE  ExecutionInvariant'
<1> USE DEF ExecutionInvariant, ExecutionTypes, FlushPutFails, AfterFlushError, Goto, Error, threadVars
<1>1. ExecutionTypes'
    BY DEF Labels, EntryKinds
<1>2. FlushesReturn' /\ ActionsKnown' /\ NoResponseYet'
    BY DEF FlushesReturn, ActionsKnown, NoResponseYet
<1>3. ResultsKept' /\ FlushKnows' /\ SuccessMeansStored'
    BY DEF ResultsKept, FlushKnows, SuccessMeansStored
<1>4. ConfirmedStored' /\ EntriesBacked'
    BY DEF ConfirmedStored, EntriesBacked
<1>5. PendingFinite'
    BY FewerPending DEF PendingFinite
<1> QED
    BY <1>1, <1>2, <1>3, <1>4, <1>5

\* The response ends the execution.
LEMMA RespondInv ==
    ASSUME ExecutionInvariant, NEW t \in Threads, Respond(t)
    PROVE  ExecutionInvariant'
<1> USE DEF ExecutionInvariant, ExecutionTypes, Respond, Goto, Forget, remoteVars
<1>1. ExecutionTypes'
    BY DEF Labels, EntryKinds
<1>2. FlushesReturn' /\ ActionsKnown' /\ NoResponseYet'
    BY DEF FlushesReturn, ActionsKnown, NoResponseYet
<1>3. ResultsKept' /\ FlushKnows' /\ SuccessMeansStored'
    BY DEF ResultsKept, FlushKnows, SuccessMeansStored
<1>4. ConfirmedStored' /\ EntriesBacked'
    BY DEF ConfirmedStored, EntriesBacked
<1>5. PendingFinite'
    BY DEF PendingFinite
<1> QED
    BY <1>1, <1>2, <1>3, <1>4, <1>5

\* Readers of the Action Cache disturb nobody.
LEMMA GetMalformedInv ==
    ASSUME ExecutionInvariant, NEW a \in Actions, GetMalformed(a)
    PROVE  ExecutionInvariant'
<1> USE DEF ExecutionInvariant, ExecutionTypes, GetMalformed, threadVars, flushVars
<1>1. ExecutionTypes'
    BY DEF Labels, EntryKinds
<1>2. FlushesReturn' /\ ActionsKnown' /\ NoResponseYet'
    BY DEF FlushesReturn, ActionsKnown, NoResponseYet
<1>3. ResultsKept' /\ FlushKnows' /\ SuccessMeansStored'
    BY DEF ResultsKept, FlushKnows, SuccessMeansStored
<1>4. ConfirmedStored' /\ EntriesBacked'
    BY DEF ConfirmedStored, EntriesBacked
<1>5. PendingFinite'
    BY DEF PendingFinite
<1> QED
    BY <1>1, <1>2, <1>3, <1>4, <1>5

\* An entry that is deleted promises nothing.
LEMMA DeleteMalformedInv ==
    ASSUME ExecutionInvariant, DeleteMalformed
    PROVE  ExecutionInvariant'
<1> USE DEF ExecutionInvariant, ExecutionTypes, DeleteMalformed, threadVars, flushVars
<1>1. ExecutionTypes'
    BY DEF Labels, EntryKinds, NoEntry, Entry
<1>2. FlushesReturn' /\ ActionsKnown' /\ NoResponseYet'
    BY DEF FlushesReturn, ActionsKnown, NoResponseYet
<1>3. ResultsKept' /\ FlushKnows' /\ SuccessMeansStored'
    BY DEF ResultsKept, FlushKnows, SuccessMeansStored
<1>4. ConfirmedStored' /\ EntriesBacked'
    BY DEF ConfirmedStored, EntriesBacked, NoEntry, Entry
<1>5. PendingFinite'
    BY DEF PendingFinite
<1> QED
    BY <1>1, <1>2, <1>3, <1>4, <1>5

\* Entries of clients are their own responsibility.
LEMMA UpdateActionResultInv ==
    ASSUME ExecutionInvariant, NEW a \in Actions, UpdateActionResult(a)
    PROVE  ExecutionInvariant'
<1> USE DEF ExecutionInvariant, ExecutionTypes, UpdateActionResult, Disturb, Entry, threadVars, flushVars
<1>1. ExecutionTypes'
    BY DEF Labels, EntryKinds
<1>2. FlushesReturn' /\ ActionsKnown' /\ NoResponseYet'
    BY DEF FlushesReturn, ActionsKnown, NoResponseYet
<1>3. ResultsKept' /\ FlushKnows' /\ SuccessMeansStored'
    BY DEF ResultsKept, FlushKnows, SuccessMeansStored
<1>4. ConfirmedStored' /\ EntriesBacked'
    BY DEF ConfirmedStored, EntriesBacked
<1>5. PendingFinite'
    BY DEF PendingFinite
<1> QED
    BY <1>1, <1>2, <1>3, <1>4, <1>5

\* A damaged entry promises nothing.
LEMMA CorruptInv ==
    ASSUME ExecutionInvariant, NEW a \in Actions, Corrupt(a)
    PROVE  ExecutionInvariant'
<1> USE DEF ExecutionInvariant, ExecutionTypes, Corrupt, Disturb, Entry, threadVars, flushVars
<1>1. ExecutionTypes'
    BY DEF Labels, EntryKinds
<1>2. FlushesReturn' /\ ActionsKnown' /\ NoResponseYet'
    BY DEF FlushesReturn, ActionsKnown, NoResponseYet
<1>3. ResultsKept' /\ FlushKnows' /\ SuccessMeansStored'
    BY DEF ResultsKept, FlushKnows, SuccessMeansStored
<1>4. ConfirmedStored' /\ EntriesBacked'
    BY DEF ConfirmedStored, EntriesBacked
<1>5. PendingFinite'
    BY DEF PendingFinite
<1> QED
    BY <1>1, <1>2, <1>3, <1>4, <1>5

\* An evicted blob is excused.
LEMMA EvictInv ==
    ASSUME ExecutionInvariant, NEW b \in Blobs, Evict(b)
    PROVE  ExecutionInvariant'
<1> USE DEF ExecutionInvariant, ExecutionTypes, Evict, Disturb, threadVars, flushVars
<1>1. ExecutionTypes'
    BY DEF Labels, EntryKinds
<1>2. FlushesReturn' /\ ActionsKnown' /\ NoResponseYet'
    BY DEF FlushesReturn, ActionsKnown, NoResponseYet
<1>3. ResultsKept' /\ FlushKnows' /\ SuccessMeansStored'
    BY DEF ResultsKept, FlushKnows, SuccessMeansStored
<1>4. ConfirmedStored' /\ EntriesBacked'
    BY DEF ConfirmedStored, EntriesBacked
<1>5. PendingFinite'
    BY DEF PendingFinite
<1> QED
    BY <1>1, <1>2, <1>3, <1>4, <1>5

\* What a dead process had pending is excused.
LEMMA CrashInv ==
    ASSUME ExecutionInvariant, Crash
    PROVE  ExecutionInvariant'
<1> USE DEF ExecutionInvariant, ExecutionTypes, Crash, Disturb
<1>1. ExecutionTypes'
    BY DEF Labels, EntryKinds
<1>2. FlushesReturn' /\ ActionsKnown' /\ NoResponseYet'
    BY DEF FlushesReturn, ActionsKnown, NoResponseYet
<1>3. ResultsKept' /\ FlushKnows' /\ SuccessMeansStored'
    BY DEF ResultsKept, FlushKnows, SuccessMeansStored
<1>4. ConfirmedStored' /\ EntriesBacked'
    BY DEF ConfirmedStored, EntriesBacked
<1>5. PendingFinite'
    BY FS_EmptySet, ExecutionAssumption DEF PendingFinite
<1> QED
    BY <1>1, <1>2, <1>3, <1>4, <1>5

---------------------------------------------------------------------------
\* Every step of the worker, of the storage and of clients keeps the invariant.
LEMMA NextInv == ExecutionInvariant /\ [Next]_vars => ExecutionInvariant'
<1> SUFFICES ASSUME ExecutionInvariant, [Next]_vars PROVE ExecutionInvariant'
    OBVIOUS
<1>1. ASSUME NEW t \in Threads, NEW a \in Actions, RunCommand(t, a) \/ RunCommandFails(t, a)
      PROVE  ExecutionInvariant'
    BY <1>1, RunCommandInv, RunCommandFailsInv
<1>2. ASSUME NEW t \in Threads, ThreadNext(t)
      PROVE  ExecutionInvariant'
    <2>1. ASSUME NEW b \in Blobs, Upload(t, b) \/ FlushPut(t, b) \/ FlushPutFails(t, b)
          PROVE  ExecutionInvariant'
        BY <2>1, UploadInv, FlushPutInv, FlushPutFailsInv
    <2>2. CASE UploadFails(t) \/ UploadDone(t) \/ CacheResult(t) \/ CacheResultFails(t) \/ StoreFailure(t)
        BY <2>2, UploadFailsInv, UploadDoneInv, CacheResultInv, CacheResultFailsInv, StoreFailureInv
    <2>3. CASE FlushFind(t) \/ FlushFindFails(t) \/ FlushDone(t) \/ Respond(t)
        BY <2>3, FlushFindInv, FlushFindFailsInv, FlushDoneInv, RespondInv
    <2> QED
        BY <1>2, <2>1, <2>2, <2>3 DEF ThreadNext
<1>3. ASSUME NEW a \in Actions, GetMalformed(a) \/ UpdateActionResult(a) \/ Corrupt(a)
      PROVE  ExecutionInvariant'
    BY <1>3, GetMalformedInv, UpdateActionResultInv, CorruptInv
<1>4. CASE DeleteMalformed \/ Crash
    BY <1>4, DeleteMalformedInv, CrashInv
<1>5. ASSUME NEW b \in Blobs, Evict(b)
      PROVE  ExecutionInvariant'
    BY <1>5, EvictInv
<1>6. CASE UNCHANGED vars
    BY <1>6 DEF vars, ExecutionInvariant, ExecutionTypes, FlushesReturn, ActionsKnown, NoResponseYet,
        ResultsKept, FlushKnows, ConfirmedStored, SuccessMeansStored, EntriesBacked, PendingFinite
<1> QED
    BY <1>1, <1>2, <1>3, <1>4, <1>5, <1>6 DEF Next

\* The inductive invariant: what connects the position of the threads of
\* bbb_worker, their batches, the storage and the Action Cache.
THEOREM ExecutionInvariantHolds == Spec => []ExecutionInvariant
BY InitInvariant, NextInv, PTL DEF Spec

\* Success is only reported when every output is stored, whatever failed before
\* and whatever earlier executions left in the batch.
THEOREM SuccessIsStored == Spec => []SuccessMeansStored
<1>1. ExecutionInvariant => SuccessMeansStored
    BY DEF ExecutionInvariant
<1> QED
    BY ExecutionInvariantHolds, <1>1, PTL

\* batchedStoreBlobAccess never holds more than batchSize operations.
THEOREM PendingIsBounded == Spec => []PendingBounded
<1>1. ExecutionInvariant => PendingBounded
    BY DEF ExecutionInvariant, PendingFinite, PendingBounded
<1> QED
    BY ExecutionInvariantHolds, <1>1, PTL

\* Entries that workers write refer to nothing that is neither stored nor
\* pending, but for what was evicted, or lost to a failed Put or a crash.
THEOREM CacheEntriesAreBacked == Spec => []CacheEntriesBacked
<1>1. ExecutionInvariant => CacheEntriesBacked
    <2> SUFFICES ASSUME ExecutionInvariant, NEW a \in Actions, actionCache[a].kind = "result",
                        NEW b \in actionCache[a].blobs
                 PROVE  b \in cas \cup excused \cup UNION {pending[t] : t \in Threads}
        BY DEF CacheEntriesBacked
    <2>1. b \in Blobs
        BY DEF ExecutionInvariant, ExecutionTypes
    <2> QED
        BY <2>1 DEF ExecutionInvariant, EntriesBacked
<1> QED
    BY ExecutionInvariantHolds, <1>1, PTL
===========================================================================
