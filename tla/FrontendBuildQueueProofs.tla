---------------------- MODULE FrontendBuildQueueProofs ----------------------
(***************************************************************************)
(* Proofs about the frontend's build queue, for any clients, schedulers,   *)
(* instance names and restarts.                                            *)
(***************************************************************************)
EXTENDS FrontendBuildQueue, TLAPS, SequenceTheorems

Name == Seq(STRING)
Message == [name : Name, end : {"no", "done", "EOF", "error"}]
Relayed == [name : Name, done : BOOLEAN]
Statuses == {"new", "running", "OK", "InvalidArgument", "NotFound", "Unavailable", "Cancelled"}
Forwarding == [backend : Backends \cup {"none"}, job : Jobs \cup {"none"}, prefix : Name]

FrontendTypes ==
    /\ created \in [Backends -> SUBSET Jobs]
    /\ jobs \in [Backends -> SUBSET Jobs]
    /\ call \in [Calls -> Forwarding]
    /\ pipe \in [Calls -> Seq(Message)]
    /\ received \in [Calls -> Seq(Relayed)]
    /\ status \in [Calls -> Statuses]
    /\ asked \in [Calls -> Name]
    /\ known \in SUBSET Name

\* A scheduler remembers only what it created.
JobsWereCreated == \A b \in Backends : jobs[b] \subseteq created[b]

\* An Execute call is relayed with the name of the scheduler that has its job.
CallsHaveJobs ==
    \A c \in Calls : status[c] = "running" =>
        LET b == call[c].backend
        IN  /\ call[c].job \in Jobs
            /\ asked[c] = <<>> => b \in Backends /\ call[c].job \in created[b] /\ call[c].prefix = <<b>>

\* What is on its way to the client is about its job.
MessagesNameJobs ==
    \A c \in Calls : \A i \in DOMAIN pipe[c] :
        pipe[c][i].end \in {"no", "done"} => pipe[c][i].name = <<call[c].job>>

\* Where the operations are that are done, among those relayed to the client.
DoneAt(c) == {i \in DOMAIN received[c] : received[c][i].done}

\* A stream that has not been relayed to its end is in order: what ends it is
\* the last message, the end of the stream comes after the operation that is
\* done, and nothing else does.
EndsLast(p) == \A i \in 1 .. Len(p) : p[i].end \in {"EOF", "error"} => i = Len(p)
DoneThenEOF(p) == \A i \in 1 .. Len(p) : p[i].end = "done" => i + 1 = Len(p) /\ p[i + 1].end = "EOF"
EOFAfterDone(p) == \A i \in 2 .. Len(p) : p[i].end = "EOF" => p[i - 1].end = "done"
OnlyEOFLeft(p) == Len(p) = 1 /\ p[1].end = "EOF"

InOrder(c) ==
    /\ EndsLast(pipe[c]) /\ DoneThenEOF(pipe[c]) /\ EOFAfterDone(pipe[c])
    /\ Len(received[c]) \in DoneAt(c) <=> OnlyEOFLeft(pipe[c])

\* OKMeansDone, and what it takes while the call lasts.
StreamFine(c) ==
    /\ status[c] = "new" => pipe[c] = <<>> /\ received[c] = <<>> /\ asked[c] = <<>>
    /\ status[c] = "running" => InOrder(c)
    /\ status[c] = "OK" => Len(received[c]) \in DoneAt(c)
    /\ DoneAt(c) \subseteq {Len(received[c])}

StreamsFine == \A c \in Calls : StreamFine(c)

FrontendInvariant ==
    /\ FrontendTypes
    /\ JobsWereCreated
    /\ CallsHaveJobs
    /\ MessagesNameJobs
    /\ NamesLeadBack
    /\ StreamsFine

---------------------------------------------------------------------------
\* Nothing has happened at first.
LEMMA FrontendInit ==
    ASSUME Init
    PROVE  FrontendInvariant
<1> USE DEF Init
<1>1. FrontendTypes
    BY DEF FrontendTypes, NoCall, Name, Forwarding, Statuses
<1>2. JobsWereCreated /\ CallsHaveJobs /\ MessagesNameJobs /\ NamesLeadBack
    BY DEF JobsWereCreated, CallsHaveJobs, MessagesNameJobs, NamesLeadBack
<1>3. StreamsFine
    BY DEF StreamsFine, StreamFine, DoneAt
<1> QED
    BY <1>1, <1>2, <1>3 DEF FrontendInvariant

\* A stream that is neither written nor read stays as it is.
LEMMA SameStream ==
    ASSUME NEW c \in Calls, StreamFine(c), UNCHANGED <<pipe[c], received[c], status[c], asked[c]>>
    PROVE  StreamFine(c)'
BY DEF StreamFine, InOrder, DoneAt

\* A call that is forwarded, or returns an error, has nothing new on its stream.
LEMMA StreamStartsOrFails ==
    ASSUME FrontendTypes, NEW c \in Calls, StreamFine(c), UNCHANGED <<pipe[c], received[c]>>,
           \/ status'[c] \notin {"new", "running", "OK"}
           \/ status[c] = "new" /\ status'[c] = "running"
    PROVE  StreamFine(c)'
BY DEF FrontendTypes, StreamFine, InOrder, DoneAt, EndsLast, DoneThenEOF, EOFAfterDone, OnlyEOFLeft

\* A stream that has not ended is in order, whatever ends it.
LEMMA EndKeepsOrder ==
    ASSUME NEW p \in Seq(Message), \A i \in DOMAIN p : p[i].end = "no",
           NEW q \in Seq(Message), \A i \in DOMAIN p : q[i] = p[i],
           \/ Len(q) = Len(p) + 1 /\ q[Len(p) + 1].end \in {"no", "error"}
           \/ Len(q) = Len(p) + 2 /\ q[Len(p) + 1].end = "done" /\ q[Len(p) + 2].end = "EOF"
    PROVE  EndsLast(q) /\ DoneThenEOF(q) /\ EOFAfterDone(q) /\ ~OnlyEOFLeft(q) /\ ~OnlyEOFLeft(p)
<1>1. Len(p) \in Nat /\ DOMAIN p = 1 .. Len(p)
    BY LenProperties
<1>2. \A i \in 1 .. Len(p) : p[i].end = "no" /\ q[i].end = "no"
    BY <1>1
<1>3. CASE Len(q) = Len(p) + 1 /\ q[Len(p) + 1].end \in {"no", "error"}
    BY <1>1, <1>2, <1>3 DEF EndsLast, DoneThenEOF, EOFAfterDone, OnlyEOFLeft
<1>4. CASE Len(q) = Len(p) + 2 /\ q[Len(p) + 1].end = "done" /\ q[Len(p) + 2].end = "EOF"
    <2>1. EndsLast(q) /\ EOFAfterDone(q)
        BY <1>1, <1>2, <1>4 DEF EndsLast, EOFAfterDone
    <2>2. DoneThenEOF(q)
        <3> SUFFICES ASSUME NEW i \in 1 .. Len(q), q[i].end = "done"
                     PROVE  i = Len(p) + 1
            BY <1>1, <1>4 DEF DoneThenEOF
        <3> QED
            BY <1>1, <1>2, <1>4
    <2>3. ~OnlyEOFLeft(q) /\ ~OnlyEOFLeft(p)
        BY <1>1, <1>2, <1>4 DEF OnlyEOFLeft
    <2> QED
        BY <2>1, <2>2, <2>3
<1> QED
    BY <1>3, <1>4

\* What is left of a stream after a relayed operation is in order.
LEMMA TailKeepsOrder ==
    ASSUME NEW p \in Seq(Message), p # <<>>, p[1].end \in {"no", "done"},
           EndsLast(p), DoneThenEOF(p), EOFAfterDone(p)
    PROVE  /\ EndsLast(Tail(p)) /\ DoneThenEOF(Tail(p)) /\ EOFAfterDone(Tail(p))
           /\ OnlyEOFLeft(Tail(p)) <=> p[1].end = "done"
<1> DEFINE q == Tail(p)
<1>1. Len(p) \in Nat \ {0} /\ Len(q) = Len(p) - 1 /\ \A i \in 1 .. Len(p) - 1 : q[i] = p[i + 1]
    BY LenProperties, HeadTailProperties, EmptySeq
<1> SUFFICES /\ EndsLast(q) /\ DoneThenEOF(q) /\ EOFAfterDone(q)
             /\ OnlyEOFLeft(q) <=> p[1].end = "done"
    OBVIOUS
<1> HIDE DEF q
<1>2. ASSUME NEW i \in 1 .. Len(q)
      PROVE  i + 1 \in 1 .. Len(p) /\ q[i] = p[i + 1]
    BY <1>1
<1>3. EndsLast(q)
    BY <1>1, <1>2 DEF EndsLast
<1>4. DoneThenEOF(q)
    <2> SUFFICES ASSUME NEW i \in 1 .. Len(q), q[i].end = "done"
                 PROVE  i + 1 = Len(q) /\ q[i + 1].end = "EOF"
        BY DEF DoneThenEOF
    <2>1. i + 2 = Len(p) /\ p[i + 2].end = "EOF"
        BY <1>1, <1>2 DEF DoneThenEOF
    <2> QED
        BY <1>1, <1>2, <2>1
<1>5. EOFAfterDone(q)
    BY <1>1, <1>2 DEF EOFAfterDone
<1>6. OnlyEOFLeft(q) => p[1].end = "done"
    <2> SUFFICES ASSUME OnlyEOFLeft(q) PROVE p[1].end = "done"
        OBVIOUS
    <2>1. Len(q) = 1 /\ q[1].end = "EOF"
        BY DEF OnlyEOFLeft
    <2>2. Len(p) \in Nat /\ Len(q) \in Nat /\ Len(p) = Len(q) + 1
        BY <1>1
    <2>3. Len(p) = 2
        BY <2>1, <2>2
    <2>4. q[1] = p[2]
        BY <1>1, <2>3
    <2> QED
        BY <2>1, <2>3, <2>4 DEF EOFAfterDone
<1>7. p[1].end = "done" => OnlyEOFLeft(q)
    <2> SUFFICES ASSUME p[1].end = "done" PROVE OnlyEOFLeft(q)
        OBVIOUS
    <2>1. Len(p) = 2 /\ p[2].end = "EOF"
        BY <1>1 DEF DoneThenEOF
    <2> QED
        BY <1>1, <1>2, <2>1 DEF OnlyEOFLeft
<1> QED
    BY <1>3, <1>4, <1>5, <1>6, <1>7

\* Execute is refused, or forwarded to the scheduler that the instance name
\* stands for, with that name as the prefix.
LEMMA ExecuteStep ==
    ASSUME FrontendInvariant, NEW c \in Calls, NEW instance \in InstanceNames, Execute(c, instance)
    PROVE  FrontendInvariant'
<1> USE FrontendAssumption DEF FrontendInvariant, FrontendTypes, Execute, Return, Forward, Name
<1>1. CASE Return(c, "InvalidArgument") /\ UNCHANGED <<created, jobs, call>>
    <2> USE <1>1
    <2>1. FrontendTypes'
        BY DEF Statuses
    <2>2. JobsWereCreated' /\ CallsHaveJobs' /\ MessagesNameJobs' /\ NamesLeadBack'
        BY DEF JobsWereCreated, CallsHaveJobs, MessagesNameJobs, NamesLeadBack
    <2>3. StreamsFine'
        BY SameStream, StreamStartsOrFails DEF StreamsFine
    <2> QED
        BY <2>1, <2>2, <2>3
<1>2. ASSUME NEW j \in JobsToExecute(instance[1]), Len(instance) = 1, instance[1] \in Backends,
             Forward(c, instance[1], j, instance),
             created' = [created EXCEPT ![instance[1]] = @ \cup {j}],
             jobs' = [jobs EXCEPT ![instance[1]] = @ \cup {j}]
      PROVE  FrontendInvariant'
    <2> USE <1>2
    <2>1. j \in Jobs
        BY DEF JobsToExecute
    <2>2. instance = <<instance[1]>>
        OBVIOUS
    <2>3. FrontendTypes'
        BY <2>1 DEF Statuses, Forwarding
    <2>4. JobsWereCreated' /\ NamesLeadBack'
        BY DEF JobsWereCreated, NamesLeadBack
    <2>5. MessagesNameJobs'
        BY DEF MessagesNameJobs, StreamsFine, StreamFine
    <2>6. CallsHaveJobs'
        BY <2>1, <2>2 DEF CallsHaveJobs
    <2>7. StreamsFine'
        BY SameStream, StreamStartsOrFails DEF StreamsFine
    <2> QED
        BY <2>3, <2>4, <2>5, <2>6, <2>7
<1> QED
    BY <1>1, <1>2

\* WaitExecution learns nothing by itself.
LEMMA WaitExecutionStep ==
    ASSUME FrontendInvariant, NEW c \in Calls, NEW name \in known \cup {<<>>}, WaitExecution(c, name)
    PROVE  FrontendInvariant'
<1> USE FrontendAssumption DEF FrontendInvariant, FrontendTypes, WaitExecution, Return, Forward, Name
<1>1. name \in Name
    BY EmptySeq
<1>2. CASE status' = [status EXCEPT ![c] = "InvalidArgument"] /\ UNCHANGED call
    <2> USE <1>2
    <2>1. FrontendTypes'
        BY <1>1 DEF Statuses
    <2>2. JobsWereCreated' /\ CallsHaveJobs' /\ MessagesNameJobs' /\ NamesLeadBack'
        BY DEF JobsWereCreated, CallsHaveJobs, MessagesNameJobs, NamesLeadBack
    <2>3. StreamsFine'
        BY SameStream, StreamStartsOrFails DEF StreamsFine
    <2> QED
        BY <2>1, <2>2, <2>3
<1>3. CASE status' = [status EXCEPT ![c] = "NotFound"] /\ UNCHANGED call
    <2> USE <1>3
    <2>1. FrontendTypes'
        BY <1>1 DEF Statuses
    <2>2. JobsWereCreated' /\ CallsHaveJobs' /\ MessagesNameJobs' /\ NamesLeadBack'
        BY DEF JobsWereCreated, CallsHaveJobs, MessagesNameJobs, NamesLeadBack
    <2>3. StreamsFine'
        BY SameStream, StreamStartsOrFails DEF StreamsFine
    <2> QED
        BY <2>1, <2>2, <2>3
<1>4. ASSUME NEW j \in Find(Head(name), ForwardedName(name)), Len(name) >= 2, Head(name) \in Backends,
             Forward(c, Head(name), j, WaitPrefix(name))
      PROVE  FrontendInvariant'
    <2> USE <1>4
    <2>1. name # <<>> /\ WaitPrefix(name) \in Name
        BY <1>1 DEF WaitPrefix
    <2>2. j \in Jobs
        BY DEF Find
    <2>3. FrontendTypes'
        BY <1>1, <2>1, <2>2 DEF Statuses, Forwarding
    <2>4. JobsWereCreated' /\ NamesLeadBack'
        BY DEF JobsWereCreated, NamesLeadBack
    <2>5. MessagesNameJobs'
        BY DEF MessagesNameJobs, StreamsFine, StreamFine
    <2>6. CallsHaveJobs'
        BY <2>1, <2>2 DEF CallsHaveJobs
    <2>7. StreamsFine'
        BY SameStream, StreamStartsOrFails DEF StreamsFine
    <2> QED
        BY <2>3, <2>4, <2>5, <2>6, <2>7
<1> QED
    BY <1>2, <1>3, <1>4

\* A scheduler's stream goes on with the state of the job, or ends with the
\* operation that is done and the end of the stream.
LEMMA SchedulerSendsStep ==
    ASSUME FrontendInvariant, NEW c \in Calls, SchedulerSends(c)
    PROVE  FrontendInvariant'
<1> DEFINE p == pipe[c]
           done == call[c].job \in completed
           op == [name |-> <<call[c].job>>, end |-> IF done THEN "done" ELSE "no"]
<1> USE DEF FrontendInvariant, FrontendTypes
<1>1. /\ p \in Seq(Message) /\ pipe' = [pipe EXCEPT ![c] = p \o IF done THEN <<op, EndOfStream>> ELSE <<op>>]
      /\ UNCHANGED <<created, jobs, completed, call, received, status, asked, known, restarts>>
      /\ status[c] = "running" /\ \A i \in DOMAIN p : p[i].end = "no"
      /\ done \/ (p = <<>> /\ received[c] = <<>>)
    BY DEF SchedulerSends, Streaming
<1>2. op \in Message /\ EndOfStream \in Message
    <2>1. call[c].job \in STRING
        BY <1>1, FrontendAssumption DEF CallsHaveJobs
    <2>2. <<call[c].job>> \in Name /\ <<>> \in Name
        BY <2>1 DEF Name
    <2> QED
        BY <2>2 DEF Message, EndOfStream
<1>3. JobsWereCreated' /\ CallsHaveJobs' /\ NamesLeadBack'
    BY <1>1 DEF JobsWereCreated, CallsHaveJobs, NamesLeadBack
<1>4. \A x \in Calls \ {c} : StreamFine(x)'
    BY <1>1, SameStream DEF StreamsFine
<1>5. CASE done
    <2>1. /\ pipe'[c] \in Seq(Message) /\ Len(pipe'[c]) = Len(p) + 2 /\ DOMAIN pipe'[c] = 1 .. Len(p) + 2
          /\ \A i \in 1 .. Len(p) : pipe'[c][i] = p[i]
          /\ pipe'[c][Len(p) + 1] = op /\ pipe'[c][Len(p) + 2] = EndOfStream
          /\ Len(p) \in Nat /\ DOMAIN p = 1 .. Len(p)
        <3>1. <<op, EndOfStream>> \in Seq(Message) /\ Len(<<op, EndOfStream>>) = 2
            BY <1>2
        <3>2. pipe'[c] = p \o <<op, EndOfStream>>
            BY <1>1, <1>5
        <3> HIDE DEF op, done, p
        <3> QED
            BY <1>1, <3>1, <3>2, ConcatProperties, LenProperties
    <2>2. FrontendTypes'
        BY <1>1, <2>1
    <2>3. MessagesNameJobs'
        BY <1>1, <2>1 DEF MessagesNameJobs, EndOfStream
    <2>4. StreamFine(c)'
        <3>1. op.end = "done" /\ EndOfStream.end = "EOF"
            BY <1>5 DEF EndOfStream
        <3> HIDE DEF op, done
        <3>2. /\ EndsLast(pipe'[c]) /\ DoneThenEOF(pipe'[c]) /\ EOFAfterDone(pipe'[c])
              /\ ~OnlyEOFLeft(pipe'[c]) /\ ~OnlyEOFLeft(p)
            BY <1>1, <2>1, <3>1, EndKeepsOrder
        <3> QED
            BY <1>1, <3>2 DEF StreamsFine, StreamFine, InOrder, DoneAt
    <2> QED
        BY <1>3, <1>4, <2>2, <2>3, <2>4 DEF StreamsFine
<1>6. CASE ~done
    <2>1. pipe'[c] = <<op>>
        <3>1. <<op>> \in Seq(Message)
            BY <1>2
        <3>2. pipe'[c] = <<>> \o <<op>>
            BY <1>1, <1>6
        <3> HIDE DEF op
        <3> QED
            BY <3>1, <3>2, ConcatEmptySeq
    <2>2. FrontendTypes'
        <3>1. <<op>> \in Seq(Message)
            BY <1>2
        <3> HIDE DEF op
        <3> QED
            BY <1>1, <2>1, <3>1
    <2>3. MessagesNameJobs'
        BY <1>1, <2>1 DEF MessagesNameJobs
    <2>4. StreamFine(c)'
        <3>1. /\ <<op>> \in Seq(Message) /\ Len(<<op>>) = 1 /\ <<op>>[1].end = "no"
              /\ <<>> \in Seq(Message) /\ Len(<<>>) = 0 /\ DOMAIN <<>> = {}
            BY <1>2, <1>6
        <3> HIDE DEF op, done
        <3>2. p = <<>>
            BY <1>1, <1>6
        <3>3. EndsLast(<<op>>) /\ DoneThenEOF(<<op>>) /\ EOFAfterDone(<<op>>) /\ ~OnlyEOFLeft(<<op>>) /\ ~OnlyEOFLeft(<<>>)
            BY <3>1 DEF EndsLast, DoneThenEOF, EOFAfterDone, OnlyEOFLeft
        <3> QED
            BY <1>1, <2>1, <3>2, <3>3 DEF StreamsFine, StreamFine, InOrder, DoneAt
    <2> QED
        BY <1>3, <1>4, <2>2, <2>3, <2>4 DEF StreamsFine
<1> QED
    BY <1>5, <1>6

\* Completion of a job changes nothing that was sent.
LEMMA SchedulerCompletesStep ==
    ASSUME FrontendInvariant, NEW j \in Jobs, SchedulerCompletes(j)
    PROVE  FrontendInvariant'
BY DEF FrontendInvariant, FrontendTypes, SchedulerCompletes, JobsWereCreated, CallsHaveJobs, MessagesNameJobs,
    NamesLeadBack, StreamsFine, StreamFine, InOrder, DoneAt

\* A scheduler that restarts breaks its streams that had not ended.
LEMMA SchedulerRestartsStep ==
    ASSUME FrontendInvariant, NEW b \in Backends, SchedulerRestarts(b)
    PROVE  FrontendInvariant'
<1> USE DEF FrontendInvariant, FrontendTypes, SchedulerRestarts
<1>1. BrokenStream \in Message /\ BrokenStream.end = "error"
    BY EmptySeq DEF BrokenStream, Message, Name
<1>2. ASSUME NEW c \in Calls, Streaming(c)
      PROVE  LET p == pipe[c] q == Append(p, BrokenStream)
             IN  /\ q \in Seq(Message) /\ Len(q) = Len(p) + 1 /\ DOMAIN q = 1 .. Len(p) + 1
                 /\ \A i \in 1 .. Len(p) : q[i] = p[i]
                 /\ q[Len(p) + 1] = BrokenStream
                 /\ Len(p) \in Nat /\ DOMAIN p = 1 .. Len(p)
    BY <1>1, AppendProperties, LenProperties
<1>3. FrontendTypes'
    BY <1>2
<1>4. JobsWereCreated' /\ CallsHaveJobs' /\ NamesLeadBack'
    BY DEF JobsWereCreated, CallsHaveJobs, NamesLeadBack
<1>5. MessagesNameJobs'
    BY <1>1, <1>2 DEF MessagesNameJobs
<1>6. ASSUME NEW c \in Calls
      PROVE  StreamFine(c)'
    <2>1. CASE UNCHANGED pipe[c]
        BY <2>1, SameStream DEF StreamsFine
    <2>2. CASE Streaming(c) /\ pipe'[c] = Append(pipe[c], BrokenStream)
        <3>1. /\ EndsLast(pipe'[c]) /\ DoneThenEOF(pipe'[c]) /\ EOFAfterDone(pipe'[c])
              /\ ~OnlyEOFLeft(pipe'[c]) /\ ~OnlyEOFLeft(pipe[c])
            <4>1. /\ pipe[c] \in Seq(Message) /\ pipe'[c] \in Seq(Message) /\ Len(pipe'[c]) = Len(pipe[c]) + 1
                  /\ \A i \in DOMAIN pipe[c] : pipe'[c][i] = pipe[c][i]
                  /\ pipe'[c][Len(pipe[c]) + 1].end = "error"
                  /\ \A i \in DOMAIN pipe[c] : pipe[c][i].end = "no"
                BY <1>1, <1>2, <2>2 DEF Streaming
            <4> QED
                BY <4>1, EndKeepsOrder
        <3> QED
            BY <2>2, <3>1 DEF Streaming, StreamsFine, StreamFine, InOrder, DoneAt
    <2> QED
        BY <2>1, <2>2
<1> QED
    BY <1>3, <1>4, <1>5, <1>6 DEF StreamsFine

\* A client that leaves is told nothing more.
LEMMA ClientLeavesStep ==
    ASSUME FrontendInvariant, NEW c \in Calls, ClientLeaves(c)
    PROVE  FrontendInvariant'
<1> USE DEF FrontendInvariant, FrontendTypes, ClientLeaves, Return
<1>1. FrontendTypes'
    BY DEF Statuses
<1>2. JobsWereCreated' /\ CallsHaveJobs' /\ MessagesNameJobs' /\ NamesLeadBack'
    BY DEF JobsWereCreated, CallsHaveJobs, MessagesNameJobs, NamesLeadBack
<1>3. StreamsFine'
    BY SameStream, StreamStartsOrFails DEF StreamsFine
<1> QED
    BY <1>1, <1>2, <1>3

\* forwardOperations relays the operation at the head of the stream, with the
\* prefix added to its name, or returns because the stream has ended.
LEMMA ForwardOperationStep ==
    ASSUME FrontendInvariant, NEW c \in Calls, ForwardOperation(c)
    PROVE  FrontendInvariant'
<1> DEFINE p == pipe[c]
           op == Head(p)
           name == Prepend(call[c].prefix, op.name)
           item == [name |-> name, done |-> op.end = "done"]
<1> USE DEF FrontendInvariant, FrontendTypes
<1>1. /\ status[c] = "running" /\ p \in Seq(Message) /\ p # <<>>
      /\ pipe' = [pipe EXCEPT ![c] = Tail(p)]
      /\ UNCHANGED <<created, jobs, completed, call, asked, restarts>>
    BY DEF ForwardOperation
<1>2. /\ op = p[1] /\ op \in Message /\ Len(p) \in Nat \ {0} /\ DOMAIN p = 1 .. Len(p)
      /\ Tail(p) \in Seq(Message) /\ Len(Tail(p)) = Len(p) - 1 /\ DOMAIN Tail(p) = 1 .. Len(p) - 1
      /\ \A i \in 1 .. Len(p) - 1 : Tail(p)[i] = p[i + 1]
    BY <1>1, HeadTailProperties, LenProperties, EmptySeq
<1>3. StreamFine(c) /\ InOrder(c) /\ received[c] \in Seq(Relayed)
    BY <1>1 DEF StreamsFine, StreamFine
<1>4. MessagesNameJobs'
    BY <1>1, <1>2 DEF MessagesNameJobs
<1>5. JobsWereCreated'
    BY <1>1 DEF JobsWereCreated
<1>6. CASE op.end \in {"EOF", "error"}
    <2>1. status' = [status EXCEPT ![c] = RecvError(op.end)] /\ UNCHANGED <<received, known>>
        BY <1>6 DEF ForwardOperation, Return
    <2> HIDE DEF op, p
    <2>2. FrontendTypes'
        BY <1>1, <1>2, <2>1 DEF Statuses, RecvError, p
    <2>3. CallsHaveJobs' /\ NamesLeadBack'
        BY <1>1, <2>1 DEF CallsHaveJobs, NamesLeadBack, RecvError
    <2>4. StreamFine(c)'
        <3>1. op.end = "EOF" => OnlyEOFLeft(p)
            BY <1>2, <1>3 DEF InOrder, EndsLast, OnlyEOFLeft, p
        <3>2. status'[c] = IF op.end = "EOF" THEN "OK" ELSE "Unavailable"
            BY <2>1 DEF RecvError
        <3> QED
            BY <1>3, <2>1, <3>1, <3>2 DEF StreamFine, InOrder, DoneAt, p
    <2>5. \A x \in Calls \ {c} : StreamFine(x)'
        BY <1>1, <2>1, SameStream DEF StreamsFine
    <2> QED
        BY <1>4, <1>5, <2>2, <2>3, <2>4, <2>5 DEF StreamsFine
<1>7. CASE op.end \in {"no", "done"}
    <2>1. /\ received' = [received EXCEPT ![c] = Append(received[c], item)]
          /\ known' = IF asked[c] = <<>> THEN known \cup {name} ELSE known
          /\ UNCHANGED status
        BY <1>7 DEF ForwardOperation
    <2>2. call[c].prefix \in Name /\ op.name \in Name /\ name \in Name
        BY <1>2 DEF Forwarding, Message, Prepend, Name
    <2>3. item \in Relayed
        BY <2>2 DEF Relayed
    <2>4. /\ received'[c] \in Seq(Relayed) /\ Len(received'[c]) = Len(received[c]) + 1
          /\ DOMAIN received'[c] = 1 .. Len(received[c]) + 1
          /\ \A i \in 1 .. Len(received[c]) : received'[c][i] = received[c][i]
          /\ received'[c][Len(received[c]) + 1] = item
          /\ Len(received[c]) \in Nat /\ DOMAIN received[c] = 1 .. Len(received[c])
        <3>1. received'[c] = Append(received[c], item)
            BY <2>1
        <3> HIDE DEF item
        <3> QED
            BY <1>3, <2>3, <3>1, AppendProperties, LenProperties
    <2>5. FrontendTypes'
        BY <1>1, <1>2, <2>1, <2>2, <2>4
    <2>6. CallsHaveJobs'
        BY <1>1, <2>1 DEF CallsHaveJobs
    <2>7. NamesLeadBack'
        <3>1. CASE asked[c] = <<>>
            <4>1. /\ call[c].backend \in Backends /\ call[c].job \in created[call[c].backend]
                  /\ call[c].prefix = <<call[c].backend>>
                BY <1>1, <3>1 DEF CallsHaveJobs
            <4>2. op.name = <<call[c].job>>
                BY <1>2, <1>7 DEF MessagesNameJobs
            <4>3. name = <<call[c].backend>> \o <<call[c].job>>
                BY <4>1, <4>2 DEF Prepend
            <4>4. Len(name) = 2 /\ Head(name) = call[c].backend /\ name[2] = call[c].job
                BY <4>3
            <4> HIDE DEF name
            <4> QED
                BY <1>1, <2>1, <4>1, <4>4 DEF NamesLeadBack
        <3>2. CASE asked[c] # <<>>
            BY <1>1, <2>1, <3>2 DEF NamesLeadBack
        <3> QED
            BY <3>1, <3>2
    <2>8. StreamFine(c)'
        <3>1. ~OnlyEOFLeft(p)
            BY <1>2, <1>7 DEF OnlyEOFLeft
        <3>2. DoneAt(c) = {}
            BY <1>3, <3>1 DEF StreamFine, InOrder
        <3>3. DoneAt(c)' = IF op.end = "done" THEN {Len(received[c]) + 1} ELSE {}
            <4>1. item.done <=> op.end = "done"
                OBVIOUS
            <4> HIDE DEF item, op, p
            <4> QED
                BY <2>4, <3>2, <4>1 DEF DoneAt
        <3>4. InOrder(c)'
            BY <1>1, <1>2, <1>3, <1>7, <2>4, <3>3, TailKeepsOrder DEF InOrder
        <3> QED
            BY <1>1, <2>1, <2>4, <3>3, <3>4 DEF StreamFine
    <2>9. \A x \in Calls \ {c} : StreamFine(x)'
        BY <1>1, <2>1, SameStream DEF StreamsFine
    <2> QED
        BY <1>4, <1>5, <2>5, <2>6, <2>7, <2>8, <2>9 DEF StreamsFine
<1> QED
    BY <1>2, <1>6, <1>7 DEF Message

---------------------------------------------------------------------------
\* The inductive invariant of the frontend's build queue.
THEOREM FrontendInvariantHolds ==
    Spec => []FrontendInvariant
<1>1. ASSUME FrontendInvariant, [Next]_vars
      PROVE  FrontendInvariant'
    <2>1. CASE UNCHANGED vars
        BY <1>1, <2>1 DEF vars, FrontendInvariant, FrontendTypes, JobsWereCreated, CallsHaveJobs, MessagesNameJobs,
            NamesLeadBack, StreamsFine, StreamFine, InOrder, DoneAt
    <2> QED
        BY <1>1, <2>1, ExecuteStep, WaitExecutionStep, SchedulerSendsStep, ForwardOperationStep, ClientLeavesStep,
            SchedulerCompletesStep, SchedulerRestartsStep DEF Next
<1> QED
    BY <1>1, FrontendInit, PTL DEF Spec

\* operationNamePrepender and the demultiplexing by prefix agree: a name that
\* a client learns from Execute names a scheduler and a job which that one created.
THEOREM NamesAlwaysLeadBack ==
    Spec => []NamesLeadBack
<1>1. FrontendInvariant => NamesLeadBack
    BY DEF FrontendInvariant
<1> QED
    BY <1>1, FrontendInvariantHolds, PTL

\* forwardOperations returns OK only after it has relayed the operation that is
\* done, and relays nothing after it, however schedulers restart.
THEOREM OKAlwaysMeansDone ==
    Spec => []OKMeansDone
<1>1. FrontendInvariant => OKMeansDone
    <2> SUFFICES ASSUME FrontendInvariant, NEW c \in Calls
                 PROVE  /\ status[c] = "OK" => received[c] # <<>> /\ received[c][Len(received[c])].done
                        /\ \A i \in DOMAIN received[c] : received[c][i].done => i = Len(received[c])
        BY DEF OKMeansDone
    <2>1. StreamFine(c)
        BY DEF FrontendInvariant, StreamsFine
    <2>2. DOMAIN <<>> = {}
        OBVIOUS
    <2> QED
        BY <2>1, <2>2, Zenon DEF StreamFine, DoneAt
<1> QED
    BY <1>1, FrontendInvariantHolds, PTL
===========================================================================
