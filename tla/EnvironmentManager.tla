------------------------ MODULE EnvironmentManager ------------------------
(***************************************************************************)
(* The environments in which bbb_worker and bbb_runner execute actions     *)
(* (pkg/environment).  The threads of a worker share one build directory   *)
(* through                                                                 *)
(*    actionDigestSubdirectory(concurrent(cleanBuildDirectory(singleton))) *)
(* and the Run calls they make share the runner's temporary directory      *)
(* through                                                                 *)
(*    runnerServer(concurrent(tempDirectoryCleaning(singleton))).          *)
(* The two concurrentManagers and singletonManagers are indexed by the     *)
(* process they are in.  A directory's contents are the executions that    *)
(* have put files there; every directory operation may fail.               *)
(***************************************************************************)
EXTENDS Integers, FiniteSets

CONSTANTS
    Threads,       \* -concurrency
    Digests,       \* action digests, without instance name
    NoThread,      \* holder of an unlocked mutex
    MaxRuns,       \* bound: executions started
    MaxFailures    \* bound: directory operations and commands that fail

ASSUME EnvironmentAssumption ==
    NoThread \notin Threads /\ MaxRuns \in Nat /\ MaxFailures \in Nat

VARIABLES
    lock,          \* concurrentManager.lock: thread that holds it
    refcount,      \* concurrentManager.refcount
    environment,   \* singletonManager.environment: number of elements in the channel
    pc,            \* thread -> what it is doing
    run,           \* thread -> number of the execution
    digest,        \* thread -> action digest, the subdirectoryName
    subdirectories,\* those in the build directory
    files,         \* digest -> executions that have files in that subdirectory
    tempDirectory, \* executions that have files in the temporary directory
    runs, failures

managerVars == <<lock, refcount, environment>>
threadVars == <<run, digest>>
diskVars == <<subdirectories, files, tempDirectory>>
vars == <<managerVars, pc, threadVars, diskVars, runs, failures>>

Managers == {"worker", "runner"}

Init ==
    /\ lock = [m \in Managers |-> NoThread]
    /\ refcount = [m \in Managers |-> 0]
    /\ environment = [m \in Managers |-> 1]
    /\ pc = [t \in Threads |-> "idle"]
    /\ run = [t \in Threads |-> 0]
    /\ digest \in [Threads -> Digests]
    /\ subdirectories \in SUBSET Digests
    /\ files = [d \in Digests |-> IF d \in subdirectories THEN {0} ELSE {}]
    /\ tempDirectory \in SUBSET {0}
    /\ runs = 0 /\ failures = 0

From(t, label, next) == pc[t] = label /\ pc' = [pc EXCEPT ![t] = next]

Fails == failures < MaxFailures /\ failures' = failures + 1

---------------------------------------------------------------------------
\* localBuildExecutor is about to call Acquire.
Start(t, d) ==
    /\ From(t, "idle", "acquire")
    /\ runs < MaxRuns
    /\ runs' = runs + 1
    /\ run' = [run EXCEPT ![t] = runs + 1]
    /\ digest' = [digest EXCEPT ![t] = d]
    /\ UNCHANGED <<managerVars, diskVars, failures>>

\* concurrentManager.Acquire has an environment to share.
Shares(m) == refcount[m] > 0

\* Acquire of an environment that is in use.
AcquireShared(t, m, label, next) ==
    /\ From(t, label, next)
    /\ lock[m] = NoThread
    /\ Shares(m)
    /\ refcount' = [refcount EXCEPT ![m] = @ + 1]
    /\ UNCHANGED <<lock, environment, threadVars, diskVars, runs, failures>>

\* Acquire of one that is not: call into the base manager, holding the lock.
AcquireFirst(t, m, label, next) ==
    /\ From(t, label, next)
    /\ lock[m] = NoThread
    /\ ~Shares(m)
    /\ lock' = [lock EXCEPT ![m] = t]
    /\ UNCHANGED <<refcount, environment, threadVars, diskVars, runs, failures>>

\* The base manager has returned an environment: count it and unlock.
FirstAcquired(m) ==
    /\ refcount' = [refcount EXCEPT ![m] = @ + 1]
    /\ lock' = [lock EXCEPT ![m] = NoThread]

\* Mutations of Release: the base environment is given back by the first thread
\* that releases it; it is never given back.
ReleaseAtOnce(t, m, label, next) ==
    /\ From(t, label, next)
    /\ lock[m] = NoThread
    /\ refcount' = [refcount EXCEPT ![m] = 0]
    /\ environment' = [environment EXCEPT ![m] = 1]
    /\ UNCHANGED <<lock, threadVars, diskVars, runs, failures>>
ReleaseKeeps(t, m, label, next) ==
    /\ From(t, label, next)
    /\ lock[m] = NoThread
    /\ refcount' = [refcount EXCEPT ![m] = @ - 1]
    /\ UNCHANGED <<lock, environment, threadVars, diskVars, runs, failures>>

\* concurrentEnvironment.Release; the last one calls singletonEnvironment.Release.
Release(t, m, label, next) ==
    /\ From(t, label, next)
    /\ lock[m] = NoThread
    /\ refcount' = [refcount EXCEPT ![m] = @ - 1]
    /\ environment' = [environment EXCEPT ![m] = IF refcount[m] = 1 THEN @ + 1 ELSE @]
    /\ UNCHANGED <<lock, threadVars, diskVars, runs, failures>>

---------------------------------------------------------------------------
\* cleanBuildDirectoryManager.Acquire: receive from the channel...
TakeEnvironment(t) ==
    /\ From(t, "take", "clean")
    /\ environment["worker"] > 0
    /\ environment' = [environment EXCEPT !["worker"] = @ - 1]
    /\ UNCHANGED <<lock, refcount, threadVars, diskVars, runs, failures>>

\* ... and RemoveAllChildren of the build directory.
CleanBuildDirectory(t) ==
    /\ From(t, "clean", "mkdir")
    /\ subdirectories' = {}
    /\ files' = [d \in Digests |-> {}]
    /\ FirstAcquired("worker")
    /\ UNCHANGED <<environment, threadVars, tempDirectory, runs, failures>>

\* RemoveAllChildren fails half-way; the environment is released and Acquire
\* returns the error.
CleanBuildDirectoryFails(t) ==
    /\ From(t, "clean", "idle")
    /\ Fails
    /\ \E left \in SUBSET subdirectories :
          /\ subdirectories' = left
          /\ files' = [d \in Digests |-> IF d \in left THEN files[d] ELSE {}]
    /\ environment' = [environment EXCEPT !["worker"] = @ + 1]
    /\ lock' = [lock EXCEPT !["worker"] = NoThread]
    /\ UNCHANGED <<refcount, threadVars, tempDirectory, runs>>

\* Mutation of Mkdir: a directory that exists already is used as it is.
MkdirAll(t) ==
    /\ From(t, "mkdir", "enter")
    /\ subdirectories' = subdirectories \cup {digest[t]}
    /\ UNCHANGED <<managerVars, threadVars, files, tempDirectory, runs, failures>>

\* actionDigestSubdirectoryManager.Acquire: Mkdir...
Mkdir(t) ==
    /\ From(t, "mkdir", "enter")
    /\ digest[t] \notin subdirectories
    /\ subdirectories' = subdirectories \cup {digest[t]}
    /\ UNCHANGED <<managerVars, threadVars, files, tempDirectory, runs, failures>>

\* ... which fails if the subdirectory exists: the same action is running under
\* another instance name, or its removal has failed...
MkdirExists(t) ==
    /\ From(t, "mkdir", "release")
    /\ digest[t] \in subdirectories
    /\ UNCHANGED <<managerVars, threadVars, diskVars, runs, failures>>

MkdirFails(t) ==
    /\ From(t, "mkdir", "release")
    /\ Fails
    /\ UNCHANGED <<managerVars, threadVars, diskVars, runs>>

\* ... and Enter.
Enter(t) ==
    /\ From(t, "enter", "input")
    /\ UNCHANGED <<managerVars, threadVars, diskVars, runs, failures>>

\* Enter fails: Remove the subdirectory again, which may fail as well.
EnterFails(t) ==
    /\ From(t, "enter", "release")
    /\ Fails
    /\ subdirectories' \in {subdirectories, subdirectories \ {digest[t]}}
    /\ UNCHANGED <<managerVars, threadVars, files, tempDirectory, runs>>

\* localBuildExecutor puts the input root there, and calls the runner.
CreateInput(t) ==
    /\ From(t, "input", "run")
    /\ files' = [files EXCEPT ![digest[t]] = @ \cup {run[t]}]
    /\ UNCHANGED <<managerVars, threadVars, subdirectories, tempDirectory, runs, failures>>

CreateInputFails(t) ==
    /\ From(t, "input", "remove")
    /\ Fails
    /\ files' = [files EXCEPT ![digest[t]] = @ \cup {run[t]}]
    /\ UNCHANGED <<managerVars, threadVars, subdirectories, tempDirectory, runs>>

\* Mutation of RemoveSubdirectory: the whole build directory is emptied.
RemoveEverything(t) ==
    /\ From(t, "remove", "release")
    /\ subdirectories' = {}
    /\ files' = [d \in Digests |-> {}]
    /\ UNCHANGED <<managerVars, threadVars, tempDirectory, runs, failures>>

\* actionDigestSubdirectoryEnvironment.Release: RemoveAll of the subdirectory...
RemoveSubdirectory(t) ==
    /\ From(t, "remove", "release")
    /\ subdirectories' = subdirectories \ {digest[t]}
    /\ files' = [files EXCEPT ![digest[t]] = {}]
    /\ UNCHANGED <<managerVars, threadVars, tempDirectory, runs, failures>>

\* ... whose failure is only logged.
RemoveSubdirectoryFails(t) ==
    /\ From(t, "remove", "release")
    /\ Fails
    /\ files' \in {files, [files EXCEPT ![digest[t]] = {}]}
    /\ UNCHANGED <<managerVars, threadVars, subdirectories, tempDirectory, runs>>

---------------------------------------------------------------------------
\* tempDirectoryCleaningManager.Acquire: RemoveAllChildren of the temporary
\* directory, then the base manager's Acquire.
CleanTempDirectory(t) ==
    /\ From(t, "temp", "takeRunner")
    /\ tempDirectory' = {}
    /\ UNCHANGED <<managerVars, threadVars, subdirectories, files, runs, failures>>

TakeRunner(t) ==
    /\ From(t, "takeRunner", "command")
    /\ environment["runner"] > 0
    /\ environment' = [environment EXCEPT !["runner"] = @ - 1]
    /\ FirstAcquired("runner")
    /\ UNCHANGED <<threadVars, diskVars, runs, failures>>

\* Nothing has been acquired; the call of the runner returns the error.
CleanTempDirectoryFails(t) ==
    /\ From(t, "temp", "remove")
    /\ Fails
    /\ tempDirectory' \in SUBSET tempDirectory
    /\ lock' = [lock EXCEPT !["runner"] = NoThread]
    /\ UNCHANGED <<refcount, environment, threadVars, subdirectories, files, runs>>

\* localExecutionEnvironment.Run: the command writes files and temporary files.
Command(t) ==
    /\ From(t, "command", "running")
    /\ files' = [files EXCEPT ![digest[t]] = @ \cup {run[t]}]
    /\ tempDirectory' = tempDirectory \cup {run[t]}
    /\ UNCHANGED <<managerVars, threadVars, subdirectories, runs, failures>>

\* The logs cannot be opened or the process cannot be started.
CommandFails(t) ==
    /\ From(t, "command", "releaseRunner")
    /\ Fails
    /\ UNCHANGED <<managerVars, threadVars, diskVars, runs>>

\* The process is over, whatever its exit code.
CommandEnds(t) ==
    /\ From(t, "running", "releaseRunner")
    /\ UNCHANGED <<managerVars, threadVars, diskVars, runs, failures>>

---------------------------------------------------------------------------
\* A thread's way through localBuildExecutor.Execute; after the call of the
\* runner it uploads outputs, which leaves all this alone.
ThreadNext(t) ==
    \/ AcquireShared(t, "worker", "acquire", "mkdir")
    \/ AcquireFirst(t, "worker", "acquire", "take")
    \/ TakeEnvironment(t)
    \/ CleanBuildDirectory(t)
    \/ CleanBuildDirectoryFails(t)
    \/ Mkdir(t)
    \/ MkdirExists(t)
    \/ MkdirFails(t)
    \/ Enter(t)
    \/ EnterFails(t)
    \/ CreateInput(t)
    \/ CreateInputFails(t)
    \/ AcquireShared(t, "runner", "run", "command")
    \/ AcquireFirst(t, "runner", "run", "temp")
    \/ CleanTempDirectory(t)
    \/ CleanTempDirectoryFails(t)
    \/ TakeRunner(t)
    \/ Command(t)
    \/ CommandFails(t)
    \/ CommandEnds(t)
    \/ Release(t, "runner", "releaseRunner", "remove")
    \/ RemoveSubdirectory(t)
    \/ RemoveSubdirectoryFails(t)
    \/ Release(t, "worker", "release", "idle")

Next == \E t \in Threads : ThreadNext(t) \/ \E d \in Digests : Start(t, d)

Spec == Init /\ [][Next]_vars

\* Threads keep running, directory operations return and commands end; a thread
\* that waits for a mutex gets it although others keep taking it.
FairSpec == Spec /\ \A t \in Threads : SF_vars(ThreadNext(t))

---------------------------------------------------------------------------
\* Threads that have acquired, and not released, the environment of a process.
Holders(m) ==
    {t \in Threads :
        pc[t] \in IF m = "runner" THEN {"command", "running", "releaseRunner"}
                  ELSE {"mkdir", "enter", "input", "run", "temp", "takeRunner", "command",
                        "running", "releaseRunner", "remove", "release"}}

\* Reference counting is exact: refcount is the number of threads that have the
\* environment, so that log.Fatal in Release is never reached, and the one
\* underlying environment is in its channel exactly when nobody has it or is
\* getting it, whatever fails on the way.
RefcountExact ==
    \A m \in Managers :
        /\ refcount[m] = Cardinality(Holders(m))
        /\ lock[m] = NoThread => environment[m] = IF refcount[m] = 0 THEN 1 ELSE 0
        /\ environment[m] \in 0 .. 1

\* From the moment a thread has entered its subdirectory until it removes it,
\* the subdirectory exists, holds nothing of any other execution, and is
\* entered by no other thread, even if the same action runs twice: neither the
\* clean-up of others, nor a clean-up that failed, gets in its way.
OwnSubdirectory ==
    \A t \in Threads :
        pc[t] \in {"input", "run", "temp", "takeRunner", "command", "running", "releaseRunner", "remove"} =>
            /\ digest[t] \in subdirectories
            /\ files[digest[t]] \subseteq {run[t]}
            /\ pc[t] \notin {"input", "remove"} => run[t] \in files[digest[t]]

\* The temporary directory is never emptied under a running command.
TempFilesStay == \A t \in Threads : pc[t] = "running" => run[t] \in tempDirectory

\* Every execution gets through: nobody waits for ever for an environment.
ExecutionsEnd == \A t \in Threads : pc[t] # "idle" ~> pc[t] = "idle"
===========================================================================
