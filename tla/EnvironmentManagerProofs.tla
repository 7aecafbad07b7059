---------------------- MODULE EnvironmentManagerProofs ----------------------
(***************************************************************************)
(* Proofs about the environments of a worker and its runner, for any       *)
(* threads, digests, and numbers of executions and failures.               *)
(***************************************************************************)
EXTENDS EnvironmentManager, TLAPS, FiniteSetTheorems

\* What a thread does while it has the environment of the runner, ...
RunnerLabels == {"command", "running", "releaseRunner"}
\* ... a subdirectory of its own, ...
OwnerLabels == {"enter", "input", "run", "temp", "takeRunner", "remove"} \cup RunnerLabels
\* ... the environment of the worker, ...
WorkerLabels == {"mkdir", "release"} \cup OwnerLabels
\* ... or anything.
Labels == {"idle", "acquire", "take", "clean"} \cup WorkerLabels

LabelsOf(m) == IF m = "runner" THEN RunnerLabels ELSE WorkerLabels

\* Where a thread is while it holds a concurrentManager's lock between steps.
LockLabels(m) == IF m = "runner" THEN {"temp", "takeRunner"} ELSE {"take", "clean"}

EnvironmentTypes ==
    /\ lock \in [Managers -> Threads \cup {NoThread}]
    /\ refcount \in [Managers -> Nat]
    /\ environment \in [Managers -> Int]
    /\ pc \in [Threads -> Labels]
    /\ run \in [Threads -> Nat]
    /\ digest \in [Threads -> Digests]
    /\ subdirectories \in SUBSET Digests
    /\ files \in [Digests -> SUBSET Nat]
    /\ tempDirectory \in SUBSET Nat
    /\ runs \in Nat /\ failures \in Nat

\* The lock is held by the thread that calls into the base manager.
LocksHeld ==
    \A m \in Managers, t \in Threads : lock[m] = t <=> pc[t] \in LockLabels(m)

\* refcount counts the holders, of which there are none while somebody calls
\* into the base manager.
HoldersCounted ==
    \A m \in Managers :
        /\ IsFiniteSet(Holders(m)) /\ refcount[m] = Cardinality(Holders(m))
        /\ lock[m] # NoThread => refcount[m] = 0

\* The element of the channel is with the holders, or with a thread that cleans
\* the build directory.
ElementKept ==
    /\ environment["runner"] = IF refcount["runner"] = 0 THEN 1 ELSE 0
    /\ environment["worker"] = IF refcount["worker"] = 0 /\ \A t \in Threads : pc[t] # "clean" THEN 1 ELSE 0

ManagerInvariant == EnvironmentTypes /\ LocksHeld /\ HoldersCounted /\ ElementKept

---------------------------------------------------------------------------
\* Types.

\* A thread that has an environment is counted.
LEMMA HolderCounts ==
    ASSUME EnvironmentTypes, HoldersCounted, NEW m \in Managers, NEW t \in Threads, pc[t] \in LabelsOf(m)
    PROVE  refcount[m] # 0 /\ lock[m] = NoThread
<1>1. t \in Holders(m)
    BY DEF Holders, LabelsOf, WorkerLabels, OwnerLabels, RunnerLabels, Managers
<1> QED
    BY <1>1, FS_EmptySet DEF HoldersCounted

\* Every step keeps the types.
LEMMA TypesStep ==
    ASSUME ManagerInvariant, [Next]_vars
    PROVE  EnvironmentTypes'
<1> USE EnvironmentAssumption DEF EnvironmentTypes, ManagerInvariant, Managers, Labels, WorkerLabels, OwnerLabels, RunnerLabels
<1>1. ASSUME NEW t \in Threads, NEW d \in Digests, Start(t, d)
      PROVE  EnvironmentTypes'
    BY <1>1 DEF Start, From, managerVars, diskVars
<1>2. ASSUME NEW t \in Threads, NEW m \in Managers, NEW l \in Labels, NEW n \in Labels, AcquireShared(t, m, l, n)
      PROVE  EnvironmentTypes'
    BY <1>2 DEF AcquireShared, From, threadVars, diskVars
<1>3. ASSUME NEW t \in Threads, NEW m \in Managers, NEW l \in Labels, NEW n \in Labels, AcquireFirst(t, m, l, n)
      PROVE  EnvironmentTypes'
    BY <1>3 DEF AcquireFirst, From, threadVars, diskVars
<1>4. ASSUME NEW t \in Threads, NEW m \in Managers, NEW l \in LabelsOf(m), NEW n \in Labels,
             Release(t, m, l, n)
      PROVE  EnvironmentTypes'
    <2>1. refcount[m] # 0
        BY <1>4, HolderCounts DEF Release, From
    <2> QED
        BY <1>4, <2>1 DEF Release, From, threadVars, diskVars
<1>5. ASSUME NEW t \in Threads, TakeEnvironment(t)
      PROVE  EnvironmentTypes'
    BY <1>5 DEF TakeEnvironment, From, managerVars, threadVars, diskVars
<1>6. ASSUME NEW t \in Threads, CleanBuildDirectory(t)
      PROVE  EnvironmentTypes'
    BY <1>6 DEF CleanBuildDirectory, From, FirstAcquired, managerVars, threadVars, diskVars
<1>7. ASSUME NEW t \in Threads, CleanBuildDirectoryFails(t)
      PROVE  EnvironmentTypes'
    BY <1>7 DEF CleanBuildDirectoryFails, From, Fails, managerVars, threadVars, diskVars
<1>8. ASSUME NEW t \in Threads, Mkdir(t)
      PROVE  EnvironmentTypes'
    BY <1>8 DEF Mkdir, From, managerVars, threadVars, diskVars
<1>9. ASSUME NEW t \in Threads, MkdirExists(t)
      PROVE  EnvironmentTypes'
    BY <1>9 DEF MkdirExists, From, managerVars, threadVars, diskVars
<1>10. ASSUME NEW t \in Threads, MkdirFails(t)
      PROVE  EnvironmentTypes'
    BY <1>10 DEF MkdirFails, From, Fails, managerVars, threadVars, diskVars
<1>11. ASSUME NEW t \in Threads, Enter(t)
      PROVE  EnvironmentTypes'
    BY <1>11 DEF Enter, From, managerVars, threadVars, diskVars
<1>12. ASSUME NEW t \in Threads, EnterFails(t)
      PROVE  EnvironmentTypes'
    BY <1>12 DEF EnterFails, From, Fails, managerVars, threadVars, diskVars
<1>13. ASSUME NEW t \in Threads, CreateInput(t)
      PROVE  EnvironmentTypes'
    BY <1>13 DEF CreateInput, From, managerVars, threadVars, diskVars
<1>14. ASSUME NEW t \in Threads, CreateInputFails(t)
      PROVE  EnvironmentTypes'
    BY <1>14 DEF CreateInputFails, From, Fails, managerVars, threadVars, diskVars
<1>15. ASSUME NEW t \in Threads, CleanTempDirectory(t)
      PROVE  EnvironmentTypes'
    BY <1>15 DEF CleanTempDirectory, From, managerVars, threadVars, diskVars
<1>16. ASSUME NEW t \in Threads, CleanTempDirectoryFails(t)
      PROVE  EnvironmentTypes'
    BY <1>16 DEF CleanTempDirectoryFails, From, Fails, managerVars, threadVars, diskVars
<1>17. ASSUME NEW t \in Threads, TakeRunner(t)
      PROVE  EnvironmentTypes'
    BY <1>17 DEF TakeRunner, From, FirstAcquired, managerVars, threadVars, diskVars
<1>18. ASSUME NEW t \in Threads, Command(t)
      PROVE  EnvironmentTypes'
    BY <1>18 DEF Command, From, managerVars, threadVars, diskVars
<1>19. ASSUME NEW t \in Threads, CommandFails(t)
      PROVE  EnvironmentTypes'
    BY <1>19 DEF CommandFails, From, Fails, managerVars, threadVars, diskVars
<1>20. ASSUME NEW t \in Threads, CommandEnds(t)
      PROVE  EnvironmentTypes'
    BY <1>20 DEF CommandEnds, From, managerVars, threadVars, diskVars
<1>21. ASSUME NEW t \in Threads, RemoveSubdirectory(t)
      PROVE  EnvironmentTypes'
    BY <1>21 DEF RemoveSubdirectory, From, managerVars, threadVars, diskVars
<1>22. ASSUME NEW t \in Threads, RemoveSubdirectoryFails(t)
      PROVE  EnvironmentTypes'
    BY <1>22 DEF RemoveSubdirectoryFails, From, Fails, managerVars, threadVars, diskVars
<1>23. CASE UNCHANGED vars
    BY <1>23 DEF vars, managerVars, threadVars, diskVars
<1> QED
    BY <1>1, <1>2, <1>3, <1>4, <1>5, <1>6, <1>7, <1>8, <1>9, <1>10, <1>11, <1>12, <1>13, <1>14, <1>15, <1>16, <1>17, <1>18, <1>19, <1>20, <1>21, <1>22, <1>23
    DEF Next, ThreadNext, LabelsOf

---------------------------------------------------------------------------
\* Reference counts.

\* How a step of thread t to label n changes the holders.
LEMMA HoldersStep ==
    ASSUME EnvironmentTypes, NEW m \in Managers, NEW t \in Threads, NEW l \in Labels, NEW n \in Labels,
           From(t, l, n)
    PROVE  Holders(m)' = IF n \in LabelsOf(m) THEN Holders(m) \cup {t} ELSE Holders(m) \ {t}
BY DEF EnvironmentTypes, Holders, From, LabelsOf, WorkerLabels, OwnerLabels, RunnerLabels, Managers

\* Where t was before the step says whether it was a holder.
LEMMA HolderWas ==
    ASSUME EnvironmentTypes, NEW m \in Managers, NEW t \in Threads, NEW l \in Labels, NEW n \in Labels,
           From(t, l, n)
    PROVE  t \in Holders(m) <=> l \in LabelsOf(m)
BY DEF EnvironmentTypes, Holders, From, LabelsOf, WorkerLabels, OwnerLabels, RunnerLabels, Managers

\* A step that neither gets nor gives back the environment of m keeps the
\* holders, ...
LEMMA SameHolders ==
    ASSUME EnvironmentTypes, NEW m \in Managers, NEW t \in Threads, NEW l \in Labels, NEW n \in Labels,
           From(t, l, n), l \in LabelsOf(m) <=> n \in LabelsOf(m)
    PROVE  Holders(m)' = Holders(m)
BY HoldersStep, HolderWas

\* ... one that gets it adds a holder, ...
LEMMA OneMoreHolder ==
    ASSUME EnvironmentTypes, HoldersCounted, NEW m \in Managers, NEW t \in Threads, NEW l \in Labels, NEW n \in Labels,
           From(t, l, n), l \notin LabelsOf(m), n \in LabelsOf(m)
    PROVE  IsFiniteSet(Holders(m)') /\ Cardinality(Holders(m)') = refcount[m] + 1
<1>1. Holders(m)' = Holders(m) \cup {t} /\ t \notin Holders(m)
    BY HoldersStep, HolderWas
<1> QED
    BY <1>1, FS_AddElement DEF HoldersCounted

\* ... and one that gives it back removes one.
LEMMA OneHolderLess ==
    ASSUME EnvironmentTypes, HoldersCounted, NEW m \in Managers, NEW t \in Threads, NEW l \in Labels, NEW n \in Labels,
           From(t, l, n), l \in LabelsOf(m), n \notin LabelsOf(m)
    PROVE  IsFiniteSet(Holders(m)') /\ Cardinality(Holders(m)') = refcount[m] - 1
<1>1. Holders(m)' = Holders(m) \ {t} /\ t \in Holders(m)
    BY HoldersStep, HolderWas
<1> QED
    BY <1>1, FS_RemoveElement DEF HoldersCounted

\* A step that concerns no manager keeps locks, counts and channels.
LEMMA QuietStep ==
    ASSUME ManagerInvariant, NEW t \in Threads, NEW l \in Labels \ {"clean"}, NEW n \in Labels \ {"clean"},
           From(t, l, n), UNCHANGED managerVars,
           \A m \in Managers : /\ l \in LabelsOf(m) <=> n \in LabelsOf(m)
                               /\ l \in LockLabels(m) <=> n \in LockLabels(m)
    PROVE  LocksHeld' /\ HoldersCounted' /\ ElementKept'
<1> USE DEF ManagerInvariant, managerVars
<1>1. LocksHeld'
    BY DEF LocksHeld, From, EnvironmentTypes
<1>2. \A m \in Managers : Holders(m)' = Holders(m)
    BY SameHolders
<1>3. HoldersCounted'
    BY <1>2 DEF HoldersCounted
<1>4. ElementKept'
    BY DEF ElementKept, From, EnvironmentTypes
<1> QED
    BY <1>1, <1>3, <1>4

\* concurrentManager.Acquire of an environment that is shared.
LEMMA AcquireSharedStep ==
    ASSUME ManagerInvariant, NEW t \in Threads, NEW m \in Managers, NEW l \in Labels, NEW n \in Labels,
           AcquireShared(t, m, l, n),
           <<m, l, n>> \in {<<"worker", "acquire", "mkdir">>, <<"runner", "run", "command">>}
    PROVE  LocksHeld' /\ HoldersCounted' /\ ElementKept'
<1> USE DEF ManagerInvariant, AcquireShared, Managers, Labels, LabelsOf, WorkerLabels, OwnerLabels, RunnerLabels
<1>1. LocksHeld'
    BY DEF LocksHeld, LockLabels, From, EnvironmentTypes
<1>2. IsFiniteSet(Holders(m)') /\ Cardinality(Holders(m)') = refcount[m] + 1
    BY OneMoreHolder
<1>3. \A x \in Managers \ {m} : Holders(x)' = Holders(x)
    BY SameHolders
<1>4. HoldersCounted'
    BY <1>2, <1>3 DEF HoldersCounted, EnvironmentTypes
<1>5. ElementKept'
    BY DEF ElementKept, From, EnvironmentTypes, Shares
<1> QED
    BY <1>1, <1>4, <1>5

\* The call into the base manager.
LEMMA AcquireFirstStep ==
    ASSUME ManagerInvariant, NEW t \in Threads, NEW m \in Managers, NEW l \in Labels, NEW n \in Labels,
           AcquireFirst(t, m, l, n),
           <<m, l, n>> \in {<<"worker", "acquire", "take">>, <<"runner", "run", "temp">>}
    PROVE  LocksHeld' /\ HoldersCounted' /\ ElementKept'
<1> USE DEF ManagerInvariant, AcquireFirst, Managers, Labels, LabelsOf, WorkerLabels, OwnerLabels, RunnerLabels
<1>1. LocksHeld'
    BY EnvironmentAssumption DEF LocksHeld, LockLabels, From, EnvironmentTypes
<1>2. \A x \in Managers : Holders(x)' = Holders(x)
    BY SameHolders
<1>3. HoldersCounted'
    BY <1>2 DEF HoldersCounted, EnvironmentTypes, Shares
<1>4. ElementKept'
    BY DEF ElementKept, From, EnvironmentTypes
<1> QED
    BY <1>1, <1>3, <1>4

\* concurrentEnvironment.Release.
LEMMA ReleaseStep ==
    ASSUME ManagerInvariant, NEW t \in Threads, NEW m \in Managers, NEW l \in Labels, NEW n \in Labels,
           Release(t, m, l, n),
           <<m, l, n>> \in {<<"worker", "release", "idle">>, <<"runner", "releaseRunner", "remove">>}
    PROVE  LocksHeld' /\ HoldersCounted' /\ ElementKept'
<1> USE DEF ManagerInvariant, Release, Managers, Labels, LabelsOf, WorkerLabels, OwnerLabels, RunnerLabels
<1>1. LocksHeld'
    BY DEF LocksHeld, LockLabels, From, EnvironmentTypes
<1>2. IsFiniteSet(Holders(m)') /\ Cardinality(Holders(m)') = refcount[m] - 1
    BY OneHolderLess
<1>3. \A x \in Managers \ {m} : Holders(x)' = Holders(x)
    BY SameHolders
<1>4. HoldersCounted'
    BY <1>2, <1>3 DEF HoldersCounted, EnvironmentTypes
<1>5. refcount[m] # 0
    BY HolderCounts DEF From
<1>6. m = "worker" => \A u \in Threads : pc[u] # "clean"
    BY EnvironmentAssumption DEF LocksHeld, LockLabels
<1>7. ElementKept'
    BY <1>5, <1>6 DEF ElementKept, From, EnvironmentTypes
<1> QED
    BY <1>1, <1>4, <1>7

\* The element of the channel is received.
LEMMA TakeEnvironmentStep ==
    ASSUME ManagerInvariant, NEW t \in Threads, TakeEnvironment(t)
    PROVE  LocksHeld' /\ HoldersCounted' /\ ElementKept'
<1> USE DEF ManagerInvariant, TakeEnvironment, Managers, Labels, LabelsOf, WorkerLabels, OwnerLabels, RunnerLabels
<1>1. LocksHeld'
    BY DEF LocksHeld, LockLabels, From, EnvironmentTypes
<1>2. \A x \in Managers : Holders(x)' = Holders(x)
    BY SameHolders
<1>3. HoldersCounted'
    BY <1>2 DEF HoldersCounted, EnvironmentTypes
<1>4. ElementKept'
    BY DEF ElementKept, From, EnvironmentTypes
<1> QED
    BY <1>1, <1>3, <1>4

\* The base manager of the worker returns its environment.
LEMMA CleanBuildDirectoryStep ==
    ASSUME ManagerInvariant, NEW t \in Threads, CleanBuildDirectory(t)
    PROVE  LocksHeld' /\ HoldersCounted' /\ ElementKept'
<1> USE DEF ManagerInvariant, CleanBuildDirectory, FirstAcquired, Managers, Labels, LabelsOf, WorkerLabels, OwnerLabels, RunnerLabels
<1>1. LocksHeld'
    BY EnvironmentAssumption DEF LocksHeld, LockLabels, From, EnvironmentTypes
<1>2. IsFiniteSet(Holders("worker")') /\ Cardinality(Holders("worker")') = refcount["worker"] + 1
    BY OneMoreHolder
<1>3. Holders("runner")' = Holders("runner")
    BY SameHolders
<1>4. HoldersCounted'
    BY <1>2, <1>3 DEF HoldersCounted, EnvironmentTypes
<1>5. ElementKept'
    BY DEF ElementKept, From, EnvironmentTypes
<1> QED
    BY <1>1, <1>4, <1>5

\* It returns an error, having given the environment back.
LEMMA CleanBuildDirectoryFailsStep ==
    ASSUME ManagerInvariant, NEW t \in Threads, CleanBuildDirectoryFails(t)
    PROVE  LocksHeld' /\ HoldersCounted' /\ ElementKept'
<1> USE DEF ManagerInvariant, CleanBuildDirectoryFails, Managers, Labels, LabelsOf, WorkerLabels, OwnerLabels, RunnerLabels
<1>1. LocksHeld'
    BY EnvironmentAssumption DEF LocksHeld, LockLabels, From, EnvironmentTypes
<1>2. \A x \in Managers : Holders(x)' = Holders(x)
    BY SameHolders
<1>3. HoldersCounted'
    BY <1>2 DEF HoldersCounted, EnvironmentTypes
<1>4. \A u \in Threads : pc'[u] # "clean"
    BY DEF LocksHeld, LockLabels, From, EnvironmentTypes
<1>5. refcount["worker"] = 0
    BY EnvironmentAssumption DEF LocksHeld, LockLabels, HoldersCounted, From
<1>6. ElementKept'
    BY <1>4, <1>5 DEF ElementKept, From, EnvironmentTypes
<1> QED
    BY <1>1, <1>3, <1>6

\* The runner's base manager is never reached.
LEMMA CleanTempDirectoryFailsStep ==
    ASSUME ManagerInvariant, NEW t \in Threads, CleanTempDirectoryFails(t)
    PROVE  LocksHeld' /\ HoldersCounted' /\ ElementKept'
<1> USE DEF ManagerInvariant, CleanTempDirectoryFails, Managers, Labels, LabelsOf, WorkerLabels, OwnerLabels, RunnerLabels
<1>1. LocksHeld'
    BY EnvironmentAssumption DEF LocksHeld, LockLabels, From, EnvironmentTypes
<1>2. \A x \in Managers : Holders(x)' = Holders(x)
    BY SameHolders
<1>3. HoldersCounted'
    BY <1>2 DEF HoldersCounted, EnvironmentTypes
<1>4. ElementKept'
    BY DEF ElementKept, From, EnvironmentTypes
<1> QED
    BY <1>1, <1>3, <1>4

\* The runner's base manager returns its environment.
LEMMA TakeRunnerStep ==
    ASSUME ManagerInvariant, NEW t \in Threads, TakeRunner(t)
    PROVE  LocksHeld' /\ HoldersCounted' /\ ElementKept'
<1> USE DEF ManagerInvariant, TakeRunner, FirstAcquired, Managers, Labels, LabelsOf, WorkerLabels, OwnerLabels, RunnerLabels
<1>1. LocksHeld'
    BY EnvironmentAssumption DEF LocksHeld, LockLabels, From, EnvironmentTypes
<1>2. IsFiniteSet(Holders("runner")') /\ Cardinality(Holders("runner")') = refcount["runner"] + 1
    BY OneMoreHolder
<1>3. Holders("worker")' = Holders("worker")
    BY SameHolders
<1>4. HoldersCounted'
    BY <1>2, <1>3 DEF HoldersCounted, EnvironmentTypes
<1>5. ElementKept'
    BY DEF ElementKept, From, EnvironmentTypes
<1> QED
    BY <1>1, <1>4, <1>5

\* Every step keeps locks, counts and channels.
LEMMA ManagersStep ==
    ASSUME ManagerInvariant, [Next]_vars
    PROVE  LocksHeld' /\ HoldersCounted' /\ ElementKept'
<1> DEFINE Goal == LocksHeld' /\ HoldersCounted' /\ ElementKept'
<1>1. ASSUME NEW t \in Threads, NEW l \in Labels, NEW n \in Labels, From(t, l, n), UNCHANGED managerVars,
             <<l, n>> \in {<<"idle", "acquire">>, <<"mkdir", "enter">>, <<"mkdir", "release">>, <<"enter", "input">>,
                           <<"enter", "release">>, <<"input", "run">>, <<"input", "remove">>,
                           <<"temp", "takeRunner">>, <<"command", "running">>, <<"command", "releaseRunner">>,
                           <<"running", "releaseRunner">>, <<"remove", "release">>}
      PROVE  Goal
    BY <1>1, QuietStep DEF LabelsOf, LockLabels, Managers, Labels, WorkerLabels, OwnerLabels, RunnerLabels
<1> USE DEF Labels, WorkerLabels, OwnerLabels, RunnerLabels, Managers
<1>2. ASSUME NEW t \in Threads, NEW d \in Digests, Start(t, d)
      PROVE  Goal
    BY <1>1, <1>2 DEF Start
<1>3. ASSUME NEW t \in Threads, Mkdir(t) \/ MkdirExists(t) \/ MkdirFails(t) \/ Enter(t) \/ EnterFails(t)
      PROVE  Goal
    BY <1>1, <1>3 DEF Mkdir, MkdirExists, MkdirFails, Enter, EnterFails
<1>4. ASSUME NEW t \in Threads,
             \/ CreateInput(t) \/ CreateInputFails(t) \/ RemoveSubdirectory(t) \/ RemoveSubdirectoryFails(t)
             \/ CleanTempDirectory(t) \/ Command(t) \/ CommandFails(t) \/ CommandEnds(t)
      PROVE  Goal
    BY <1>1, <1>4 DEF CreateInput, CreateInputFails, RemoveSubdirectory, RemoveSubdirectoryFails,
        CleanTempDirectory, Command, CommandFails, CommandEnds
<1>5. ASSUME NEW t \in Threads,
             \/ AcquireShared(t, "worker", "acquire", "mkdir") \/ AcquireShared(t, "runner", "run", "command")
      PROVE  Goal
    BY <1>5, AcquireSharedStep
<1>6. ASSUME NEW t \in Threads,
             \/ AcquireFirst(t, "worker", "acquire", "take") \/ AcquireFirst(t, "runner", "run", "temp")
      PROVE  Goal
    BY <1>6, AcquireFirstStep
<1>7. ASSUME NEW t \in Threads,
             \/ Release(t, "worker", "release", "idle") \/ Release(t, "runner", "releaseRunner", "remove")
      PROVE  Goal
    BY <1>7, ReleaseStep
<1>8. ASSUME NEW t \in Threads, TakeEnvironment(t)
      PROVE  Goal
    BY <1>8, TakeEnvironmentStep
<1>9. ASSUME NEW t \in Threads, CleanBuildDirectory(t)
      PROVE  Goal
    BY <1>9, CleanBuildDirectoryStep
<1>10. ASSUME NEW t \in Threads, CleanBuildDirectoryFails(t)
      PROVE  Goal
    BY <1>10, CleanBuildDirectoryFailsStep
<1>11. ASSUME NEW t \in Threads, CleanTempDirectoryFails(t)
      PROVE  Goal
    BY <1>11, CleanTempDirectoryFailsStep
<1>12. ASSUME NEW t \in Threads, TakeRunner(t)
      PROVE  Goal
    BY <1>12, TakeRunnerStep
<1>13. CASE UNCHANGED vars
    BY <1>13 DEF vars, managerVars, ManagerInvariant, LocksHeld, HoldersCounted, Holders, ElementKept
<1> QED
    BY <1>2, <1>3, <1>4, <1>5, <1>6, <1>7, <1>8, <1>9, <1>10, <1>11, <1>12, <1>13 DEF Next, ThreadNext

\* Nothing is held or counted at first.
LEMMA ManagersInit ==
    ASSUME Init
    PROVE  ManagerInvariant
<1> USE DEF Init
<1>1. EnvironmentTypes
    <2>1. files \in [Digests -> SUBSET Nat]
        OBVIOUS
    <2>2. tempDirectory \in SUBSET Nat
        OBVIOUS
    <2> QED
        BY <2>1, <2>2 DEF EnvironmentTypes, Labels, Managers
<1>2. LocksHeld
    BY EnvironmentAssumption DEF LocksHeld, LockLabels, Managers
<1>3. \A m \in Managers : Holders(m) = {}
    BY DEF Holders, Managers
<1>4. HoldersCounted
    BY <1>3, FS_EmptySet DEF HoldersCounted, Managers
<1>5. ElementKept
    BY DEF ElementKept, Managers
<1> QED
    BY <1>1, <1>2, <1>4, <1>5 DEF ManagerInvariant

\* concurrentManager, singletonManager and the managers in between keep their
\* invariant, whatever fails.
THEOREM ManagerInvariantHolds ==
    Spec => []ManagerInvariant
<1>1. ManagerInvariant /\ [Next]_vars => ManagerInvariant'
    BY TypesStep, ManagersStep DEF ManagerInvariant
<1> QED
    BY <1>1, ManagersInit, PTL DEF Spec

\* refcount of concurrentManager is exact, so that Release never finds it at
\* zero, and the environment is in singletonManager's channel exactly when
\* nobody has it.
THEOREM RefcountIsExact ==
    Spec => []RefcountExact
<1>1. ManagerInvariant => RefcountExact
    <2> SUFFICES ASSUME ManagerInvariant, NEW m \in Managers
                 PROVE  /\ refcount[m] = Cardinality(Holders(m))
                        /\ lock[m] = NoThread => environment[m] = IF refcount[m] = 0 THEN 1 ELSE 0
                        /\ environment[m] \in 0 .. 1
        BY DEF RefcountExact
    <2>1. refcount[m] = Cardinality(Holders(m))
        BY DEF ManagerInvariant, HoldersCounted
    <2>2. lock["worker"] = NoThread => \A t \in Threads : pc[t] # "clean"
        BY EnvironmentAssumption DEF ManagerInvariant, LocksHeld, LockLabels, Managers
    <2> QED
        BY <2>1, <2>2 DEF ManagerInvariant, ElementKept, Managers
<1> QED
    BY <1>1, ManagerInvariantHolds, PTL

---------------------------------------------------------------------------
\* Directories.

\* There are no files without a subdirectory to hold them.
FilesHaveDirectory == \A d \in Digests : d \notin subdirectories => files[d] = {}

\* Threads that have a subdirectory have different ones.
OwnersApart ==
    \A t, u \in Threads : pc[t] \in OwnerLabels /\ pc[u] \in OwnerLabels /\ t # u => digest[t] # digest[u]

\* A subdirectory that was just created is there, and empty.
CreatedEmpty == \A t \in Threads : pc[t] = "enter" => digest[t] \in subdirectories /\ files[digest[t]] = {}

DirectoryInvariant ==
    FilesHaveDirectory /\ OwnersApart /\ CreatedEmpty /\ OwnSubdirectory /\ TempFilesStay

\* The directory of an owner is there.
LEMMA OwnersHaveDirectory ==
    ASSUME DirectoryInvariant, NEW t \in Threads, pc[t] \in OwnerLabels
    PROVE  digest[t] \in subdirectories
BY DEF DirectoryInvariant, CreatedEmpty, OwnSubdirectory, OwnerLabels, RunnerLabels

\* While a thread cleans the build directory, nobody has a subdirectory.
LEMMA CleanAlone ==
    ASSUME ManagerInvariant, NEW t \in Threads, pc[t] = "clean", NEW u \in Threads
    PROVE  pc[u] \notin OwnerLabels
BY HolderCounts, EnvironmentAssumption
   DEF ManagerInvariant, LocksHeld, LockLabels, LabelsOf, WorkerLabels, Managers

\* While a thread cleans the temporary directory, no command is running.
LEMMA CleanTempAlone ==
    ASSUME ManagerInvariant, NEW t \in Threads, pc[t] = "temp", NEW u \in Threads
    PROVE  pc[u] # "running"
BY HolderCounts, EnvironmentAssumption
   DEF ManagerInvariant, LocksHeld, LockLabels, LabelsOf, RunnerLabels, Managers

\* A new execution has no directory yet.
LEMMA StartDirectories ==
    ASSUME ManagerInvariant, DirectoryInvariant, NEW t \in Threads, NEW d \in Digests, Start(t, d)
    PROVE  DirectoryInvariant'
<1> USE DEF DirectoryInvariant, Start, managerVars, diskVars, From, ManagerInvariant, EnvironmentTypes
<1>1. FilesHaveDirectory'
    BY DEF FilesHaveDirectory, CreatedEmpty
<1>2. OwnersApart'
    BY DEF OwnersApart, OwnerLabels, RunnerLabels
<1>3. CreatedEmpty'
    BY DEF CreatedEmpty, FilesHaveDirectory, OwnersApart, OwnerLabels, RunnerLabels
<1>4. OwnSubdirectory'
    BY DEF OwnSubdirectory, CreatedEmpty, OwnersApart, OwnerLabels, RunnerLabels
<1>5. TempFilesStay'
    BY DEF TempFilesStay
<1> QED
    BY <1>1, <1>2, <1>3, <1>4, <1>5

\* A step that leaves the disk alone.
LEMMA QuietDirectories ==
    ASSUME ManagerInvariant, DirectoryInvariant, NEW t \in Threads, NEW l \in Labels, NEW n \in Labels, From(t, l, n), UNCHANGED <<threadVars, diskVars>>,
           <<l, n>> \in {<<"acquire", "mkdir">>, <<"acquire", "take">>, <<"take", "clean">>, <<"mkdir", "release">>,
                         <<"enter", "input">>, <<"run", "command">>, <<"run", "temp">>, <<"takeRunner", "command">>,
                         <<"command", "releaseRunner">>, <<"running", "releaseRunner">>,
                         <<"releaseRunner", "remove">>, <<"release", "idle">>}
    PROVE  DirectoryInvariant'
<1> USE DEF DirectoryInvariant, threadVars, diskVars, From, ManagerInvariant, EnvironmentTypes
<1>1. FilesHaveDirectory'
    BY DEF FilesHaveDirectory, CreatedEmpty
<1>2. OwnersApart'
    BY DEF OwnersApart, OwnerLabels, RunnerLabels
<1>3. CreatedEmpty'
    BY DEF CreatedEmpty, FilesHaveDirectory, OwnersApart, OwnerLabels, RunnerLabels
<1>4. OwnSubdirectory'
    BY DEF OwnSubdirectory, CreatedEmpty, OwnersApart, OwnerLabels, RunnerLabels
<1>5. TempFilesStay'
    BY DEF TempFilesStay
<1> QED
    BY <1>1, <1>2, <1>3, <1>4, <1>5

\* The build directory is emptied: nobody has anything there.
LEMMA CleanBuildDirectoryDirectories ==
    ASSUME ManagerInvariant, DirectoryInvariant, NEW t \in Threads, CleanBuildDirectory(t)
    PROVE  DirectoryInvariant'
<1> USE DEF DirectoryInvariant, CleanBuildDirectory, threadVars, From, ManagerInvariant, EnvironmentTypes
<1>1. FilesHaveDirectory'
    BY CleanAlone DEF FilesHaveDirectory, CreatedEmpty
<1>2. OwnersApart'
    BY CleanAlone DEF OwnersApart, OwnerLabels, RunnerLabels
<1>3. CreatedEmpty'
    BY CleanAlone DEF CreatedEmpty, FilesHaveDirectory, OwnersApart, OwnerLabels, RunnerLabels
<1>4. OwnSubdirectory'
    BY CleanAlone DEF OwnSubdirectory, CreatedEmpty, OwnersApart, OwnerLabels, RunnerLabels
<1>5. TempFilesStay'
    BY DEF TempFilesStay
<1> QED
    BY <1>1, <1>2, <1>3, <1>4, <1>5

\* It is emptied in part.
LEMMA CleanBuildDirectoryFailsDirectories ==
    ASSUME ManagerInvariant, DirectoryInvariant, NEW t \in Threads, CleanBuildDirectoryFails(t)
    PROVE  DirectoryInvariant'
<1> USE DEF DirectoryInvariant, CleanBuildDirectoryFails, threadVars, From, ManagerInvariant, EnvironmentTypes
<1>1. FilesHaveDirectory'
    BY CleanAlone DEF FilesHaveDirectory, CreatedEmpty
<1>2. OwnersApart'
    BY CleanAlone DEF OwnersApart, OwnerLabels, RunnerLabels
<1>3. CreatedEmpty'
    BY CleanAlone DEF CreatedEmpty, FilesHaveDirectory, OwnersApart, OwnerLabels, RunnerLabels
<1>4. OwnSubdirectory'
    BY CleanAlone DEF OwnSubdirectory, CreatedEmpty, OwnersApart, OwnerLabels, RunnerLabels
<1>5. TempFilesStay'
    BY DEF TempFilesStay
<1> QED
    BY <1>1, <1>2, <1>3, <1>4, <1>5

\* A directory that was not there before is nobody's, and empty.
LEMMA MkdirDirectories ==
    ASSUME ManagerInvariant, DirectoryInvariant, NEW t \in Threads, Mkdir(t)
    PROVE  DirectoryInvariant'
<1> USE DEF DirectoryInvariant, Mkdir, managerVars, threadVars, From, ManagerInvariant, EnvironmentTypes
<1>1. FilesHaveDirectory'
    BY DEF FilesHaveDirectory, CreatedEmpty
<1>2. OwnersApart'
    BY OwnersHaveDirectory DEF OwnersApart, OwnerLabels, RunnerLabels
<1>3. CreatedEmpty'
    BY DEF CreatedEmpty, FilesHaveDirectory, OwnersApart, OwnerLabels, RunnerLabels
<1>4. OwnSubdirectory'
    BY DEF OwnSubdirectory, CreatedEmpty, OwnersApart, OwnerLabels, RunnerLabels
<1>5. TempFilesStay'
    BY DEF TempFilesStay
<1> QED
    BY <1>1, <1>2, <1>3, <1>4, <1>5

\* An empty directory is removed again.
LEMMA EnterFailsDirectories ==
    ASSUME ManagerInvariant, DirectoryInvariant, NEW t \in Threads, EnterFails(t)
    PROVE  DirectoryInvariant'
<1> USE DEF DirectoryInvariant, EnterFails, Fails, managerVars, threadVars, From, ManagerInvariant, EnvironmentTypes
<1>1. FilesHaveDirectory'
    BY DEF FilesHaveDirectory, CreatedEmpty
<1>2. OwnersApart'
    BY DEF OwnersApart, OwnerLabels, RunnerLabels
<1>3. CreatedEmpty'
    BY DEF CreatedEmpty, FilesHaveDirectory, OwnersApart, OwnerLabels, RunnerLabels
<1>4. OwnSubdirectory'
    BY DEF OwnSubdirectory, CreatedEmpty, OwnersApart, OwnerLabels, RunnerLabels
<1>5. TempFilesStay'
    BY DEF TempFilesStay
<1> QED
    BY <1>1, <1>2, <1>3, <1>4, <1>5

\* Input files go to the thread's own directory.
LEMMA CreateInputDirectories ==
    ASSUME ManagerInvariant, DirectoryInvariant, NEW t \in Threads, CreateInput(t)
    PROVE  DirectoryInvariant'
<1> USE DEF DirectoryInvariant, CreateInput, managerVars, threadVars, From, ManagerInvariant, EnvironmentTypes
<1>1. FilesHaveDirectory'
    BY OwnersHaveDirectory DEF FilesHaveDirectory, OwnerLabels, RunnerLabels
<1>2. OwnersApart'
    BY DEF OwnersApart, OwnerLabels, RunnerLabels
<1>3. CreatedEmpty'
    BY DEF CreatedEmpty, FilesHaveDirectory, OwnersApart, OwnerLabels, RunnerLabels
<1>4. OwnSubdirectory'
    BY DEF OwnSubdirectory, CreatedEmpty, OwnersApart, OwnerLabels, RunnerLabels
<1>5. TempFilesStay'
    BY DEF TempFilesStay
<1> QED
    BY <1>1, <1>2, <1>3, <1>4, <1>5

\* So do those that were created before the failure.
LEMMA CreateInputFailsDirectories ==
    ASSUME ManagerInvariant, DirectoryInvariant, NEW t \in Threads, CreateInputFails(t)
    PROVE  DirectoryInvariant'
<1> USE DEF DirectoryInvariant, CreateInputFails, Fails, managerVars, threadVars, From, ManagerInvariant, EnvironmentTypes
<1>1. FilesHaveDirectory'
    BY OwnersHaveDirectory DEF FilesHaveDirectory, OwnerLabels, RunnerLabels
<1>2. OwnersApart'
    BY DEF OwnersApart, OwnerLabels, RunnerLabels
<1>3. CreatedEmpty'
    BY DEF CreatedEmpty, FilesHaveDirectory, OwnersApart, OwnerLabels, RunnerLabels
<1>4. OwnSubdirectory'
    BY DEF OwnSubdirectory, CreatedEmpty, OwnersApart, OwnerLabels, RunnerLabels
<1>5. TempFilesStay'
    BY DEF TempFilesStay
<1> QED
    BY <1>1, <1>2, <1>3, <1>4, <1>5

\* The temporary directory is emptied while no command runs.
LEMMA CleanTempDirectoryDirectories ==
    ASSUME ManagerInvariant, DirectoryInvariant, NEW t \in Threads, CleanTempDirectory(t)
    PROVE  DirectoryInvariant'
<1> USE DEF DirectoryInvariant, CleanTempDirectory, managerVars, threadVars, From, ManagerInvariant, EnvironmentTypes
<1>1. FilesHaveDirectory'
    BY DEF FilesHaveDirectory, CreatedEmpty
<1>2. OwnersApart'
    BY DEF OwnersApart, OwnerLabels, RunnerLabels
<1>3. CreatedEmpty'
    BY DEF CreatedEmpty, FilesHaveDirectory, OwnersApart, OwnerLabels, RunnerLabels
<1>4. OwnSubdirectory'
    BY DEF OwnSubdirectory, CreatedEmpty, OwnersApart, OwnerLabels, RunnerLabels
<1>5. TempFilesStay'
    BY CleanTempAlone DEF TempFilesStay
<1> QED
    BY <1>1, <1>2, <1>3, <1>4, <1>5

\* The same, in part.
LEMMA CleanTempDirectoryFailsDirectories ==
    ASSUME ManagerInvariant, DirectoryInvariant, NEW t \in Threads, CleanTempDirectoryFails(t)
    PROVE  DirectoryInvariant'
<1> USE DEF DirectoryInvariant, CleanTempDirectoryFails, Fails, threadVars, From, ManagerInvariant, EnvironmentTypes
<1>1. FilesHaveDirectory'
    BY DEF FilesHaveDirectory, CreatedEmpty
<1>2. OwnersApart'
    BY DEF OwnersApart, OwnerLabels, RunnerLabels
<1>3. CreatedEmpty'
    BY DEF CreatedEmpty, FilesHaveDirectory, OwnersApart, OwnerLabels, RunnerLabels
<1>4. OwnSubdirectory'
    BY DEF OwnSubdirectory, CreatedEmpty, OwnersApart, OwnerLabels, RunnerLabels
<1>5. TempFilesStay'
    BY CleanTempAlone DEF TempFilesStay
<1> QED
    BY <1>1, <1>2, <1>3, <1>4, <1>5

\* A command writes to its own directory and to the temporary directory.
LEMMA CommandDirectories ==
    ASSUME ManagerInvariant, DirectoryInvariant, NEW t \in Threads, Command(t)
    PROVE  DirectoryInvariant'
<1> USE DEF DirectoryInvariant, Command, managerVars, threadVars, From, ManagerInvariant, EnvironmentTypes
<1>1. FilesHaveDirectory'
    BY OwnersHaveDirectory DEF FilesHaveDirectory, OwnerLabels, RunnerLabels
<1>2. OwnersApart'
    BY DEF OwnersApart, OwnerLabels, RunnerLabels
<1>3. CreatedEmpty'
    BY DEF CreatedEmpty, FilesHaveDirectory, OwnersApart, OwnerLabels, RunnerLabels
<1>4. OwnSubdirectory'
    BY DEF OwnSubdirectory, CreatedEmpty, OwnersApart, OwnerLabels, RunnerLabels
<1>5. TempFilesStay'
    BY DEF TempFilesStay
<1> QED
    BY <1>1, <1>2, <1>3, <1>4, <1>5

\* A thread removes its own directory.
LEMMA RemoveSubdirectoryDirectories ==
    ASSUME ManagerInvariant, DirectoryInvariant, NEW t \in Threads, RemoveSubdirectory(t)
    PROVE  DirectoryInvariant'
<1> USE DEF DirectoryInvariant, RemoveSubdirectory, managerVars, threadVars, From, ManagerInvariant, EnvironmentTypes
<1>1. FilesHaveDirectory'
    BY DEF FilesHaveDirectory, CreatedEmpty
<1>2. OwnersApart'
    BY DEF OwnersApart, OwnerLabels, RunnerLabels
<1>3. CreatedEmpty'
    BY DEF CreatedEmpty, FilesHaveDirectory, OwnersApart, OwnerLabels, RunnerLabels
<1>4. OwnSubdirectory'
    BY DEF OwnSubdirectory, CreatedEmpty, OwnersApart, OwnerLabels, RunnerLabels
<1>5. TempFilesStay'
    BY DEF TempFilesStay
<1> QED
    BY <1>1, <1>2, <1>3, <1>4, <1>5

\* A directory that could not be removed is left without an owner.
LEMMA RemoveSubdirectoryFailsDirectories ==
    ASSUME ManagerInvariant, DirectoryInvariant, NEW t \in Threads, RemoveSubdirectoryFails(t)
    PROVE  DirectoryInvariant'
<1> USE DEF DirectoryInvariant, RemoveSubdirectoryFails, Fails, managerVars, threadVars, From, ManagerInvariant, EnvironmentTypes
<1>1. FilesHaveDirectory'
    BY DEF FilesHaveDirectory, CreatedEmpty
<1>2. OwnersApart'
    BY DEF OwnersApart, OwnerLabels, RunnerLabels
<1>3. CreatedEmpty'
    BY DEF CreatedEmpty, FilesHaveDirectory, OwnersApart, OwnerLabels, RunnerLabels
<1>4. OwnSubdirectory'
    BY DEF OwnSubdirectory, CreatedEmpty, OwnersApart, OwnerLabels, RunnerLabels
<1>5. TempFilesStay'
    BY DEF TempFilesStay
<1> QED
    BY <1>1, <1>2, <1>3, <1>4, <1>5

\* Every step keeps directories apart.
LEMMA DirectoriesStep ==
    ASSUME ManagerInvariant, DirectoryInvariant, [Next]_vars
    PROVE  DirectoryInvariant'
<1>1. ASSUME NEW t \in Threads,
             \/ AcquireShared(t, "worker", "acquire", "mkdir") \/ AcquireFirst(t, "worker", "acquire", "take")
             \/ AcquireShared(t, "runner", "run", "command") \/ AcquireFirst(t, "runner", "run", "temp")
             \/ Release(t, "runner", "releaseRunner", "remove") \/ Release(t, "worker", "release", "idle")
      PROVE  DirectoryInvariant'
    BY <1>1, QuietDirectories DEF AcquireShared, AcquireFirst, Release, Labels, WorkerLabels, OwnerLabels, RunnerLabels
<1>2. ASSUME NEW t \in Threads,
             \/ TakeEnvironment(t) \/ MkdirExists(t) \/ MkdirFails(t) \/ Enter(t)
             \/ TakeRunner(t) \/ CommandFails(t) \/ CommandEnds(t)
      PROVE  DirectoryInvariant'
    BY <1>2, QuietDirectories DEF TakeEnvironment, MkdirExists, MkdirFails, Enter, TakeRunner, CommandFails, CommandEnds,
        Labels, WorkerLabels, OwnerLabels, RunnerLabels
<1>3. ASSUME NEW t \in Threads,
             \/ \E d \in Digests : Start(t, d)
             \/ CleanBuildDirectory(t) \/ CleanBuildDirectoryFails(t) \/ Mkdir(t) \/ EnterFails(t)
      PROVE  DirectoryInvariant'
    BY <1>3, StartDirectories, CleanBuildDirectoryDirectories, CleanBuildDirectoryFailsDirectories,
        MkdirDirectories, EnterFailsDirectories
<1>4. ASSUME NEW t \in Threads,
             \/ CreateInput(t) \/ CreateInputFails(t) \/ CleanTempDirectory(t) \/ CleanTempDirectoryFails(t)
             \/ Command(t) \/ RemoveSubdirectory(t) \/ RemoveSubdirectoryFails(t)
      PROVE  DirectoryInvariant'
    BY <1>4, CreateInputDirectories, CreateInputFailsDirectories, CleanTempDirectoryDirectories,
        CleanTempDirectoryFailsDirectories, CommandDirectories, RemoveSubdirectoryDirectories,
        RemoveSubdirectoryFailsDirectories
<1>5. CASE UNCHANGED vars
    BY <1>5 DEF vars, threadVars, diskVars, DirectoryInvariant, FilesHaveDirectory, OwnersApart, CreatedEmpty,
        OwnSubdirectory, TempFilesStay
<1> QED
    BY <1>1, <1>2, <1>3, <1>4, <1>5 DEF Next, ThreadNext

\* What an execution puts on disk stays apart from that of others.
THEOREM DirectoryInvariantHolds ==
    Spec => []DirectoryInvariant
<1>1. Init => DirectoryInvariant
    BY DEF Init, DirectoryInvariant, FilesHaveDirectory, OwnersApart, CreatedEmpty, OwnSubdirectory, TempFilesStay,
        OwnerLabels, RunnerLabels
<1>2. ManagerInvariant /\ DirectoryInvariant /\ [Next]_vars => DirectoryInvariant'
    BY DirectoriesStep
<1> QED
    BY <1>1, <1>2, ManagerInvariantHolds, PTL DEF Spec

\* A thread's subdirectory exists and holds nothing but its own files from
\* Enter to RemoveAll, though other threads clean up, fail to, or run the same
\* action.
THEOREM SubdirectoriesAreOwn ==
    Spec => []OwnSubdirectory
<1>1. DirectoryInvariant => OwnSubdirectory
    BY DEF DirectoryInvariant
<1> QED
    BY <1>1, DirectoryInvariantHolds, PTL

\* tempDirectoryCleaningManager never empties the temporary directory under a
\* running command.
THEOREM TempFilesAlwaysStay ==
    Spec => []TempFilesStay
<1>1. DirectoryInvariant => TempFilesStay
    BY DEF DirectoryInvariant
<1> QED
    BY <1>1, DirectoryInvariantHolds, PTL
===========================================================================
