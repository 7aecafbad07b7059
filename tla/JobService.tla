---------------------------- MODULE JobService ----------------------------
(***************************************************************************)
(* What the scheduler promises to those who call Execute and               *)
(* WaitExecution: a list of jobs that are worked on in order of priority,  *)
(* each of them once, at most one per action at a time, and calls that     *)
(* follow a job until it is completed.  There are no locks, no wakeups, no *)
(* heap, no map of keys and no workers here.                               *)
(***************************************************************************)
EXTENDS Integers, Sequences, FiniteSets

CONSTANTS
    Keys,        \* what identifies an action
    Priorities,
    Clients,     \* calls
    Outcomes,    \* responses of completed jobs
    NoResponse,  \* the response of any other job
    Limit        \* waiting jobs beyond which new ones are declined

VARIABLES
    jobs,      \* the jobs, in the order in which they were submitted
    follows,   \* call -> number of the job that it follows, or 0
    reported,  \* call -> the states of that job that it has reported
    result     \* call -> what the last call returned, or "none" during a call

vars == <<jobs, follows, reported, result>>

Ids == 1 .. Len(jobs)
Live(j) == jobs[j].stage # "COMPLETED"
Waiting == {j \in Ids : jobs[j].stage = "QUEUED"}
InService(k) == \E j \in Ids : jobs[j].key = k /\ Live(j)

\* Job i is to be worked on before job j.
Before(i, j) == \/ jobs[i].priority < jobs[j].priority
                \/ jobs[i].priority = jobs[j].priority /\ i < j

Init ==
    /\ jobs = <<>>
    /\ follows = [c \in Clients |-> 0]
    /\ reported = [c \in Clients |-> <<>>]
    /\ result = [c \in Clients |-> "none"]

Follow(c, j) ==
    /\ follows[c] = 0
    /\ follows' = [follows EXCEPT ![c] = j]
    /\ reported' = [reported EXCEPT ![c] = <<>>]
    /\ result' = [result EXCEPT ![c] = "none"]

\* A request for an action that no live job is for, and room for another job.
Submit(c, k, p) ==
    /\ ~InService(k) /\ Cardinality(Waiting) < Limit
    /\ jobs' = Append(jobs, [key |-> k, priority |-> p, stage |-> "QUEUED",
                             executeResponse |-> NoResponse])
    /\ Follow(c, Len(jobs) + 1)

\* A call follows a job that exists: Execute the live one for its action,
\* WaitExecution any.
Attach(c, j) ==
    /\ j \in Ids
    /\ Follow(c, j)
    /\ UNCHANGED jobs

\* A request is declined; for the limit only if it would have made a new job.
Decline(c, code) ==
    /\ follows[c] = 0
    /\ \/ code = "InvalidArgument"
       \/ code = "NotFound"
       \/ code = "Unavailable" /\ Cardinality(Waiting) >= Limit /\ \E k \in Keys : ~InService(k)
    /\ reported' = [reported EXCEPT ![c] = <<>>]
    /\ result' = [result EXCEPT ![c] = code]
    /\ UNCHANGED <<jobs, follows>>

\* Work on the first of the waiting jobs begins.
Start(j) ==
    /\ j \in Waiting /\ \A i \in Waiting \ {j} : Before(j, i)
    /\ jobs' = [jobs EXCEPT ![j].stage = "EXECUTING"]
    /\ UNCHANGED <<follows, reported, result>>

\* Work on a job ends, once and for all.
Finish(j, r) ==
    /\ j \in Ids /\ jobs[j].stage = "EXECUTING"
    /\ jobs' = [jobs EXCEPT ![j].stage = "COMPLETED", ![j].executeResponse = r]
    /\ UNCHANGED <<follows, reported, result>>

\* A call reports how its job is doing, and returns if that was the last news.
Report(c) ==
    /\ follows[c] # 0
    /\ LET j == follows[c]
           over == ~Live(j)
       IN  /\ reported' = [reported EXCEPT ![c] = Append(@,
                 [stage |-> jobs[j].stage, response |-> jobs[j].executeResponse])]
           /\ follows' = [follows EXCEPT ![c] = IF over THEN 0 ELSE @]
           /\ result' = [result EXCEPT ![c] = IF over THEN "OK" ELSE @]
    /\ UNCHANGED jobs

\* The client that made the call is gone.
Abandon(c) ==
    /\ follows[c] # 0
    /\ follows' = [follows EXCEPT ![c] = 0]
    /\ result' = [result EXCEPT ![c] = "SendError"]
    /\ UNCHANGED <<jobs, reported>>

Next ==
    \/ \E c \in Clients :
          \/ \E k \in Keys, p \in Priorities : Submit(c, k, p)
          \/ \E j \in Ids : Attach(c, j)
          \/ \E code \in {"InvalidArgument", "NotFound", "Unavailable"} : Decline(c, code)
          \/ Report(c) \/ Abandon(c)
    \/ \E j \in Ids : Start(j) \/ \E r \in Outcomes : Finish(j, r)

Spec == Init /\ [][Next]_vars
===========================================================================
