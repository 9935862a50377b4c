-------------------------------- MODULE Jobs --------------------------------
(***************************************************************************)
(* CJobPool and IJob (engine/shared/jobs.cpp): the main thread initialises *)
(* the pool, adds and aborts jobs and shuts the pool down; the worker      *)
(* threads fetch jobs from a linked list.  What a thread does under one    *)
(* lock is one step, but for the loop over the queue in Shutdown, which    *)
(* holds m_Lock from step to step; every access to an atomic is a step.    *)
(*                                                                         *)
(* A job is handed to Add once.  It is abortable or not from its           *)
(* constructor on, as all jobs of this program are.                        *)
(***************************************************************************)
EXTENDS Naturals, FiniteSets

CONSTANTS
    Job,       \* the jobs
    Abortable, \* those with m_Abortable
    Worker,    \* the worker threads
    None,      \* the null pointer
    MaxInits   \* bound: how often the pool is initialised

ASSUME JobsAssumption ==
    /\ Abortable \subseteq Job
    /\ None \notin Job
    /\ IsFiniteSet(Job) /\ IsFiniteSet(Worker) /\ Worker # {}
    /\ MaxInits \in Nat

VARIABLES
    shutdown,  \* m_Shutdown
    sem,       \* m_Semaphore
    first,     \* m_pFirstJob
    last,      \* m_pLastJob
    next,      \* m_pNext of each job
    state,     \* m_State of each job
    running,   \* m_RunningJobs
    given,     \* what Add did with each job: "no", "queued" or "refused"
    main,      \* where the main thread is
    cur,       \* pJob and
    prev,      \* pPrev in Shutdown
    at,        \* where each worker is
    job,       \* pJob of each worker
    inits,     \* how often the pool has been initialised
    runs       \* history: how often each job has been run

list == <<first, last, next>>
loop == <<cur, prev>>
workers == <<at, job, running, runs>>
vars == <<shutdown, sem, list, state, main, loop, given, inits, workers>>

Pointer == Job \cup {None}

JobState == {"QUEUED", "RUNNING", "DONE", "ABORTED"}

MainAt == {"idle", "signal", "drain", "abort", "wake", "join"}

WorkerAt == {"none", "wait", "fetch", "empty", "claim", "enter", "run", "leave", "finish", "exited"}

TypeOK ==
    /\ shutdown \in BOOLEAN
    /\ sem \in Nat
    /\ first \in Pointer /\ last \in Pointer /\ next \in [Job -> Pointer]
    /\ state \in [Job -> JobState]
    /\ running \subseteq Job
    /\ given \in [Job -> {"no", "queued", "refused"}]
    /\ main \in MainAt
    /\ cur \in Pointer /\ prev \in Pointer
    /\ at \in [Worker -> WorkerAt]
    /\ job \in [Worker -> Pointer]
    /\ inits \in Nat
    /\ runs \in [Job -> Nat]

Init ==
    /\ shutdown = TRUE
    /\ sem = 0
    /\ first = None /\ last = None /\ next = [j \in Job |-> None]
    /\ state = [j \in Job |-> "QUEUED"]
    /\ running = {}
    /\ given = [j \in Job |-> "no"]
    /\ main = "idle" /\ cur = None /\ prev = None
    /\ at = [w \in Worker |-> "none"]
    /\ job = [w \in Worker |-> None]
    /\ inits = 0
    /\ runs = [j \in Job |-> 0]

-----------------------------------------------------------------------------
(* Jobs and locks *)

\* Mutant: the abort is forgotten.
NotAborted(S) == UNCHANGED state

\* IJob::Abort of every job in S.
Aborted(S) ==
    state' = [j \in Job |-> IF j \in S \cap Abortable THEN "ABORTED" ELSE state[j]]

\* IJob::Done
Done(j) == state[j] \notin {"QUEUED", "RUNNING"}

\* Shutdown holds m_Lock while it goes through the queue.
Locked == main = "drain"

\* Mutants: the semaphore does not count; one worker is not woken.
SignalOnce == IF sem = 0 THEN 1 ELSE sem
AllButOne == Cardinality(Worker) - 1

\* sphore_wait returns; sphore_signal; a signal for each worker.
Signalled == sem > 0
Signal == sem + 1
Everyone == Cardinality(Worker)

-----------------------------------------------------------------------------
(* The main thread *)

\* CJobPool::Init
InitPool ==
    /\ main = "idle" /\ shutdown
    /\ inits < MaxInits
    /\ inits' = inits + 1
    /\ shutdown' = FALSE
    /\ sem' = 0
    /\ first' = None /\ last' = None
    /\ at' = [w \in Worker |-> "wait"]
    /\ UNCHANGED <<next, state, main, loop, given, job, running, runs>>

\* CJobPool::Add: the job is put into the queue ...
Add(j) ==
    /\ main = "idle" /\ ~shutdown
    /\ given[j] = "no"
    /\ given' = [given EXCEPT ![j] = "queued"]
    /\ next' = IF last = None THEN next ELSE [next EXCEPT ![last] = j]
    /\ last' = j
    /\ first' = IF first = None THEN j ELSE first
    /\ main' = "signal"
    /\ UNCHANGED <<shutdown, sem, state, cur, prev, inits, workers>>

\* ... and a worker is signalled.
SignalJob ==
    /\ main = "signal"
    /\ sem' = Signal
    /\ main' = "idle"
    /\ UNCHANGED <<shutdown, list, state, loop, given, inits, workers>>

\* CJobPool::Add when the pool is shut down.
AddRefused(j) ==
    /\ main = "idle" /\ shutdown
    /\ given[j] = "no"
    /\ given' = [given EXCEPT ![j] = "refused"]
    /\ Aborted({j})
    /\ UNCHANGED <<shutdown, sem, list, main, cur, prev, inits, workers>>

\* IJob::Abort by the owner of the job.
AbortJob(j) ==
    /\ main = "idle"
    /\ j \in Abortable
    /\ Aborted({j})
    /\ UNCHANGED <<shutdown, sem, list, main, loop, given, inits, workers>>

\* CJobPool::Shutdown up to the loop over the queue.  (A worker that gets m_Lock
\* after m_Shutdown is set and before the loop could as well have got it before.)
Shutdown ==
    /\ main = "idle" /\ ~shutdown
    /\ shutdown' = TRUE
    /\ main' = "drain"
    /\ cur' = first /\ prev' = None
    /\ UNCHANGED <<sem, list, state, given, inits, workers>>

\* Mutants: the loop takes every job for the first, or leaves a stale end.
AlwaysFirst == next[cur]
LastStays == last

\* The first job once cur has left the queue, and the last when the loop is over.
FirstWithoutCur == IF prev = None THEN next[cur] ELSE first
LastLeft == prev

\* One turn of the loop: an abortable job is aborted and leaves the queue.
Drain ==
    /\ main = "drain" /\ cur # None
    /\ cur' = next[cur]
    /\ Aborted({cur})
    /\ IF cur \in Abortable
       THEN /\ next' = [j \in Job |-> CASE j = cur -> None
                                        [] j = prev -> next[cur]
                                        [] OTHER -> next[j]]
            /\ first' = FirstWithoutCur
            /\ UNCHANGED prev
       ELSE /\ prev' = cur
            /\ UNCHANGED <<first, next>>
    /\ UNCHANGED <<shutdown, sem, last, main, given, inits, workers>>

\* The end of the loop
Drained ==
    /\ main = "drain" /\ cur = None
    /\ last' = LastLeft
    /\ main' = "abort"
    /\ UNCHANGED <<shutdown, sem, first, next, state, loop, given, inits, workers>>

\* The jobs in m_RunningJobs are aborted.
AbortRunning ==
    /\ main = "abort"
    /\ Aborted(running)
    /\ main' = "wake"
    /\ UNCHANGED <<shutdown, sem, list, loop, given, inits, workers>>

\* All workers are woken.
Wake ==
    /\ main = "wake"
    /\ sem' = sem + Everyone
    /\ main' = "join"
    /\ UNCHANGED <<shutdown, list, state, loop, given, inits, workers>>

\* thread_wait for every worker
Join ==
    /\ main = "join"
    /\ \A w \in Worker : at[w] = "exited"
    /\ at' = [w \in Worker |-> "none"]
    /\ main' = "idle"
    /\ UNCHANGED <<shutdown, sem, list, state, loop, given, inits, job, running, runs>>

-----------------------------------------------------------------------------
(* A worker: CJobPool::RunLoop *)

Moves(w, from, to) == at[w] = from /\ at' = [at EXCEPT ![w] = to]

\* sphore_wait
Wait(w) ==
    /\ Moves(w, "wait", "fetch")
    /\ Signalled
    /\ sem' = sem - 1
    /\ UNCHANGED <<shutdown, list, state, main, loop, given, inits, job, running, runs>>

\* Mutant: the job stays at the head of the list.
FirstStays == first

SecondJob == next[first]

\* The first job is taken from the queue.
Fetch(w) ==
    /\ ~Locked /\ first # None
    /\ Moves(w, "fetch", "claim")
    /\ job' = [job EXCEPT ![w] = first]
    /\ first' = SecondJob
    /\ next' = [next EXCEPT ![first] = None]
    /\ last' = IF next[first] = None THEN None ELSE last
    /\ UNCHANGED <<shutdown, sem, state, main, loop, given, inits, running, runs>>

FetchNothing(w) ==
    /\ ~Locked /\ first = None
    /\ Moves(w, "fetch", "empty")
    /\ UNCHANGED <<shutdown, sem, list, state, main, loop, given, inits, job, running, runs>>

\* The worker ends only if the pool is being shut down.
Empty(w) ==
    /\ Moves(w, "empty", IF shutdown THEN "exited" ELSE "wait")
    /\ UNCHANGED <<shutdown, sem, list, state, main, loop, given, inits, job, running, runs>>

\* compare_exchange from QUEUED to RUNNING; an aborted job is dropped.
Claim(w) ==
    /\ at[w] = "claim"
    /\ IF state[job[w]] = "QUEUED"
       THEN /\ Moves(w, "claim", "enter")
            /\ state' = [state EXCEPT ![job[w]] = "RUNNING"]
            /\ UNCHANGED job
       ELSE /\ state[job[w]] = "ABORTED"
            /\ Moves(w, "claim", "wait")
            /\ job' = [job EXCEPT ![w] = None]
            /\ UNCHANGED state
    /\ UNCHANGED <<shutdown, sem, list, main, loop, given, inits, running, runs>>

\* The job is entered into m_RunningJobs.
Enter(w) ==
    /\ Moves(w, "enter", "run")
    /\ running' = running \cup {job[w]}
    /\ UNCHANGED <<shutdown, sem, list, state, main, loop, given, inits, job, runs>>

\* IJob::Run begins and, some time later, returns.
Run(w) ==
    /\ Moves(w, "run", "leave")
    /\ runs' = [runs EXCEPT ![job[w]] = @ + 1]
    /\ UNCHANGED <<shutdown, sem, list, state, main, loop, given, inits, job, running>>

Leave(w) ==
    /\ Moves(w, "leave", "finish")
    /\ running' = running \ {job[w]}
    /\ UNCHANGED <<shutdown, sem, list, state, main, loop, given, inits, job, runs>>

\* Mutant: an abort is overwritten.
DoneAlways(s) == "DONE"

\* compare_exchange from RUNNING to DONE
DoneIfRunning(s) == IF s = "RUNNING" THEN "DONE" ELSE s

Finish(w) ==
    /\ Moves(w, "finish", "wait")
    /\ state' = [state EXCEPT ![job[w]] = DoneIfRunning(@)]
    /\ job' = [job EXCEPT ![w] = None]
    /\ UNCHANGED <<shutdown, sem, list, main, loop, given, inits, running, runs>>

MainStep ==
    \/ InitPool \/ SignalJob \/ Shutdown \/ Drain \/ Drained \/ AbortRunning \/ Wake \/ Join
    \/ \E j \in Job : Add(j) \/ AddRefused(j) \/ AbortJob(j)

WorkerStep(w) ==
    \/ Wait(w) \/ Fetch(w) \/ FetchNothing(w) \/ Empty(w) \/ Claim(w)
    \/ Enter(w) \/ Run(w) \/ Leave(w) \/ Finish(w)

Next == MainStep \/ \E w \in Worker : WorkerStep(w)

Spec == Init /\ [][Next]_vars

-----------------------------------------------------------------------------
(* Safety *)

\* The list holds the jobs q[1] to q[n], each once.
Listed(n, q) ==
    /\ \A k, m \in 1 .. n : q[k] = q[m] => k = m
    /\ first = IF n = 0 THEN None ELSE q[1]
    /\ \A k \in 1 .. n : next[q[k]] = IF k = n THEN None ELSE q[k + 1]
    /\ ~Locked => last = IF n = 0 THEN None ELSE q[n]

In(j, n, q) == \E k \in 1 .. n : q[k] = j

\* The queue is a list without cycles that ends in m_pLastJob, and no job that is
\* still to be started has fallen out of it (Add, RunLoop, Shutdown).
QueueIntact ==
    \E n \in 0 .. Cardinality(Job) : \E q \in [1 .. n -> Job] :
        /\ Listed(n, q)
        /\ \A j \in Job :
              given[j] = "queued" /\ state[j] = "QUEUED" =>
                  In(j, n, q) \/ \E w \in Worker : job[w] = j

\* No job is with two workers or run twice, and the assertions of RunLoop on
\* the state of a job hold ("Job was reused", "must be either running or
\* aborted").
OneWorkerPerJob ==
    /\ \A v, w \in Worker : job[v] = job[w] /\ job[v] # None => v = w
    /\ \A j \in Job : runs[j] <= 1
    /\ \A w \in Worker :
          /\ at[w] = "claim" => state[job[w]] \in {"QUEUED", "ABORTED"}
          /\ at[w] = "finish" => state[job[w]] \in {"RUNNING", "ABORTED"}

\* When Shutdown has returned, all queued jobs have ended, and those that cannot
\* be aborted have been run to their end.
CompleteAfterShutdown ==
    main = "idle" /\ shutdown =>
        /\ running = {}
        /\ \A j \in Job : given[j] = "queued" =>
              Done(j) /\ (j \notin Abortable => state[j] = "DONE" /\ runs[j] = 1)

\* A job whose Abort was accepted stays aborted, whatever its worker is doing.
AbortSticks == [][\A j \in Job : state[j] = "ABORTED" => state'[j] = "ABORTED"]_vars

\* What Shutdown cannot abort is only what a worker had fetched before: once it
\* waits, an abortable job that is not done is with a worker, never in the queue.
AbortsReach ==
    main \in {"abort", "wake", "join"} =>
        \A j \in Abortable : given[j] = "queued" =>
            Done(j) \/ \E w \in Worker : job[w] = j

-----------------------------------------------------------------------------
(* The inductive invariant behind QueueIntact, OneWorkerPerJob,                 *)
(* CompleteAfterShutdown and AbortsReach                                         *)

\* A worker has a job from Fetch to Claim or Finish, and the job is as far as
\* the worker.
HasJob(w) == at[w] \in {"claim", "enter", "run", "leave", "finish"}

WorkersOK ==
    /\ \A w \in Worker :
          /\ job[w] # None <=> HasJob(w)
          /\ HasJob(w) => given[job[w]] = "queued"
          /\ at[w] = "claim" => state[job[w]] \in {"QUEUED", "ABORTED"} /\ runs[job[w]] = 0
          /\ at[w] \in {"enter", "run"} =>
                state[job[w]] \in {"RUNNING", "ABORTED"} /\ runs[job[w]] = 0
          /\ at[w] \in {"leave", "finish"} =>
                state[job[w]] \in {"RUNNING", "ABORTED"} /\ runs[job[w]] = 1
    /\ \A v, w \in Worker : job[v] = job[w] /\ job[v] # None => v = w
    /\ \A j \in Job : j \in running <=> \E w \in Worker : job[w] = j /\ at[w] \in {"run", "leave"}

\* A job that no worker has had has not been started.
JobsOK ==
    \A j \in Job :
        /\ given[j] # "queued" => state[j] \in {"QUEUED", "ABORTED"} /\ runs[j] = 0
        /\ state[j] = "RUNNING" => \E w \in Worker : job[w] = j
        /\ state[j] = "DONE" => runs[j] = 1
        /\ state[j] = "ABORTED" => j \in Abortable
        /\ runs[j] <= 1

\* What the main thread does, the flag and the workers go together.
MainOK ==
    /\ main = "signal" => ~shutdown
    /\ main \in {"drain", "abort", "wake", "join"} => shutdown
    /\ \A w \in Worker :
          /\ at[w] = "none" <=> main = "idle" /\ shutdown
          /\ at[w] \in {"empty", "exited"} => main \in {"abort", "wake", "join"}

Fetching == {w \in Worker : at[w] = "fetch"}

\* While the pool is up there is a signal, or a worker that has had one, for each
\* job in the list; a worker that found the list empty, or has gone, left nothing
\* behind; what the loop of Shutdown has passed cannot be aborted.
QueueOK(n, q) ==
    /\ Listed(n, q)
    /\ \A k \in 1 .. n :
          /\ given[q[k]] = "queued" /\ state[q[k]] \in {"QUEUED", "ABORTED"} /\ runs[q[k]] = 0
          /\ \A w \in Worker : job[w] # q[k]
    /\ \A j \in Job :
          /\ ~In(j, n, q) => next[j] = None
          /\ given[j] = "queued" /\ state[j] = "QUEUED" =>
                In(j, n, q) \/ \E w \in Worker : job[w] = j
    /\ ~shutdown =>
          n = sem + Cardinality(Fetching) + (IF main = "signal" THEN 1 ELSE 0)
    /\ (main = "idle" /\ shutdown) \/ (\E w \in Worker : at[w] \in {"empty", "exited"}) => n = 0
    /\ main = "drain" =>
          \E p \in 1 .. n + 1 :
              /\ cur = IF p = n + 1 THEN None ELSE q[p]
              /\ prev = IF p = 1 THEN None ELSE q[p - 1]
              /\ \A k \in 1 .. p - 1 : q[k] \notin Abortable
    /\ main \in {"abort", "wake", "join"} => \A k \in 1 .. n : q[k] \notin Abortable

Inductive ==
    /\ WorkersOK /\ JobsOK /\ MainOK
    /\ \E n \in 0 .. Cardinality(Job) : \E q \in [1 .. n -> Job] : QueueOK(n, q)

-----------------------------------------------------------------------------
(* Liveness *)

\* Every thread goes on while it can, and every job returns from Run.  Nobody
\* has to initialise the pool, use it or shut it down.
Fairness ==
    /\ WF_vars(SignalJob \/ Drain \/ Drained \/ AbortRunning \/ Wake \/ Join)
    /\ \A w \in Worker : WF_vars(WorkerStep(w))

FairSpec == Spec /\ Fairness

\* Shutdown returns: no worker sleeps through it.
ShutdownReturns == main # "idle" ~> main = "idle"

\* A job that was queued is done some time or other.
JobEnds == \A j \in Job : given[j] = "queued" ~> Done(j)

=============================================================================
