----------------------------- MODULE JobsProofs -----------------------------
(***************************************************************************)
(* Proofs about Jobs, for every set of jobs and of workers: the invariant  *)
(* Inductive, and what follows from it, that the list of waiting jobs is   *)
(* never broken, that no job is with two workers or run twice, and that    *)
(* Shutdown aborts what it can and leaves no job behind.                   *)
(***************************************************************************)
EXTENDS Jobs, TLAPS, FiniteSetTheorems

LEMMA TypeStep ==
    ASSUME TypeOK, WorkersOK, [Next]_vars
    PROVE  TypeOK'
<1> USE DEF TypeOK
<1>1. CASE UNCHANGED vars
  BY <1>1 DEF vars, list, loop, workers
<1>2. CASE InitPool
  <2>1. at' \in [Worker -> WorkerAt]
    BY <1>2 DEF InitPool, WorkerAt
  <2>2. UNCHANGED <<next, state, main, cur, prev, given, job, running, runs>>
    BY <1>2 DEF InitPool, loop
  <2>3. sem' \in Nat /\ first' \in Pointer /\ last' \in Pointer /\ inits' \in Nat
    BY <1>2 DEF InitPool, Pointer
  <2>4. shutdown' \in BOOLEAN
    BY <1>2, Zenon DEF InitPool
  <2> QED
    BY <2>1, <2>2, <2>3, <2>4
<1>3. CASE SignalJob
  BY <1>3 DEF SignalJob, list, loop, workers, MainAt, Signal
<1>9. CASE Shutdown
  BY <1>9 DEF Shutdown, list, workers, MainAt, Pointer
<1>10. CASE AbortRunning
  <2>1. state' \in [Job -> JobState]
    BY <1>10 DEF AbortRunning, Aborted, JobState
  <2> QED
    BY <1>10, <2>1 DEF AbortRunning, list, loop, workers, MainAt
<1>4. CASE Drain
  <2>1. cur \in Job /\ next[cur] \in Pointer
    BY <1>4 DEF Drain, Pointer
  <2>2. state' \in [Job -> JobState]
    BY <1>4 DEF Drain, Aborted, JobState
  <2>3. next' \in [Job -> Pointer] /\ first' \in Pointer /\ prev' \in Pointer
    BY <1>4, <2>1 DEF Drain, Pointer, FirstWithoutCur
  <2> QED
    BY <1>4, <2>1, <2>2, <2>3 DEF Drain, list, loop, workers
<1>5. CASE Drained \/ Join
  BY <1>5 DEF Drained, Join, list, loop, workers, Pointer, MainAt, WorkerAt, LastLeft
<1>6. CASE Wake
  <2>1. Everyone \in Nat
    BY JobsAssumption, FS_CardinalityType DEF Everyone
  <2> QED
    BY <1>6, <2>1 DEF Wake, list, loop, workers, MainAt
<1>7. CASE \E j \in Job : Add(j) \/ AddRefused(j) \/ AbortJob(j)
  BY <1>7 DEF Add, AddRefused, AbortJob, Aborted, JobState, Pointer, MainAt, list, loop, workers
<1>8. ASSUME NEW w \in Worker, WorkerStep(w)
      PROVE  TypeOK'
  <2>1. CASE Wait(w) \/ FetchNothing(w) \/ Empty(w)
    BY <2>1 DEF Wait, FetchNothing, Empty, Moves, WorkerAt, Signalled, list, loop, workers
  <2>2. CASE Fetch(w)
    BY <2>2 DEF Fetch, Moves, WorkerAt, Pointer, SecondJob, list, loop, workers
  <2>3. CASE Claim(w) \/ Finish(w)
    BY <2>3 DEF Claim, Finish, Moves, WorkerAt, Pointer, JobState, DoneIfRunning, list, loop, workers
  <2>4. CASE Enter(w)
    <3>1. job[w] \in Job
      BY <2>4 DEF Enter, Moves, WorkersOK, HasJob, Pointer
    <3> QED
      BY <2>4, <3>1 DEF Enter, Moves, WorkerAt, Pointer, list, loop, workers
  <2>5. CASE Run(w) \/ Leave(w)
    BY <2>5 DEF Run, Leave, Moves, WorkerAt, list, loop, workers
  <2> QED
    BY <1>8, <2>1, <2>2, <2>3, <2>4, <2>5 DEF WorkerStep
<1> QED
  BY <1>1, <1>2, <1>3, <1>4, <1>5, <1>6, <1>7, <1>8, <1>9, <1>10 DEF Next, MainStep

\* What a worker finds when it takes the first job.
LEMMA FirstIsFresh ==
    ASSUME TypeOK, Inductive, first # None, ~Locked
    PROVE  /\ first \in Job
           /\ given[first] = "queued" /\ state[first] \in {"QUEUED", "ABORTED"} /\ runs[first] = 0
           /\ \A w \in Worker : job[w] # first
<1>a. PICK n \in 0 .. Cardinality(Job) : \E q \in [1 .. n -> Job] : QueueOK(n, q)
  BY DEF Inductive
<1>1. PICK q \in [1 .. n -> Job] : QueueOK(n, q)
  BY <1>a
<1>2. n \in Nat
  BY JobsAssumption, FS_CardinalityType
<1>3. n # 0 /\ first = q[1] /\ 1 \in 1 .. n
  BY <1>1, <1>2 DEF QueueOK, Listed
<1> QED
  BY <1>1, <1>2, <1>3 DEF QueueOK

LEMMA FetchingFinite ==
    /\ IsFiniteSet(Fetching) /\ Cardinality(Fetching) \in Nat
    /\ Fetching # {} => Cardinality(Fetching) > 0
<1>1. Fetching \in SUBSET Worker
  BY DEF Fetching
<1>2. IsFiniteSet(Fetching)
  BY <1>1, JobsAssumption, FS_Subset
<1>3. Cardinality(Fetching) \in Nat /\ (Cardinality(Fetching) = 0 => Fetching = {})
  BY <1>2, FS_CardinalityType, FS_EmptySet
<1> QED
  BY <1>2, <1>3

\* A worker finds the list empty only while the pool is being shut down.
LEMMA EmptyAtShutdown ==
    ASSUME TypeOK, Inductive, NEW w \in Worker, FetchNothing(w)
    PROVE  main \in {"abort", "wake", "join"}
<1>a. PICK n \in 0 .. Cardinality(Job) : \E q \in [1 .. n -> Job] : QueueOK(n, q)
  BY DEF Inductive
<1>1. PICK q \in [1 .. n -> Job] : QueueOK(n, q)
  BY <1>a
<1>2. n \in Nat
  BY JobsAssumption, FS_CardinalityType
<1>3. at[w] = "fetch" /\ first = None /\ main # "drain"
  BY DEF FetchNothing, Moves, Locked
<1>4. n = 0
  <2>1. n # 0 => q[1] \in Job
    BY <1>2
  <2> QED
    BY <1>1, <1>3, <2>1, JobsAssumption DEF QueueOK, Listed
<1>5. Cardinality(Fetching) \in Nat /\ Cardinality(Fetching) > 0
  BY <1>3, FetchingFinite DEF Fetching
<1>6. shutdown
  BY <1>1, <1>4, <1>5 DEF QueueOK, TypeOK
<1> QED
  BY <1>3, <1>6 DEF Inductive, MainOK, TypeOK, MainAt

-----------------------------------------------------------------------------
(* What the workers, the jobs and the main thread know of each other *)

\* Aborting queued or running jobs disturbs no worker.
LEMMA AbortKeepsWorkers ==
    ASSUME TypeOK, WorkersOK, NEW S, Aborted(S), UNCHANGED workers,
           \A j \in Job : given[j] = "queued" => given'[j] = "queued"
    PROVE  WorkersOK'
<1>1. UNCHANGED <<at, job, running, runs>>
  BY DEF workers
<1>2. \A w \in Worker : HasJob(w)' <=> HasJob(w)
  BY <1>1 DEF HasJob
<1>3. \A w \in Worker : HasJob(w) => job[w] \in Job
  BY DEF WorkersOK, TypeOK, Pointer
<1>4. \A j \in Job : state'[j] = state[j] \/ state'[j] = "ABORTED"
  BY DEF Aborted
<1> QED
  BY <1>1, <1>2, <1>3, <1>4 DEF WorkersOK, HasJob

LEMMA WorkersStep ==
    ASSUME TypeOK, Inductive, [Next]_vars
    PROVE  WorkersOK'
<1> USE DEF TypeOK
<1>0. WorkersOK
  BY DEF Inductive
<1>1. CASE UNCHANGED <<state, given, workers>>
  BY <1>0, <1>1 DEF WorkersOK, HasJob, workers
<1>2. CASE \E S : Aborted(S) /\ UNCHANGED workers /\ \A j \in Job : given[j] = "queued" => given'[j] = "queued"
  BY <1>0, <1>2, AbortKeepsWorkers
<1>3. CASE Drain \/ AbortRunning \/ \E j \in Job : AddRefused(j) \/ AbortJob(j)
  BY <1>2, <1>3 DEF Drain, AbortRunning, AddRefused, AbortJob
<1>4. CASE SignalJob \/ Shutdown \/ Drained \/ Wake \/ UNCHANGED vars
  BY <1>1, <1>4 DEF SignalJob, Shutdown, Drained, Wake, vars
<1>5. CASE \E j \in Job : Add(j)
  BY <1>0, <1>5 DEF Add, WorkersOK, HasJob, workers, Pointer
<1>6. CASE InitPool
  BY <1>0, <1>6 DEF InitPool, WorkersOK, HasJob, Inductive, MainOK
<1>7. CASE Join
  BY <1>0, <1>7 DEF Join, WorkersOK, HasJob
<1>8. ASSUME NEW w \in Worker, WorkerStep(w)
      PROVE  WorkersOK'
  <2> USE <1>0
  <2>1. CASE Wait(w)
    BY <2>1 DEF Wait, Moves, WorkersOK, HasJob
  <2>2. CASE Fetch(w)
    <3>1. /\ first \in Job
          /\ given[first] = "queued" /\ state[first] \in {"QUEUED", "ABORTED"} /\ runs[first] = 0
          /\ \A v \in Worker : job[v] # first
      BY <2>2, FirstIsFresh DEF Fetch
    <3> QED
      BY <2>2, <3>1, JobsAssumption DEF Fetch, Moves, WorkersOK, HasJob
  <2>3. CASE FetchNothing(w)
    BY <2>3 DEF FetchNothing, Moves, WorkersOK, HasJob
  <2>4. CASE Empty(w)
    BY <2>4 DEF Empty, Moves, WorkersOK, HasJob
  <2>5. CASE Claim(w)
    BY <2>5 DEF Claim, Moves, WorkersOK, HasJob, Pointer
  <2>6. CASE Enter(w)
    BY <2>6 DEF Enter, Moves, WorkersOK, HasJob, Pointer
  <2>7. CASE Run(w)
    BY <2>7 DEF Run, Moves, WorkersOK, HasJob, Pointer
  <2>8. CASE Leave(w)
    BY <2>8 DEF Leave, Moves, WorkersOK, HasJob, Pointer
  <2>9. CASE Finish(w)
    BY <2>9 DEF Finish, Moves, WorkersOK, HasJob, Pointer, DoneIfRunning
  <2> QED
    BY <1>8, <2>1, <2>2, <2>3, <2>4, <2>5, <2>6, <2>7, <2>8, <2>9 DEF WorkerStep
<1> QED
  BY <1>3, <1>4, <1>5, <1>6, <1>7, <1>8 DEF Next, MainStep

LEMMA MainOKStep ==
    ASSUME TypeOK, Inductive, [Next]_vars
    PROVE  MainOK'
<1> USE DEF TypeOK
<1>0. MainOK /\ WorkersOK
  BY DEF Inductive
<1>1. CASE UNCHANGED <<main, shutdown, at>>
  BY <1>0, <1>1 DEF MainOK
<1>2. CASE InitPool
  BY <1>0, <1>2 DEF InitPool, MainOK
<1>3. CASE Join
  BY <1>0, <1>3 DEF Join, MainOK
<1>4. CASE SignalJob \/ Shutdown \/ Drained \/ AbortRunning \/ Wake
  BY <1>0, <1>4 DEF SignalJob, Shutdown, Drained, AbortRunning, Wake, MainOK, workers
<1>5. CASE Drain \/ \E j \in Job : AddRefused(j) \/ AbortJob(j)
  BY <1>1, <1>5 DEF Drain, AddRefused, AbortJob, workers
<1>6. CASE \E j \in Job : Add(j)
  BY <1>0, <1>6 DEF Add, MainOK, workers
<1>7. ASSUME NEW w \in Worker, WorkerStep(w)
      PROVE  MainOK'
  <2> USE <1>0
  <2>1. CASE FetchNothing(w)
    <3>1. main \in {"abort", "wake", "join"}
      BY <2>1, EmptyAtShutdown
    <3> QED
      BY <2>1, <3>1 DEF FetchNothing, Moves, MainOK
  <2>2. CASE Empty(w)
    BY <2>2 DEF Empty, Moves, MainOK
  <2>3. CASE Wait(w) \/ Fetch(w)
    BY <2>3 DEF Wait, Fetch, Moves, MainOK
  <2>4. CASE Claim(w) \/ Finish(w)
    BY <2>4 DEF Claim, Finish, Moves, MainOK
  <2>5. CASE Enter(w) \/ Run(w) \/ Leave(w)
    BY <2>5 DEF Enter, Run, Leave, Moves, MainOK
  <2> QED
    BY <1>7, <2>1, <2>2, <2>3, <2>4, <2>5 DEF WorkerStep
<1>8. CASE UNCHANGED vars
  BY <1>1, <1>8 DEF vars, workers
<1> QED
  BY <1>2, <1>3, <1>4, <1>5, <1>6, <1>7, <1>8 DEF Next, MainStep

LEMMA JobsOKStep ==
    ASSUME TypeOK, Inductive, [Next]_vars
    PROVE  JobsOK'
<1> USE DEF TypeOK
<1>0. JobsOK /\ WorkersOK
  BY DEF Inductive
<1>1. CASE UNCHANGED <<given, state, runs, job>>
  BY <1>0, <1>1 DEF JobsOK
<1>2. CASE \E S : Aborted(S) /\ UNCHANGED <<given, runs, job>>
  BY <1>0, <1>2, JobsAssumption DEF JobsOK, Aborted
<1>3. CASE InitPool \/ SignalJob \/ Shutdown \/ Drained \/ Wake \/ Join \/ UNCHANGED vars
  BY <1>1, <1>3 DEF InitPool, SignalJob, Shutdown, Drained, Wake, Join, vars, workers
<1>4. CASE Drain \/ AbortRunning \/ \E j \in Job : AbortJob(j)
  BY <1>2, <1>4 DEF Drain, AbortRunning, AbortJob, workers
<1>5. ASSUME NEW j \in Job, Add(j)
      PROVE  JobsOK'
  BY <1>0, <1>5 DEF Add, JobsOK, workers
<1>6. ASSUME NEW j \in Job, AddRefused(j)
      PROVE  JobsOK'
  BY <1>0, <1>6, JobsAssumption DEF AddRefused, Aborted, JobsOK, workers
<1>7. ASSUME NEW w \in Worker, WorkerStep(w)
      PROVE  JobsOK'
  <2> USE <1>0
  <2>1. CASE Wait(w) \/ FetchNothing(w) \/ Empty(w) \/ Enter(w) \/ Leave(w)
    BY <1>1, <2>1 DEF Wait, FetchNothing, Empty, Enter, Leave
  <2>2. CASE Fetch(w)
    <3>1. at[w] = "fetch" /\ job[w] \notin Job
      BY <2>2, JobsAssumption DEF Fetch, Moves, WorkersOK, HasJob, Pointer
    <3> QED
      BY <2>2, <3>1 DEF Fetch, JobsOK
  <2>3. CASE Claim(w)
    BY <2>3, JobsAssumption DEF Claim, Moves, JobsOK, WorkersOK, HasJob, Pointer
  <2>4. CASE Run(w)
    BY <2>4, JobsAssumption DEF Run, Moves, JobsOK, WorkersOK, HasJob, Pointer
  <2>5. CASE Finish(w)
    BY <2>5, JobsAssumption DEF Finish, Moves, JobsOK, WorkersOK, HasJob, Pointer, DoneIfRunning
  <2> QED
    BY <1>7, <2>1, <2>2, <2>3, <2>4, <2>5 DEF WorkerStep
<1> QED
  BY <1>3, <1>4, <1>5, <1>6, <1>7 DEF Next, MainStep

-----------------------------------------------------------------------------
(* The queue *)

SomeQueue == \E n \in 0 .. Cardinality(Job) : \E q \in [1 .. n -> Job] : QueueOK(n, q)

\* The steps of the main thread that leave the list as it is.
LEMMA MainLeavesQueue ==
    ASSUME TypeOK, WorkersOK, MainOK, NEW n \in Nat, NEW q \in [1 .. n -> Job], QueueOK(n, q),
           \/ SignalJob \/ Shutdown \/ Drained \/ AbortRunning \/ Wake \/ Join
           \/ \E j \in Job : AddRefused(j) \/ AbortJob(j)
           \/ UNCHANGED vars
    PROVE  QueueOK(n, q)'
<1> USE DEF TypeOK
<1>1. \A k \in 1 .. n : q[k] \in Job /\ q[k] # None
  BY JobsAssumption
<1>2. CASE UNCHANGED vars
  <2>1. Fetching' = Fetching
    BY <1>2 DEF vars, workers, Fetching
  <2> QED
    BY <1>2, <2>1 DEF vars, list, loop, workers, QueueOK, Listed, In, Locked
<1>3. CASE SignalJob
  <2>1. Fetching' = Fetching /\ Cardinality(Fetching) \in Nat
    BY <1>3, FetchingFinite DEF SignalJob, workers, Fetching
  <2> QED
    BY <1>3, <2>1 DEF SignalJob, list, loop, workers, QueueOK, Listed, In, Locked, MainOK, Signal
<1>4. CASE Shutdown
  <2>1. n > 0 => 1 \in 1 .. n
    OBVIOUS
  <2>2. cur' = IF 1 = n + 1 THEN None ELSE q[1]
    BY <1>4 DEF Shutdown, QueueOK, Listed
  <2>3. \E p \in 1 .. n + 1 : /\ cur' = IF p = n + 1 THEN None ELSE q[p]
                              /\ prev' = IF p = 1 THEN None ELSE q[p - 1]
                              /\ \A k \in 1 .. p - 1 : q[k] \notin Abortable
    <3>1. 1 \in 1 .. n + 1 /\ \A k \in 1 .. 1 - 1 : q[k] \notin Abortable
      OBVIOUS
    <3> QED
      BY <1>4, <2>2, <3>1 DEF Shutdown
  <2> QED
    BY <1>4, <2>1, <2>3 DEF Shutdown, list, loop, workers, QueueOK, Listed, In, Locked, MainOK
<1>5. CASE Drained
  <2>1. (prev = IF n = 0 THEN None ELSE q[n]) /\ \A k \in 1 .. n : q[k] \notin Abortable
    <3>1. PICK p \in 1 .. n + 1 : /\ cur = IF p = n + 1 THEN None ELSE q[p]
                                  /\ prev = IF p = 1 THEN None ELSE q[p - 1]
                                  /\ \A k \in 1 .. p - 1 : q[k] \notin Abortable
      BY <1>5 DEF Drained, QueueOK
    <3>2. p = n + 1 /\ (p = 1 <=> n = 0) /\ p - 1 = n
      BY <1>1, <1>5, <3>1 DEF Drained
    <3> QED
      BY <3>1, <3>2
  <2> QED
    BY <1>5, <2>1 DEF Drained, list, loop, workers, QueueOK, Listed, In, Locked, MainOK, LastLeft
<1>6. CASE AbortRunning
  BY <1>6 DEF AbortRunning, Aborted, list, loop, workers, QueueOK, Listed, In, Locked, MainOK
<1>7. CASE Wake
  BY <1>7 DEF Wake, list, loop, workers, QueueOK, Listed, In, Locked, MainOK
<1>8. CASE Join
  BY <1>8, JobsAssumption DEF Join, list, loop, QueueOK, Listed, In, Locked, MainOK
<1>9. ASSUME NEW j \in Job, AddRefused(j)
      PROVE  QueueOK(n, q)'
  BY <1>9 DEF AddRefused, Aborted, list, loop, workers, QueueOK, Listed, In, Locked
<1>10. ASSUME NEW j \in Job, AbortJob(j)
       PROVE  QueueOK(n, q)'
  <2>1. Fetching' = Fetching
    BY <1>10 DEF AbortJob, workers, Fetching
  <2> QED
    BY <1>10, <2>1 DEF AbortJob, Aborted, list, loop, workers, QueueOK, Listed, In, Locked
<1> QED
  BY <1>2, <1>3, <1>4, <1>5, <1>6, <1>7, <1>8, <1>9, <1>10

\* The steps of a worker that leave the list as it is.
LEMMA WorkerLeavesQueue ==
    ASSUME TypeOK, Inductive, NEW n \in Nat, NEW q \in [1 .. n -> Job], QueueOK(n, q),
           NEW w \in Worker, WorkerStep(w), ~Fetch(w)
    PROVE  QueueOK(n, q)'
<1> USE DEF TypeOK
<1>0. WorkersOK /\ MainOK
  BY DEF Inductive
<1>1. \A k \in 1 .. n : q[k] \in Job /\ q[k] # None
  BY JobsAssumption
<1>2. CASE Wait(w)
  <2>1. Fetching' = Fetching \cup {w} /\ w \notin Fetching
    BY <1>2 DEF Wait, Moves, Fetching
  <2>2. Cardinality(Fetching') = Cardinality(Fetching) + 1 /\ Cardinality(Fetching) \in Nat
    BY <2>1, FetchingFinite, FS_AddElement, Zenon
  <2>3. /\ UNCHANGED <<shutdown, first, last, next, state, main, cur, prev, given, job, runs>>
        /\ sem' = sem - 1
        /\ \A v \in Worker : at'[v] \in {"empty", "exited"} => at[v] \in {"empty", "exited"}
    BY <1>2 DEF Wait, Moves, list, loop
  <2>4. ~shutdown => n = sem' + Cardinality(Fetching') + (IF main = "signal" THEN 1 ELSE 0)
    BY <2>2, <2>3 DEF QueueOK
  <2> QED
    BY <2>3, <2>4 DEF QueueOK, Listed, In, Locked
<1>3. CASE FetchNothing(w)
  <2>1. n = 0
    BY <1>1, <1>3 DEF FetchNothing, QueueOK, Listed
  <2>2. main \in {"abort", "wake", "join"}
    BY <1>3, EmptyAtShutdown
  <2> QED
    BY <1>0, <1>3, <2>1, <2>2 DEF FetchNothing, list, loop, QueueOK, Listed, In, Locked, MainOK
<1>4. CASE Empty(w)
  <2>1. n = 0 /\ shutdown
    BY <1>0, <1>4 DEF Empty, Moves, QueueOK, MainOK
  <2> QED
    BY <1>4, <2>1 DEF Empty, list, loop, QueueOK, Listed, In, Locked
<1>5. ASSUME Claim(w) \/ Enter(w) \/ Run(w) \/ Leave(w) \/ Finish(w)
      PROVE  QueueOK(n, q)'
  <2>1. /\ UNCHANGED <<shutdown, sem, first, last, next, main, cur, prev, given>>
        /\ at[w] \in {"claim", "enter", "run", "leave", "finish"}
        /\ \A v \in Worker : v # w => at'[v] = at[v] /\ job'[v] = job[v]
        /\ at'[w] \in {"wait", "enter", "run", "leave", "finish"}
        /\ job'[w] \in {job[w], None}
    BY <1>5 DEF Claim, Enter, Run, Leave, Finish, Moves, list, loop
  <2>2. Fetching' = Fetching
    BY <2>1 DEF Fetching
  <2>3. job[w] \in Job
    BY <1>0, <2>1 DEF WorkersOK, HasJob, Pointer
  <2>4. /\ \A j \in Job : j # job[w] => state'[j] = state[j] /\ runs'[j] = runs[j]
        /\ state'[job[w]] # "QUEUED" \/ (state'[job[w]] = state[job[w]] /\ job'[w] = job[w])
    BY <1>0, <1>5, <2>3 DEF Claim, Enter, Run, Leave, Finish, Moves, DoneIfRunning, WorkersOK
  <2>5. \A k \in 1 .. n : /\ q[k] # job[w]
                          /\ state'[q[k]] = state[q[k]] /\ runs'[q[k]] = runs[q[k]]
                          /\ \A v \in Worker : job'[v] # q[k]
    <3>1. \A k \in 1 .. n : \A v \in Worker : job[v] # q[k]
      BY DEF QueueOK
    <3> QED
      BY <1>1, <2>1, <2>4, <3>1
  <2>6. Listed(n, q)'
    BY <2>1 DEF QueueOK, Listed, Locked
  <2>7. \A j \in Job : given[j] = "queued" /\ state'[j] = "QUEUED" =>
            In(j, n, q) \/ \E v \in Worker : job'[v] = j
    <3>1. SUFFICES ASSUME NEW j \in Job, given[j] = "queued", state'[j] = "QUEUED", ~In(j, n, q)
                   PROVE  \E v \in Worker : job'[v] = j
      OBVIOUS
    <3>2. state[j] = "QUEUED" /\ (j = job[w] => job'[w] = job[w])
      BY <2>4, <3>1
    <3>3. PICK v \in Worker : job[v] = j
      BY <3>1, <3>2 DEF QueueOK
    <3> QED
      BY <2>1, <3>2, <3>3
  <2> QED
    BY <2>1, <2>2, <2>5, <2>6, <2>7 DEF QueueOK, In
<1> QED
  BY <1>2, <1>3, <1>4, <1>5 DEF WorkerStep

LEMMA InitPoolQueue ==
    ASSUME TypeOK, MainOK, NEW n \in Nat, NEW q \in [1 .. n -> Job], QueueOK(n, q), InitPool
    PROVE  QueueOK(n, q)'
<1>1. n = 0
  BY DEF InitPool, QueueOK
<1>2. Cardinality(Fetching') = 0
  <2>1. Fetching' = {}
    BY DEF InitPool, Fetching
  <2> QED
    BY <2>1, FS_EmptySet
<1>3. main' = "idle" /\ sem' = 0
  BY DEF InitPool
<1> QED
  BY <1>1, <1>2, <1>3 DEF InitPool, QueueOK, Listed, In, Locked, TypeOK

\* Add appends the job.
LEMMA AddQueue ==
    ASSUME TypeOK, WorkersOK, JobsOK, MainOK,
           NEW n \in 0 .. Cardinality(Job), NEW q \in [1 .. n -> Job], QueueOK(n, q),
           NEW j \in Job, Add(j)
    PROVE  SomeQueue'
<1> DEFINE r == [k \in 1 .. n + 1 |-> IF k = n + 1 THEN j ELSE q[k]]
<1>0. n \in Nat /\ Cardinality(Job) \in Nat
  BY JobsAssumption, FS_CardinalityType
<1>1. \A k \in 1 .. n : q[k] \in Job /\ q[k] # None /\ q[k] # j
  BY JobsAssumption DEF Add, QueueOK
<1>2. r \in [1 .. n + 1 -> Job]
  BY <1>0
<1>5. /\ r[n + 1] = j /\ \A k \in 1 .. n : r[k] = q[k]
      /\ \A k \in 1 .. n + 1 : k = n + 1 \/ k \in 1 .. n
  BY <1>0
<1> HIDE DEF r
<1>3. \A k, m \in 1 .. n + 1 : r[k] = r[m] => k = m
  BY <1>1, <1>5 DEF QueueOK, Listed
<1>4. n + 1 \in 0 .. Cardinality(Job)
  <2>1. r \in Injection(1 .. n + 1, Job)
    BY <1>2, <1>3 DEF Injection, IsInjective
  <2>2. Cardinality(1 .. n + 1) <= Cardinality(Job)
    BY <2>1, JobsAssumption, FS_Injection
  <2>3. Cardinality(1 .. n + 1) = n + 1
    BY <1>0, FS_Interval
  <2> QED
    BY <1>0, <2>2, <2>3
<1>6. /\ main = "idle" /\ ~shutdown /\ main' = "signal" /\ last' = j
      /\ next' = IF last = None THEN next ELSE [next EXCEPT ![last] = j]
      /\ first' = IF first = None THEN j ELSE first
      /\ UNCHANGED <<shutdown, sem, state, at, job, runs>>
      /\ given' = [given EXCEPT ![j] = "queued"]
      /\ given[j] = "no" /\ state[j] \in {"QUEUED", "ABORTED"} /\ runs[j] = 0
      /\ \A w \in Worker : job[w] # j
  BY JobsAssumption DEF Add, workers, JobsOK, WorkersOK
<1>7. next[j] = None
  BY <1>1 DEF QueueOK, In
<1>8. first' = r[1] /\ \A k \in 1 .. n + 1 : next'[r[k]] = IF k = n + 1 THEN None ELSE r[k + 1]
  <2>1. CASE n = 0
    <3>1. first' = j /\ next' = next
      BY <1>6, <2>1, JobsAssumption DEF QueueOK, Listed, Locked
    <3> QED
      BY <1>5, <1>7, <2>1, <3>1
  <2>2. CASE n # 0
    <3>1. /\ 1 \in 1 .. n /\ n \in 1 .. n
          /\ first = q[1] /\ last = q[n]
      BY <1>0, <1>6, <2>2 DEF QueueOK, Listed, Locked
    <3>2. first' = q[1] /\ next' = [next EXCEPT ![q[n]] = j]
      BY <1>1, <1>6, <3>1
    <3>3. \A k \in 1 .. n - 1 : k \in 1 .. n /\ k + 1 \in 1 .. n /\ next'[q[k]] = q[k + 1]
      BY <1>0, <1>1, <3>1, <3>2 DEF QueueOK, Listed, TypeOK
    <3>4. next'[q[n]] = j /\ next'[j] = None
      BY <1>1, <1>7, <3>1, <3>2 DEF TypeOK
    <3>5. \A k \in 1 .. n + 1 : k = n + 1 \/ k = n \/ k \in 1 .. n - 1
      BY <1>0
    <3> QED
      BY <1>0, <1>5, <3>1, <3>2, <3>3, <3>4, <3>5
  <2> QED
    BY <2>1, <2>2
<1>9. Listed(n + 1, r)'
  BY <1>0, <1>3, <1>5, <1>6, <1>8 DEF Listed
<1>10. \A i \in Job : In(i, n + 1, r) <=> In(i, n, q) \/ i = j
  BY <1>0, <1>5 DEF In
<1>11. \A i \in Job : ~In(i, n + 1, r) => next'[i] = None
  <2>1. SUFFICES ASSUME NEW i \in Job, ~In(i, n + 1, r)
                 PROVE  next'[i] = None
    OBVIOUS
  <2>2. i # j /\ next[i] = None /\ ~In(i, n, q)
    BY <1>10, <2>1 DEF QueueOK
  <2>3. last # None => i # last
    BY <1>0, <1>6, <2>2 DEF QueueOK, Listed, Locked, In
  <2> QED
    BY <1>6, <2>2, <2>3 DEF TypeOK
<1>12. \A k \in 1 .. n + 1 :
          /\ given'[r[k]] = "queued" /\ state'[r[k]] \in {"QUEUED", "ABORTED"} /\ runs'[r[k]] = 0
          /\ \A w \in Worker : job'[w] # r[k]
  BY <1>1, <1>5, <1>6 DEF QueueOK, TypeOK
<1>13. ~shutdown' => n + 1 = sem' + Cardinality(Fetching') + (IF main' = "signal" THEN 1 ELSE 0)
  <2>1. Fetching' = Fetching
    BY <1>6 DEF Fetching
  <2> QED
    BY <1>6, <2>1, FetchingFinite DEF QueueOK, TypeOK
<1>14. \A i \in Job : given'[i] = "queued" /\ state'[i] = "QUEUED" =>
          In(i, n + 1, r) \/ \E w \in Worker : job'[w] = i
  BY <1>6, <1>10 DEF QueueOK, TypeOK
<1>15. ~((main' = "idle" /\ shutdown') \/ (\E w \in Worker : at'[w] \in {"empty", "exited"}))
  BY <1>6 DEF MainOK
<1>16. QueueOK(n + 1, r)'
  BY <1>6, <1>9, <1>11, <1>12, <1>13, <1>14, <1>15 DEF QueueOK
<1> QED
  BY <1>2, <1>4, <1>16 DEF SomeQueue

\* A worker takes the first job.
LEMMA FetchQueue ==
    ASSUME TypeOK, WorkersOK, MainOK,
           NEW n \in 0 .. Cardinality(Job), NEW q \in [1 .. n -> Job], QueueOK(n, q),
           NEW w \in Worker, Fetch(w)
    PROVE  SomeQueue'
<1> DEFINE r == [k \in 1 .. n - 1 |-> q[k + 1]]
<1>0. n \in Nat /\ n > 0 /\ Cardinality(Job) \in Nat /\ n - 1 \in 0 .. Cardinality(Job)
  BY JobsAssumption, FS_CardinalityType DEF Fetch, QueueOK, Listed
<1>1. r \in [1 .. n - 1 -> Job]
  BY <1>0
<1>2. /\ \A k \in 1 .. n - 1 : r[k] = q[k + 1] /\ k + 1 \in 1 .. n /\ k + 1 # 1
      /\ \A k \in 1 .. n : k = 1 \/ k - 1 \in 1 .. n - 1
      /\ 1 \in 1 .. n
  BY <1>0
<1> HIDE DEF r
<1>3. \A k \in 1 .. n : q[k] \in Job /\ q[k] # None /\ (k # 1 => q[k] # q[1])
  BY <1>2, JobsAssumption DEF QueueOK, Listed
<1>4. /\ first = q[1] /\ ~Locked /\ ~Locked' /\ at[w] = "fetch"
      /\ first' = next[q[1]] /\ next' = [next EXCEPT ![q[1]] = None]
      /\ last' = IF next[q[1]] = None THEN None ELSE last
      /\ at' = [at EXCEPT ![w] = "claim"] /\ job' = [job EXCEPT ![w] = q[1]]
      /\ UNCHANGED <<shutdown, sem, state, main, given, runs>>
  BY <1>0 DEF Fetch, Moves, SecondJob, QueueOK, Listed, Locked
<1>5. Listed(n - 1, r)'
  <2>1. \A k, m \in 1 .. n - 1 : r[k] = r[m] => k = m
    BY <1>0, <1>2 DEF QueueOK, Listed
  <2>2. next[q[1]] = IF n - 1 = 0 THEN None ELSE r[1]
    BY <1>0, <1>2 DEF QueueOK, Listed
  <2>3. \A k \in 1 .. n - 1 : next'[r[k]] = IF k = n - 1 THEN None ELSE r[k + 1]
    <3>1. SUFFICES ASSUME NEW k \in 1 .. n - 1
                   PROVE  next'[r[k]] = IF k = n - 1 THEN None ELSE r[k + 1]
      OBVIOUS
    <3>2. next'[r[k]] = next[q[k + 1]]
      BY <1>2, <1>3, <1>4 DEF TypeOK
    <3>3. next[q[k + 1]] = IF k + 1 = n THEN None ELSE q[(k + 1) + 1]
      BY <1>2 DEF QueueOK, Listed
    <3>4. k # n - 1 => r[k + 1] = q[(k + 1) + 1]
      BY <1>0, <1>2
    <3> QED
      BY <1>0, <3>2, <3>3, <3>4
  <2>4. last' = IF n - 1 = 0 THEN None ELSE r[n - 1]
    <3>1. last = q[n]
      BY <1>0, <1>4 DEF QueueOK, Listed
    <3>2. n - 1 # 0 => r[n - 1] = q[n] /\ r[1] = q[2] /\ q[2] # None
      BY <1>0, <1>2, <1>3
    <3> QED
      BY <1>0, <1>4, <2>2, <3>1, <3>2
  <2> QED
    BY <1>4, <2>1, <2>2, <2>3, <2>4 DEF Listed
<1>6. \A i \in Job : In(i, n, q) => In(i, n - 1, r) \/ i = q[1]
  <2>1. SUFFICES ASSUME NEW k \in 1 .. n, k # 1
                 PROVE  \E m \in 1 .. n - 1 : r[m] = q[k]
    BY DEF In
  <2>2. k - 1 \in 1 .. n - 1 /\ (k - 1) + 1 = k
    BY <1>0, <2>1
  <2> QED
    BY <1>2, <2>2
<1>7. \A i \in Job : ~In(i, n - 1, r) => next'[i] = None
  BY <1>3, <1>4, <1>6 DEF QueueOK, TypeOK
<1>8. \A k \in 1 .. n - 1 :
          /\ given'[r[k]] = "queued" /\ state'[r[k]] \in {"QUEUED", "ABORTED"} /\ runs'[r[k]] = 0
          /\ \A v \in Worker : job'[v] # r[k]
  BY <1>2, <1>3, <1>4 DEF QueueOK, TypeOK
<1>9. \A i \in Job : given'[i] = "queued" /\ state'[i] = "QUEUED" =>
          In(i, n - 1, r) \/ \E v \in Worker : job'[v] = i
  <2>1. SUFFICES ASSUME NEW i \in Job, given[i] = "queued", state[i] = "QUEUED",
                        ~In(i, n - 1, r), i # q[1]
                 PROVE  \E v \in Worker : job'[v] = i
    BY <1>4 DEF TypeOK
  <2>2. PICK v \in Worker : job[v] = i
    BY <1>6, <2>1 DEF QueueOK
  <2>3. v # w
    BY <1>4, <2>1, <2>2, JobsAssumption DEF WorkersOK, HasJob
  <2> QED
    BY <1>4, <2>2, <2>3 DEF TypeOK
<1>10. ~shutdown' => n - 1 = sem' + Cardinality(Fetching') + (IF main' = "signal" THEN 1 ELSE 0)
  <2>1. Fetching' = Fetching \ {w} /\ w \in Fetching
    BY <1>4 DEF Fetching, TypeOK
  <2>2. Cardinality(Fetching') = Cardinality(Fetching) - 1
    BY <2>1, FetchingFinite, FS_RemoveElement, Zenon
  <2> QED
    BY <1>0, <1>4, <2>2, FetchingFinite DEF QueueOK, TypeOK
<1>11. (main' = "idle" /\ shutdown') \/ (\E v \in Worker : at'[v] \in {"empty", "exited"}) => n - 1 = 0
  BY <1>0, <1>4 DEF QueueOK, TypeOK
<1>12. main' \in {"abort", "wake", "join"} => \A k \in 1 .. n - 1 : r[k] \notin Abortable
  BY <1>2, <1>4 DEF QueueOK
<1>13. QueueOK(n - 1, r)'
  BY <1>4, <1>5, <1>7, <1>8, <1>9, <1>10, <1>11, <1>12 DEF QueueOK, Locked
<1> QED
  BY <1>0, <1>1, <1>13 DEF SomeQueue

\* Shutdown passes over a job that cannot be aborted ...
LEMMA DrainPasses ==
    ASSUME TypeOK, MainOK, NEW n \in Nat, NEW q \in [1 .. n -> Job], QueueOK(n, q),
           Drain, cur \notin Abortable
    PROVE  QueueOK(n, q)'
<1>1. \A k \in 1 .. n : q[k] \in Job /\ q[k] # None
  BY JobsAssumption
<1>2. /\ main = "drain" /\ cur # None /\ cur \in Job /\ shutdown
      /\ UNCHANGED <<shutdown, first, last, next, main, given, at, job, runs>>
      /\ cur' = next[cur] /\ prev' = cur /\ state' = state
  BY DEF Drain, list, workers, MainOK, TypeOK, Pointer, Aborted
<1>3. PICK p \in 1 .. n + 1 : /\ cur = IF p = n + 1 THEN None ELSE q[p]
                              /\ prev = IF p = 1 THEN None ELSE q[p - 1]
                              /\ \A k \in 1 .. p - 1 : q[k] \notin Abortable
  BY <1>2 DEF QueueOK
<1>4. p \in 1 .. n /\ p + 1 \in 1 .. n + 1 /\ p + 1 # 1 /\ (p + 1) - 1 = p
  BY <1>2, <1>3
<1>5. /\ cur' = IF p + 1 = n + 1 THEN None ELSE q[p + 1]
      /\ prev' = IF p + 1 = 1 THEN None ELSE q[(p + 1) - 1]
  BY <1>2, <1>3, <1>4 DEF QueueOK, Listed
<1>6. \A k \in 1 .. (p + 1) - 1 : q[k] \notin Abortable
  <2>1. \A k \in 1 .. (p + 1) - 1 : k = p \/ k \in 1 .. p - 1
    BY <1>4
  <2> QED
    BY <1>2, <1>3, <1>4, <2>1
<1> QED
  BY <1>2, <1>4, <1>5, <1>6, SMTT(20) DEF QueueOK, Listed, In, Locked, MainOK

\* ... and takes out one that can.
LEMMA DrainRemoves ==
    ASSUME TypeOK, MainOK,
           NEW n \in 0 .. Cardinality(Job), NEW q \in [1 .. n -> Job], QueueOK(n, q),
           Drain, cur \in Abortable
    PROVE  SomeQueue'
<1>0. n \in Nat /\ Cardinality(Job) \in Nat
  BY JobsAssumption, FS_CardinalityType
<1>1. \A k \in 1 .. n : q[k] \in Job /\ q[k] # None
  BY JobsAssumption
<1>2. /\ main = "drain" /\ Locked' /\ cur # None /\ cur \in Job /\ shutdown
      /\ UNCHANGED <<shutdown, main, given, at, job, runs, prev>>
      /\ cur' = next[cur]
      /\ first' = IF prev = None THEN next[cur] ELSE first
      /\ next' = [j \in Job |-> CASE j = cur -> None
                                  [] j = prev -> next[cur]
                                  [] OTHER -> next[j]]
      /\ \A j \in Job : state'[j] = IF j = cur THEN "ABORTED" ELSE state[j]
  BY DEF Drain, workers, MainOK, TypeOK, Pointer, Aborted, FirstWithoutCur, Locked
<1>3. PICK p \in 1 .. n + 1 : /\ cur = IF p = n + 1 THEN None ELSE q[p]
                              /\ prev = IF p = 1 THEN None ELSE q[p - 1]
                              /\ \A k \in 1 .. p - 1 : q[k] \notin Abortable
  BY <1>2 DEF QueueOK
<1>4. p \in 1 .. n /\ cur = q[p] /\ n > 0 /\ n - 1 \in 0 .. Cardinality(Job)
  BY <1>0, <1>2, <1>3
<1> DEFINE r == [k \in 1 .. n - 1 |-> IF k < p THEN q[k] ELSE q[k + 1]]
<1>5. r \in [1 .. n - 1 -> Job]
  BY <1>0, <1>4
<1>6. \A k \in 1 .. n - 1 : /\ k < p => r[k] = q[k] /\ k \in 1 .. n
                            /\ ~(k < p) => r[k] = q[k + 1] /\ k + 1 \in 1 .. n
                            /\ r[k] \in Job
  BY <1>0, <1>4
<1> HIDE DEF r
<1>7. \A k, m \in 1 .. n : q[k] = q[m] => k = m
  BY DEF QueueOK, Listed
<1>8. \A k \in 1 .. n - 1 : r[k] # q[p]
  BY <1>0, <1>4, <1>6, <1>7
<1>9. next[q[p]] = IF p = n THEN None ELSE r[p]
  BY <1>0, <1>4, <1>6 DEF QueueOK, Listed
<1>10. Listed(n - 1, r)'
  <2>1. \A k, m \in 1 .. n - 1 : r[k] = r[m] => k = m
    BY <1>0, <1>4, <1>6, <1>7
  <2>2. first' = IF n - 1 = 0 THEN None ELSE r[1]
    <3>1. CASE p = 1
      BY <1>0, <1>2, <1>3, <1>4, <1>9, <3>1
    <3>2. CASE p # 1
      <4>1. prev # None /\ first' = q[1] /\ 1 < p /\ 1 \in 1 .. n - 1
        BY <1>0, <1>1, <1>2, <1>3, <1>4, <3>2 DEF QueueOK, Listed
      <4> QED
        BY <1>0, <1>4, <1>6, <4>1
    <3> QED
      BY <3>1, <3>2
  <2>3. \A k \in 1 .. n - 1 : next'[r[k]] = IF k = n - 1 THEN None ELSE r[k + 1]
    <3>1. SUFFICES ASSUME NEW k \in 1 .. n - 1
                   PROVE  next'[r[k]] = IF k = n - 1 THEN None ELSE r[k + 1]
      OBVIOUS
    <3>2. next'[r[k]] = IF r[k] = prev THEN next[q[p]] ELSE next[r[k]]
      BY <1>2, <1>4, <1>6, <1>8
    <3>3. CASE k + 1 = p
      <4>1. r[k] = prev
        BY <1>0, <1>3, <1>4, <1>6, <3>3
      <4> QED
        BY <1>0, <1>4, <1>9, <3>2, <3>3, <4>1
    <3>4. CASE k + 1 < p
      <4>1. r[k] = q[k] /\ r[k + 1] = q[k + 1] /\ k # n - 1 /\ k \in 1 .. n /\ k # n
        BY <1>0, <1>4, <1>6, <3>4
      <4>2. r[k] # prev
        BY <1>0, <1>1, <1>3, <1>4, <1>7, <3>4, <4>1
      <4> QED
        BY <3>2, <4>1, <4>2 DEF QueueOK, Listed
    <3>5. CASE ~(k < p)
      <4>1. r[k] = q[k + 1] /\ k + 1 \in 1 .. n
        BY <1>6, <3>5
      <4>2. r[k] # prev
        BY <1>0, <1>1, <1>3, <1>4, <1>7, <3>5, <4>1
      <4>3. next[q[k + 1]] = IF k + 1 = n THEN None ELSE q[(k + 1) + 1]
        BY <4>1 DEF QueueOK, Listed
      <4>4. k # n - 1 => r[k + 1] = q[(k + 1) + 1]
        BY <1>0, <1>4, <1>6, <3>5
      <4> QED
        BY <1>0, <3>2, <4>1, <4>2, <4>3, <4>4
    <3> QED
      BY <1>0, <1>4, <3>3, <3>4, <3>5
  <2> QED
    BY <1>2, <2>1, <2>2, <2>3 DEF Listed
<1>11. \A i \in Job : In(i, n, q) => In(i, n - 1, r) \/ i = q[p]
  <2>1. SUFFICES ASSUME NEW k \in 1 .. n, k # p
                 PROVE  \E m \in 1 .. n - 1 : r[m] = q[k]
    BY DEF In
  <2>2. k < p => k \in 1 .. n - 1 /\ r[k] = q[k]
    BY <1>0, <1>4, <1>6
  <2>3. ~(k < p) => k - 1 \in 1 .. n - 1 /\ ~(k - 1 < p) /\ (k - 1) + 1 = k
    BY <1>0, <1>4, <2>1
  <2>4. ~(k < p) => r[k - 1] = q[k]
    BY <1>6, <2>3
  <2> QED
    BY <2>2, <2>3, <2>4
<1>12. \A i \in Job : ~In(i, n - 1, r) => next'[i] = None
  <2>1. SUFFICES ASSUME NEW i \in Job, ~In(i, n - 1, r), i # q[p]
                 PROVE  next'[i] = None
    <3>1. cur # prev
      BY <1>0, <1>1, <1>3, <1>4, <1>7
    <3>2. next'[cur] = None
      BY <1>2, <3>1
    <3> QED
      BY <1>4, <3>2
  <2>2. next[i] = None
    BY <1>11, <2>1 DEF QueueOK
  <2>3. i # prev
    <3>1. p # 1 => p - 1 \in 1 .. n - 1 /\ p - 1 < p
      BY <1>0, <1>4
    <3>2. p # 1 => r[p - 1] = prev
      BY <1>3, <1>6, <3>1
    <3> QED
      BY <1>3, <2>1, <3>1, <3>2, JobsAssumption DEF In
  <2> QED
    BY <1>2, <1>4, <2>1, <2>2, <2>3
<1>13. \A k \in 1 .. n - 1 :
          /\ given'[r[k]] = "queued" /\ state'[r[k]] \in {"QUEUED", "ABORTED"} /\ runs'[r[k]] = 0
          /\ \A v \in Worker : job'[v] # r[k]
  <2>1. SUFFICES ASSUME NEW k \in 1 .. n - 1
                 PROVE  /\ given[r[k]] = "queued" /\ state'[r[k]] \in {"QUEUED", "ABORTED"}
                        /\ runs[r[k]] = 0
                        /\ \A v \in Worker : job[v] # r[k]
    BY <1>2
  <2>2. PICK m \in 1 .. n : r[k] = q[m]
    BY <1>6
  <2>3. state'[r[k]] = state[r[k]]
    BY <1>2, <1>4, <1>6, <1>8
  <2> QED
    BY <2>2, <2>3 DEF QueueOK
<1>14. \A i \in Job : given'[i] = "queued" /\ state'[i] = "QUEUED" =>
          In(i, n - 1, r) \/ \E v \in Worker : job'[v] = i
  BY <1>2, <1>4, <1>11 DEF QueueOK
<1>15. /\ cur' = IF p = (n - 1) + 1 THEN None ELSE r[p]
       /\ prev' = IF p = 1 THEN None ELSE r[p - 1]
       /\ p \in 1 .. (n - 1) + 1
  <2>1. p # 1 => p - 1 \in 1 .. n - 1 /\ p - 1 < p
    BY <1>0, <1>4
  <2> QED
    BY <1>0, <1>2, <1>3, <1>4, <1>6, <1>9, <2>1
<1>16. \A k \in 1 .. p - 1 : r[k] \notin Abortable
  <2>1. \A k \in 1 .. p - 1 : k \in 1 .. n - 1 /\ k < p
    BY <1>0, <1>4
  <2> QED
    BY <1>3, <1>6, <2>1
<1>17. QueueOK(n - 1, r)'
  BY <1>2, <1>10, <1>12, <1>13, <1>14, <1>15, <1>16 DEF QueueOK, MainOK
<1> QED
  BY <1>4, <1>5, <1>17 DEF SomeQueue

-----------------------------------------------------------------------------
(* The theorems *)

LEMMA InductiveInit == Init => TypeOK /\ Inductive
<1> SUFFICES ASSUME Init
             PROVE  TypeOK /\ Inductive
  OBVIOUS
<1>1. TypeOK
  BY DEF Init, TypeOK, Pointer, JobState, MainAt, WorkerAt
<1>2. WorkersOK
  BY DEF Init, WorkersOK, HasJob
<1>3. JobsOK
  BY DEF Init, JobsOK
<1>4. MainOK
  BY DEF Init, MainOK
<1>5. Cardinality(Job) \in Nat /\ 0 \in 0 .. Cardinality(Job)
  BY JobsAssumption, FS_CardinalityType
<1> DEFINE q == [k \in 1 .. 0 |-> first]
<1>6. q \in [1 .. 0 -> Job]
  OBVIOUS
<1>7. QueueOK(0, q)
  BY DEF Init, QueueOK, Listed, In, Locked
<1> QED
  BY <1>1, <1>2, <1>3, <1>4, <1>5, <1>6, <1>7 DEF Inductive

LEMMA QueueStep ==
    ASSUME TypeOK, Inductive, [Next]_vars
    PROVE  SomeQueue'
<1>a. PICK n \in 0 .. Cardinality(Job) : \E q \in [1 .. n -> Job] : QueueOK(n, q)
  BY DEF Inductive
<1>b. PICK q \in [1 .. n -> Job] : QueueOK(n, q)
  BY <1>a
<1>c. n \in Nat
  BY JobsAssumption, FS_CardinalityType
<1>d. WorkersOK /\ JobsOK /\ MainOK
  BY DEF Inductive
<1>1. QueueOK(n, q)' => SomeQueue'
  BY DEF SomeQueue
<1>2. CASE InitPool
  BY <1>1, <1>2, <1>b, <1>c, <1>d, InitPoolQueue
<1>3. ASSUME NEW j \in Job, Add(j)
      PROVE  SomeQueue'
  BY <1>3, <1>b, <1>d, AddQueue
<1>4. CASE Drain /\ cur \in Abortable
  BY <1>4, <1>b, <1>d, DrainRemoves
<1>5. CASE Drain /\ cur \notin Abortable
  BY <1>1, <1>5, <1>b, <1>c, <1>d, DrainPasses
<1>6. ASSUME \/ SignalJob \/ Shutdown \/ Drained \/ AbortRunning \/ Wake \/ Join
             \/ \E j \in Job : AddRefused(j) \/ AbortJob(j)
             \/ UNCHANGED vars
      PROVE  SomeQueue'
  BY <1>1, <1>6, <1>b, <1>c, <1>d, MainLeavesQueue
<1>7. ASSUME NEW w \in Worker, Fetch(w)
      PROVE  SomeQueue'
  BY <1>7, <1>b, <1>d, FetchQueue
<1>8. ASSUME NEW w \in Worker, WorkerStep(w), ~Fetch(w)
      PROVE  SomeQueue'
  BY <1>1, <1>8, <1>b, <1>c, WorkerLeavesQueue
<1> QED
  BY <1>2, <1>3, <1>4, <1>5, <1>6, <1>7, <1>8 DEF Next, MainStep

LEMMA InductiveStep ==
    ASSUME TypeOK, Inductive, [Next]_vars
    PROVE  TypeOK' /\ Inductive'
<1>1. WorkersOK
  BY DEF Inductive
<1>2. WorkersOK' /\ JobsOK' /\ MainOK' /\ SomeQueue'
  BY WorkersStep, JobsOKStep, MainOKStep, QueueStep
<1> QED
  BY <1>1, <1>2, TypeStep DEF Inductive, SomeQueue

\* Every variable of the pool and of its jobs keeps its type.
THEOREM JobsTypeCorrect == Spec => []TypeOK
<1> QED
  BY InductiveInit, InductiveStep, PTL DEF Spec

\* The invariant the following theorems rest on.
THEOREM JobsInductive == Spec => []Inductive
<1> QED
  BY InductiveInit, InductiveStep, PTL DEF Spec

\* The linked list of CJobPool is never broken and loses no job, whatever Add, Shutdown
\* and the workers do to it.
THEOREM QueueIntactHolds == Spec => []QueueIntact
<1>1. Inductive => QueueIntact
  BY DEF Inductive, QueueOK, QueueIntact
<1> QED
  BY <1>1, JobsInductive, PTL

\* A job is with one worker and runs once, and the assertions of RunLoop hold.
THEOREM OneWorkerPerJobHolds == Spec => []OneWorkerPerJob
<1>1. TypeOK /\ Inductive => OneWorkerPerJob
  BY DEF Inductive, WorkersOK, JobsOK, OneWorkerPerJob
<1> QED
  BY <1>1, JobsTypeCorrect, JobsInductive, PTL

\* Shutdown returns with every queued job ended, the ones it cannot abort run to their end.
THEOREM CompleteAfterShutdownHolds == Spec => []CompleteAfterShutdown
<1>1. TypeOK /\ Inductive => CompleteAfterShutdown
  <2>1. SUFFICES ASSUME TypeOK, Inductive, main = "idle", shutdown
                 PROVE  /\ running = {}
                        /\ \A j \in Job : given[j] = "queued" =>
                              Done(j) /\ (j \notin Abortable => state[j] = "DONE" /\ runs[j] = 1)
    BY DEF CompleteAfterShutdown
  <2>2. \A w \in Worker : at[w] = "none" /\ job[w] = None
    BY <2>1 DEF Inductive, MainOK, WorkersOK, HasJob
  <2>3. running = {}
    BY <2>1, <2>2, JobsAssumption DEF Inductive, WorkersOK, TypeOK
  <2>4. ASSUME NEW j \in Job, given[j] = "queued"
        PROVE  Done(j) /\ (j \notin Abortable => state[j] = "DONE" /\ runs[j] = 1)
    <3>1. \A w \in Worker : job[w] # j
      BY <2>2, JobsAssumption
    <3>2. state[j] # "RUNNING"
      BY <2>1, <3>1 DEF Inductive, JobsOK
    <3>3. state[j] # "QUEUED"
      <4>1. PICK n \in 0 .. Cardinality(Job) : \E q \in [1 .. n -> Job] : QueueOK(n, q)
        BY <2>1 DEF Inductive
      <4>2. PICK q \in [1 .. n -> Job] : QueueOK(n, q)
        BY <4>1
      <4>3. n = 0
        BY <2>1, <4>2 DEF QueueOK
      <4> QED
        BY <2>4, <3>1, <4>2, <4>3 DEF QueueOK, In
    <3> QED
      BY <2>1, <3>2, <3>3 DEF Inductive, JobsOK, Done, TypeOK, JobState
  <2> QED
    BY <2>3, <2>4
<1> QED
  BY <1>1, JobsTypeCorrect, JobsInductive, PTL

\* What is left in the queue when Shutdown has gone through it cannot be aborted: an
\* abortable job that is not done then is with a worker.
THEOREM AbortsReachHolds == Spec => []AbortsReach
<1>1. TypeOK /\ Inductive => AbortsReach
  <2>1. SUFFICES ASSUME TypeOK, Inductive, main \in {"abort", "wake", "join"},
                        NEW j \in Abortable, given[j] = "queued", ~Done(j)
                 PROVE  \E w \in Worker : job[w] = j
    BY DEF AbortsReach
  <2>2. j \in Job
    BY JobsAssumption
  <2>3. CASE state[j] = "RUNNING"
    BY <2>1, <2>2, <2>3 DEF Inductive, JobsOK
  <2>4. CASE state[j] = "QUEUED"
    <3>1. PICK n \in 0 .. Cardinality(Job) : \E q \in [1 .. n -> Job] : QueueOK(n, q)
      BY <2>1 DEF Inductive
    <3>2. PICK q \in [1 .. n -> Job] : QueueOK(n, q)
      BY <3>1
    <3>3. ~In(j, n, q)
      BY <2>1, <3>2 DEF QueueOK, In
    <3> QED
      BY <2>1, <2>2, <2>4, <3>2, <3>3 DEF QueueOK
  <2> QED
    BY <2>1, <2>3, <2>4 DEF Done
<1> QED
  BY <1>1, JobsTypeCorrect, JobsInductive, PTL

\* An accepted abort is never undone, not even by the worker that runs the job.
THEOREM AbortSticksHolds == Spec => AbortSticks
<1>1. ASSUME TypeOK, Inductive, [Next]_vars
      PROVE  [\A j \in Job : state[j] = "ABORTED" => state'[j] = "ABORTED"]_vars
  <2> USE DEF TypeOK
  <2>1. SUFFICES ASSUME NEW j \in Job, state[j] = "ABORTED"
                 PROVE  state'[j] = "ABORTED"
    OBVIOUS
  <2>2. CASE state' = state
    BY <2>1, <2>2
  <2>3. CASE \E S : Aborted(S)
    BY <2>1, <2>3 DEF Aborted
  <2>4. ASSUME NEW w \in Worker, WorkerStep(w)
        PROVE  state'[j] = "ABORTED"
    <3>1. CASE Claim(w)
      BY <1>1, <2>1, <3>1 DEF Claim
    <3>2. CASE Finish(w)
      BY <1>1, <2>1, <3>2 DEF Finish, DoneIfRunning
    <3> QED
      BY <2>2, <2>4, <3>1, <3>2, Zenon
         DEF WorkerStep, Wait, Fetch, FetchNothing, Empty, Enter, Run, Leave
  <2>5. CASE MainStep
    <3>1. CASE InitPool \/ SignalJob \/ Shutdown \/ Drained \/ Wake \/ Join \/ \E i \in Job : Add(i)
      BY <2>2, <3>1 DEF InitPool, SignalJob, Shutdown, Drained, Wake, Join, Add
    <3>2. CASE Drain \/ AbortRunning \/ \E i \in Job : AddRefused(i) \/ AbortJob(i)
      BY <2>3, <3>2 DEF Drain, AbortRunning, AddRefused, AbortJob
    <3> QED
      BY <2>5, <3>1, <3>2 DEF MainStep
  <2>6. CASE UNCHANGED vars
    BY <2>2, <2>6 DEF vars
  <2> QED
    BY <1>1, <2>4, <2>5, <2>6 DEF Next
<1> QED
  BY <1>1, InductiveInit, InductiveStep, PTL DEF Spec, AbortSticks

=============================================================================
