----------------------------- MODULE DbPoolProofs -----------------------------
(***************************************************************************)
(* Proofs about DbPool: the queue of three threads without a lock keeps    *)
(* its order, results are final, no rank or save is lost on its way        *)
(* through the tables, what the players are told of a save is true, and    *)
(* the pool is the queue of one server that QueryService describes.        *)
(***************************************************************************)
EXTENDS DbPool, TLAPS, SequenceTheorems, FiniteSetTheorems

-----------------------------------------------------------------------------
(* The queue *)

\* The worker has a query in hand.
Busy == worker.at \in {"execute", "tidy", "drop", "complete"}

\* The query n of the ring is in its slot, and what is in a slot belongs there.
SlotsInv ==
    /\ \A q \in worker.jobNum + 1 .. Len(asked) : slots[(q - 1) % Slots] = q
    /\ \A i \in 0 .. Slots - 1 :
          slots[i] # 0 => /\ slots[i] \in worker.jobNum + 1 .. Len(asked)
                          /\ (slots[i] - 1) % Slots = i

\* The three threads, one behind the other.
OrderInv ==
    /\ worker.jobNum <= backup.jobNum /\ backup.jobNum <= Len(asked)
    /\ Len(asked) <= MaxQueries
    /\ Len(asked) - worker.jobNum < Slots
    /\ insertIdx = Len(asked) % Slots

\* The two semaphores count what is in between, and the nullptr.
SignalsInv ==
    /\ numBackup = Len(asked) - backup.jobNum
          + (IF main # "running" /\ backup.at # "done" THEN 1 ELSE 0)
          - (IF backup.at = "write" THEN 1 ELSE 0)
    /\ numWorker = backup.jobNum - worker.jobNum
          + (IF backup.at = "done" /\ worker.at # "done" THEN 1 ELSE 0)

\* Where the threads are.
ThreadsInv ==
    /\ backup.at = "write" => backup.query = backup.jobNum + 1 /\ backup.jobNum < Len(asked)
    /\ backup.at = "done" => main # "running" /\ backup.jobNum = Len(asked)
    /\ worker.at = "done" => backup.at = "done" /\ worker.jobNum = Len(asked)
    /\ Busy => worker.jobNum > 0 /\ worker.query = worker.jobNum

\* The number of queries that are answered.
Handled == IF Busy THEN worker.jobNum - 1 ELSE worker.jobNum

AnswersInv == \A q \in Id : answer[q] # "open" <=> q <= Handled

\* A save that is loaded has been asked for before.
AskedInv ==
    \A q \in 1 .. Len(asked) :
        OpOf(q) = "load" => asked[q].save \in 1 .. q - 1 /\ OpOf(asked[q].save) = "save"

QueueInv ==
    /\ TypeOK /\ SlotsInv /\ OrderInv /\ SignalsInv /\ ThreadsInv /\ AnswersInv /\ AskedInv

-----------------------------------------------------------------------------
(* The tables *)

HasBackup(n) == \E a \in 1 .. n : OpOf(a) = "addBackup"

\* Queries that the worker has tried to store or to load.
Tried == IF worker.at = "execute" THEN worker.jobNum - 1 ELSE worker.jobNum

\* The threads know the backup database once they have passed its query.
BackupInv ==
    /\ backup.db <=> HasBackup(backup.jobNum)
    /\ worker.backup <=> HasBackup(Tried)
    /\ backup.at = "write" => backup.db

\* Which query can be where.
RangeInv ==
    /\ \A q \in db.write \cup db.backup \cup past.lost : q <= Tried
    /\ \A q \in past.taken : q <= Handled
    /\ \A q \in past.kept : q <= backup.jobNum /\ Stores(q)
    /\ \A q \in db.copy : HasBackup(q)
    /\ \A q \in db.write \cup db.backup \cup db.copy : q \in past.kept
    /\ \A q \in 1 .. backup.jobNum :
          Stores(q) /\ HasBackup(q) => q \in past.kept \cup past.fault

\* The worker between its statements.
WorkerInv ==
    /\ worker.at \in {"tidy", "drop"} => worker.backup
    /\ worker.at \in {"tidy", "drop"} => OpOf(worker.query) \in {"rank", "save", "load"}
    /\ worker.at = "tidy" /\ Stores(worker.query) =>
          /\ worker.query \notin db.backup
          /\ worker.success => worker.query \in db.write
          /\ ~worker.success => worker.query \notin db.write \/ worker.query \in past.lost
    /\ worker.at = "drop" =>
          /\ Stores(worker.query)
          /\ worker.query \notin db.write \/ worker.query \in past.lost
          /\ worker.query \in db.copy => worker.query \in db.backup
    /\ worker.at = "complete" /\ Stores(worker.query) /\ worker.success =>
          worker.query \in past.kept \cup past.fault

\* What has been stored is somewhere.
LimboInv == \A q \in past.kept : q \in db.write \cup db.copy \cup db.backup \cup past.taken

\* q is done with: it is in one table at most.
OnceInv ==
    /\ \A q \in db.write \cap db.backup : q \in past.lost
    /\ \A q \in 1 .. Len(asked) :
          /\ Stores(q) /\ q \notin past.fault \cup past.lost
          /\ q <= Handled \/ (worker.at = "complete" /\ q = worker.query)
          => /\ ~(q \in db.write /\ q \in db.copy)
             /\ ~(q \in db.backup /\ q \in db.copy)

\* A save taken out by a load is gone, unless it had been written twice.
LoadInv ==
    /\ \A q \in past.taken : q \in past.lost \/ (q \notin db.write /\ q \notin db.backup)
    /\ \A q \in 1 .. Len(asked) :
          status[q] = "LOAD_SUCCESS" =>
              OpOf(q) = "load" /\ asked[q].save \in past.taken

\* What the players are told of a save is true at every moment.
StatusInv ==
    \A q \in 1 .. Len(asked) :
        OpOf(q) = "save" =>
            IF status[q] = "SAVE_FAILED"
            THEN q \notin past.kept \/ q \in past.lost
            ELSE q \in past.kept

AnswerStored ==
    \A q \in 1 .. Handled :
        Stores(q) /\ answer[q] = "ok" => q \in past.kept \cup past.fault

TablesInv ==
    /\ BackupInv /\ RangeInv /\ WorkerInv /\ LimboInv /\ OnceInv
    /\ LoadInv /\ LoadedOnce /\ StatusInv /\ AnswerStored

-----------------------------------------------------------------------------
(* Arithmetic of the ring *)

LEMMA DivMod ==
    ASSUME NEW m \in Nat \ {0}, NEW a \in Nat
    PROVE  /\ a \div m \in Nat
           /\ a % m \in 0 .. m - 1
           /\ a = m * (a \div m) + (a % m)
OBVIOUS

\* Numbers less than m apart that agree modulo m are equal.
LEMMA ModEqual ==
    ASSUME NEW m \in Nat \ {0}, NEW a \in Nat, NEW b \in Nat,
           a <= b, b - a < m, a % m = b % m
    PROVE  a = b
<1> DEFINE d == a \div m
           e == b \div m
           s == a % m
<1>1. d \in Nat /\ e \in Nat /\ s \in 0 .. m - 1 /\ a = m * d + s /\ b = m * e + s
  BY DivMod
<1> HIDE DEF d, e, s
<1>2. CASE e = d
  BY <1>1, <1>2
<1>3. CASE e > d
  <2>1. m * e >= m * (d + 1) /\ m * (d + 1) = m * d + m
    BY <1>1, <1>3
  <2> QED
    BY <1>1, <2>1
<1>4. CASE e < d
  <2>1. m * d >= m * (e + 1) /\ m * (e + 1) = m * e + m
    BY <1>1, <1>4
  <2> QED
    BY <1>1, <2>1
<1> QED
  BY <1>1, <1>2, <1>3, <1>4

\* The slot behind the slot of a is the slot of a + 1.
LEMMA ModNext ==
    ASSUME NEW m \in Nat \ {0}, m > 1, NEW a \in Nat
    PROVE  ((a % m) + 1) % m = (a + 1) % m
<1> DEFINE s == a % m
           t == (a + 1) % m
           d == a \div m
           e == (a + 1) \div m
<1>1. d \in Nat /\ s \in 0 .. m - 1 /\ a = m * d + s
  BY DivMod
<1>2. a + 1 \in Nat
  OBVIOUS
<1>3. e \in Nat /\ t \in 0 .. m - 1 /\ a + 1 = m * e + t
  BY <1>2, DivMod
<1>4. (s + 1) % m = IF s + 1 < m THEN s + 1 ELSE 0
  <2>1. s + 1 \in 0 .. m
    BY <1>1
  <2> HIDE DEF s
  <2>2. CASE s + 1 < m
    BY <2>1, <2>2
  <2>3. CASE s + 1 = m
    BY <2>1, <2>3
  <2> QED
    BY <2>1, <2>2, <2>3
<1> HIDE DEF d, e, s, t
<1>5. t = IF s + 1 < m THEN s + 1 ELSE 0
  <2>1. CASE e = d
    BY <1>1, <1>3, <2>1
  <2>2. CASE e = d + 1
    <3>1. m * e = m * d + m
      BY <1>1, <2>2
    <3> QED
      BY <1>1, <1>3, <3>1
  <2>3. CASE e > d + 1
    <3>1. m * e >= m * (d + 2) /\ m * (d + 2) = m * d + 2 * m
      BY <1>1, <1>3, <2>3
    <3> QED
      BY <1>1, <1>3, <3>1
  <2>4. CASE e < d
    <3>1. m * d >= m * (e + 1) /\ m * (e + 1) = m * e + m
      BY <1>1, <1>3, <2>4
    <3> QED
      BY <1>1, <1>3, <3>1
  <2> QED
    BY <1>1, <1>3, <2>1, <2>2, <2>3, <2>4
<1> QED
  BY <1>4, <1>5 DEF s, t

-----------------------------------------------------------------------------
(* What the invariant of the queue says of a state *)

Backup == [at : {"wait", "write", "done"}, jobNum : Nat, query : Nat, db : BOOLEAN]

Worker == [at : {"top", "wait", "execute", "tidy", "drop", "complete", "done"},
           jobNum : Nat, query : Nat, failMode : BOOLEAN, success : BOOLEAN,
           reads : Nat, write : BOOLEAN, backup : BOOLEAN]

LEMMA Numbers ==
    ASSUME TypeOK
    PROVE  /\ Slots \in Nat \ {0} /\ Slots > 1 /\ MaxQueries \in Nat
           /\ Len(asked) \in Nat
           /\ worker \in Worker /\ worker.jobNum \in Nat
           /\ backup \in Backup /\ backup.jobNum \in Nat
           /\ numBackup \in Nat /\ numWorker \in Nat
           /\ \A q \in 1 .. Len(asked) : asked[q] \in Query
<1>1. asked \in Seq(Query)
  BY DEF TypeOK
<1>2. Len(asked) \in Nat /\ \A q \in 1 .. Len(asked) : asked[q] \in Query
  BY <1>1, LenProperties, ElementOfSeq
<1> QED
  BY <1>2, DbPoolAssumption DEF TypeOK, Worker, Backup

\* Whatever is between the worker and the main thread is in its slot, and the slot
\* that comes next is empty.
LEMMA SlotContents ==
    ASSUME QueueInv, NEW n \in Nat, worker.jobNum <= n, n <= Len(asked)
    PROVE  /\ n % Slots \in 0 .. Slots - 1
           /\ slots[n % Slots] = IF n < Len(asked) THEN n + 1 ELSE 0
<1>1. /\ Slots \in Nat \ {0} /\ Slots > 1
      /\ Len(asked) \in Nat /\ worker.jobNum \in Nat
      /\ slots \in [0 .. Slots - 1 -> Nat]
  BY Numbers DEF QueueInv, TypeOK
<1>2. n % Slots \in 0 .. Slots - 1
  BY <1>1
<1>3. CASE n < Len(asked)
  <2>1. n + 1 \in worker.jobNum + 1 .. Len(asked) /\ (n + 1) - 1 = n
    BY <1>1, <1>3
  <2>2. slots[((n + 1) - 1) % Slots] = n + 1
    BY <2>1 DEF QueueInv, SlotsInv
  <2> QED
    BY <1>2, <1>3, <2>1, <2>2
<1>4. CASE n = Len(asked)
  <2> DEFINE v == slots[n % Slots]
  <2>1. SUFFICES ASSUME v # 0 PROVE FALSE
    BY <1>2, <1>4
  <2>2. v \in worker.jobNum + 1 .. Len(asked) /\ (v - 1) % Slots = n % Slots
    BY <1>2, <2>1 DEF QueueInv, SlotsInv
  <2>3. Len(asked) - worker.jobNum < Slots
    BY DEF QueueInv, OrderInv
  <2> HIDE DEF v
  <2>4. v - 1 \in Nat /\ v - 1 <= n /\ n - (v - 1) < Slots
    BY ONLY <1>1, <1>4, <2>2, <2>3, SMTT(20)
  <2>5. v - 1 = n
    BY <1>1, <2>2, <2>4, ModEqual
  <2> QED
    BY <1>1, <1>4, <2>2, <2>5
<1> QED
  BY <1>1, <1>2, <1>3, <1>4

\* The query that a thread has in hand is one that has been asked.
LEMMA InHand ==
    ASSUME QueueInv
    PROVE  /\ Busy => /\ worker.query \in 1 .. Len(asked) /\ worker.query \in Id
                      /\ worker.query <= backup.jobNum
                      /\ asked[worker.query] \in Query
           /\ backup.at = "write" => /\ backup.query \in 1 .. Len(asked) /\ backup.query \in Id
                                     /\ backup.query > worker.jobNum
                                     /\ asked[backup.query] \in Query
           /\ 1 .. Len(asked) \subseteq Id
<1>1. /\ Len(asked) \in Nat /\ MaxQueries \in Nat
      /\ worker.jobNum \in Nat /\ backup.jobNum \in Nat
      /\ \A q \in 1 .. Len(asked) : asked[q] \in Query
  BY Numbers DEF QueueInv
<1>2. /\ worker.jobNum <= backup.jobNum /\ backup.jobNum <= Len(asked)
      /\ Len(asked) <= MaxQueries
  BY DEF QueueInv, OrderInv
<1>3. /\ backup.at = "write" => backup.query = backup.jobNum + 1 /\ backup.jobNum < Len(asked)
      /\ Busy => worker.jobNum > 0 /\ worker.query = worker.jobNum
  BY DEF QueueInv, ThreadsInv
<1> QED
  BY <1>1, <1>2, <1>3 DEF Id

LEMMA QueueInit == Init => QueueInv
<1> SUFFICES ASSUME Init PROVE QueueInv
  OBVIOUS
<1>1. Slots \in Nat /\ Slots > 1 /\ MaxQueries \in Nat
  BY DbPoolAssumption
<1>2. asked = <<>> /\ Len(asked) = 0
  BY DEF Init
<1>3. TypeOK
  <2>1. asked \in Seq(Query)
    BY <1>2
  <2>2. slots \in [0 .. Slots - 1 -> Nat] /\ insertIdx \in 0 .. Slots - 1
    BY <1>1 DEF Init
  <2>3. backup \in Backup /\ worker \in Worker
    BY DEF Init, Backup, Worker
  <2>4. status \in [Id -> Status] /\ answer \in [Id -> {"open", "failed", "ok"}]
    BY DEF Init, Status
  <2>5. answered = <<>> /\ <<>> \in Seq(Id)
    BY DEF Init
  <2> QED
    BY <2>1, <2>2, <2>3, <2>4, <2>5 DEF Init, TypeOK, Backup, Worker
<1>4. SlotsInv
  BY <1>1, <1>2 DEF Init, SlotsInv
<1>5. OrderInv
  BY <1>1, <1>2 DEF Init, OrderInv
<1>6. SignalsInv /\ ThreadsInv
  BY <1>1, <1>2 DEF Init, SignalsInv, ThreadsInv, Busy
<1>7. AnswersInv
  BY <1>1 DEF Init, AnswersInv, Handled, Busy, Id
<1>8. AskedInv
  BY <1>2 DEF AskedInv
<1> QED
  BY <1>3, <1>4, <1>5, <1>6, <1>7, <1>8 DEF QueueInv

-----------------------------------------------------------------------------
(* The main thread and the queue *)

LEMMA InsertEffect ==
    ASSUME QueueInv, Room, NEW q \in Query, Insert(q)
    PROVE  /\ asked' \in Seq(Query)
           /\ Len(asked') = Len(asked) + 1
           /\ \A i \in 1 .. Len(asked) : asked'[i] = asked[i]
           /\ asked'[Len(asked) + 1] = q
           /\ main = "running" /\ Len(asked) - worker.jobNum < Slots - 1
           /\ Len(asked) + 1 \in Id
           /\ status' = [status EXCEPT ![Len(asked) + 1] = Fresh(q.op)]
           /\ UNCHANGED <<setup, numWorker, shutdown, main, backup, worker, db, past, answer, answered>>
<1>1. asked \in Seq(Query) /\ Len(asked) \in Nat /\ MaxQueries \in Nat
  BY Numbers DEF QueueInv, TypeOK
<1>2. asked' = Append(asked, q) /\ Room /\ Len(asked) < MaxQueries
  BY DEF Insert
<1>3. /\ asked' \in Seq(Query)
      /\ Len(asked') = Len(asked) + 1
      /\ \A i \in 1 .. Len(asked) : asked'[i] = asked[i]
      /\ asked'[Len(asked) + 1] = q
  BY <1>1, <1>2, AppendProperties
<1>4. Len(asked) - worker.jobNum < Slots - 1 /\ Len(asked) + 1 \in Id
  BY <1>1, <1>2 DEF Room, Outstanding, Id
<1> QED
  BY <1>3, <1>4 DEF Insert, tables, results

LEMMA InsertQueue ==
    ASSUME QueueInv, Room, NEW q \in Query, Insert(q),
           q.op = "load" => q.save \in 1 .. Len(asked) /\ OpOf(q.save) = "save"
    PROVE  QueueInv'
<1> DEFINE n == Len(asked)
<1>1. /\ Slots \in Nat \ {0} /\ Slots > 1 /\ MaxQueries \in Nat
      /\ n \in Nat /\ worker.jobNum \in Nat /\ backup.jobNum \in Nat
      /\ numBackup \in Nat /\ numWorker \in Nat
      /\ slots \in [0 .. Slots - 1 -> Nat]
  BY Numbers DEF QueueInv, TypeOK
<1>2. /\ asked' \in Seq(Query)
      /\ Len(asked') = n + 1
      /\ \A i \in 1 .. n : asked'[i] = asked[i]
      /\ asked'[n + 1] = q
      /\ main = "running" /\ n - worker.jobNum < Slots - 1
      /\ n + 1 \in Id
      /\ status' = [status EXCEPT ![n + 1] = Fresh(q.op)]
      /\ UNCHANGED <<setup, numWorker, shutdown, main, backup, worker, db, past, answer, answered>>
  BY InsertEffect
<1>3. /\ slots' = [slots EXCEPT ![insertIdx] = n + 1]
      /\ insertIdx' = (insertIdx + 1) % Slots
      /\ numBackup' = numBackup + 1
  BY DEF Insert
<1>4. /\ TypeOK /\ SlotsInv /\ OrderInv /\ SignalsInv /\ ThreadsInv /\ AnswersInv /\ AskedInv
      /\ insertIdx = n % Slots
      /\ worker.jobNum <= backup.jobNum /\ backup.jobNum <= n
  BY DEF QueueInv, OrderInv
<1> HIDE DEF n
<1>5. n % Slots \in 0 .. Slots - 1 /\ insertIdx' = (n + 1) % Slots /\ (n + 1) % Slots \in 0 .. Slots - 1
  <2>1. n % Slots \in 0 .. Slots - 1 /\ (n + 1) % Slots \in 0 .. Slots - 1
    <3>1. Slots \in Nat \ {0} /\ n \in Nat /\ n + 1 \in Nat
      BY <1>1
    <3> QED
      BY <3>1, DivMod
  <2>2. ((n % Slots) + 1) % Slots = (n + 1) % Slots
    BY <1>1, ModNext
  <2> QED
    BY <1>3, <1>4, <2>1, <2>2
<1>6. TypeOK'
  <2>1. Fresh(q.op) \in Status
    BY DEF Fresh, Status, Query
  <2>2. status' \in [Id -> Status]
    BY <1>2, <1>4, <2>1 DEF TypeOK
  <2>3. n + 1 \in Nat /\ numBackup' \in Nat
    BY <1>1, <1>3
  <2>4. slots' \in [0 .. Slots - 1 -> Nat]
    BY <1>1, <1>3, <2>3
  <2>5. insertIdx' \in 0 .. Slots - 1
    BY <1>5
  <2>6. asked' \in Seq(Query) /\ numBackup' \in Nat
    BY <1>2, <2>3
  <2>7. UNCHANGED <<setup, numWorker, shutdown, main, backup, worker, db, past, answer, answered>>
    BY <1>2
  <2>8. TypeOK
    BY <1>4
  <2> QED
    BY <2>2, <2>4, <2>5, <2>6, <2>7, <2>8 DEF TypeOK
<1>7. SlotsInv'
  <2>1. ASSUME NEW p \in worker.jobNum + 1 .. n
        PROVE  (p - 1) % Slots \in 0 .. Slots - 1 /\ (p - 1) % Slots # n % Slots
    <3>1. p - 1 \in Nat /\ p - 1 <= n /\ n - (p - 1) < Slots /\ p - 1 # n
      <4>1. n \in Nat /\ Slots \in Nat /\ worker.jobNum \in Nat
        BY <1>1
      <4>2. n - worker.jobNum < Slots - 1
        BY <1>2
      <4> QED
        BY <2>1, <4>1, <4>2
    <3>2. (p - 1) % Slots # n % Slots
      BY <1>1, <3>1, ModEqual
    <3> QED
      BY <1>1, <3>1, <3>2, DivMod
  <2>2. ASSUME NEW p \in worker.jobNum + 1 .. n + 1
        PROVE  slots'[(p - 1) % Slots] = p
    <3>1. CASE p = n + 1
      <4>1. p - 1 = n
        BY <1>1, <3>1
      <4> QED
        BY <1>1, <1>3, <1>4, <1>5, <3>1, <4>1
    <3>2. CASE p \in worker.jobNum + 1 .. n
      <4>1. slots[(p - 1) % Slots] = p
        BY <1>4, <3>2 DEF SlotsInv, n
      <4> QED
        BY <1>1, <1>3, <1>4, <2>1, <3>2, <4>1
    <3> QED
      BY <1>1, <3>1, <3>2
  <2>3. ASSUME NEW i \in 0 .. Slots - 1, slots'[i] # 0
        PROVE  slots'[i] \in worker.jobNum + 1 .. n + 1 /\ (slots'[i] - 1) % Slots = i
    <3>1. CASE i = insertIdx
      <4>1. slots'[i] = n + 1 /\ (n + 1) - 1 = n
        BY <1>1, <1>3, <3>1
      <4> QED
        BY <1>1, <1>4, <3>1, <4>1
    <3>2. CASE i # insertIdx
      <4>1. slots'[i] = slots[i]
        BY <1>1, <1>3, <3>2
      <4>2. slots[i] \in worker.jobNum + 1 .. n /\ (slots[i] - 1) % Slots = i
        BY <1>4, <2>3, <4>1 DEF SlotsInv, n
      <4> QED
        BY <1>1, <4>1, <4>2
    <3> QED
      BY <3>1, <3>2
  <2> QED
    BY <1>2, <2>2, <2>3 DEF SlotsInv
<1>8. OrderInv'
  <2>1. n + 1 <= MaxQueries /\ (n + 1) - worker.jobNum < Slots /\ backup.jobNum <= n + 1
    <3>1. n + 1 <= MaxQueries
      BY <1>1, <1>2 DEF Id
    <3>2. n \in Nat /\ Slots \in Nat /\ worker.jobNum \in Nat /\ backup.jobNum \in Nat
      BY <1>1
    <3>3. n - worker.jobNum < Slots - 1
      BY <1>2
    <3>4. backup.jobNum <= n
      BY <1>4
    <3> QED
      BY <3>1, <3>2, <3>3, <3>4
  <2>2. Len(asked)' = n + 1
    BY <1>2
  <2>3. insertIdx' = (n + 1) % Slots
    BY <1>5
  <2>4. worker'.jobNum = worker.jobNum /\ backup'.jobNum = backup.jobNum
    BY <1>2
  <2>5. worker.jobNum <= backup.jobNum
    BY <1>4
  <2> QED
    BY <2>1, <2>2, <2>3, <2>4, <2>5 DEF OrderInv
<1>9. SignalsInv'
  <2> DEFINE closing == IF main # "running" /\ backup.at # "done" THEN 1 ELSE 0
             writing == IF backup.at = "write" THEN 1 ELSE 0
             waking == IF backup.at = "done" /\ worker.at # "done" THEN 1 ELSE 0
  <2>1. /\ numBackup = n - backup.jobNum + closing - writing
        /\ numWorker = backup.jobNum - worker.jobNum + waking
    BY <1>4 DEF SignalsInv, n
  <2>2. closing \in Int /\ writing \in Int
    OBVIOUS
  <2>3. closing' = closing /\ writing' = writing /\ waking' = waking
    BY <1>2
  <2> HIDE DEF closing, writing, waking
  <2>4. numBackup' = Len(asked') - backup.jobNum + closing - writing
    <3>1. /\ n \in Int /\ backup.jobNum \in Int
          /\ numBackup' = numBackup + 1
          /\ Len(asked') = n + 1
      BY <1>1, <1>2, <1>3
    <3> QED
      BY <2>1, <2>2, <3>1
  <2> USE DEF closing, writing, waking
  <2> QED
    BY <1>2, <2>1, <2>4 DEF SignalsInv
<1>10. ThreadsInv'
  BY <1>1, <1>2, <1>4 DEF ThreadsInv, Busy, n
<1>11. AnswersInv'
  BY <1>2, <1>4 DEF AnswersInv, Handled, Busy
<1>12. AskedInv'
  <2>1. ASSUME NEW p \in 1 .. n + 1, asked'[p].op = "load"
        PROVE  asked'[p].save \in 1 .. p - 1 /\ asked'[asked'[p].save].op = "save"
    <3>1. CASE p = n + 1
      <4>1. asked'[p] = q /\ q.save \in 1 .. n /\ OpOf(q.save) = "save"
        BY <1>2, <2>1, <3>1 DEF n
      <4> QED
        BY <1>1, <1>2, <3>1, <4>1 DEF OpOf
    <3>2. CASE p \in 1 .. n
      <4>1. asked'[p] = asked[p]
        BY <1>2, <3>2
      <4>2. asked[p].save \in 1 .. p - 1 /\ asked[asked[p].save].op = "save"
        BY <1>4, <2>1, <3>2, <4>1 DEF AskedInv, OpOf, n
      <4>3. asked[p].save \in 1 .. n
        BY <1>1, <3>2, <4>2
      <4> QED
        BY <1>2, <4>1, <4>2, <4>3
    <3> QED
      BY <1>1, <3>1, <3>2
  <2> QED
    BY <1>2, <2>1 DEF AskedInv, OpOf
<1> QED
  BY <1>6, <1>7, <1>8, <1>9, <1>10, <1>11, <1>12 DEF QueueInv

\* What is asked is a query.
LEMMA RegisterQueue ==
    ASSUME QueueInv, Room, Register
    PROVE  QueueInv' /\ \E q \in Query : Insert(q)
<1>1. setup \in Seq({"addRead", "addWrite", "addBackup"}) /\ Len(asked) \in Nat
  BY Numbers, DbPoolAssumption DEF QueueInv, TypeOK
<1>2. Len(asked) + 1 \in 1 .. Len(setup)
  BY <1>1, LenProperties DEF Register
<1>3. setup[Len(asked) + 1] \in {"addRead", "addWrite", "addBackup"}
  BY <1>1, <1>2, ElementOfSeq
<1> DEFINE q == [op |-> setup[Len(asked) + 1], save |-> 0]
<1>4. q \in Query /\ q.op # "load"
  BY <1>3, DbPoolAssumption DEF Query
<1>5. Insert(q)
  BY DEF Register
<1> HIDE DEF q
<1> QED
  BY <1>4, <1>5, InsertQueue

LEMMA ExecuteQueue ==
    ASSUME QueueInv, Room, NEW op \in Op, Execute(op)
    PROVE  QueueInv' /\ \E q \in Query : Insert(q)
<1>1. PICK s \in 0 .. Len(asked) :
         /\ IF op = "load" THEN s > 0 /\ OpOf(s) = "save" ELSE s = 0
         /\ Insert([op |-> op, save |-> s])
  BY DEF Execute
<1> DEFINE q == [op |-> op, save |-> s]
<1>2. Len(asked) \in Nat /\ Len(asked) <= MaxQueries /\ MaxQueries \in Nat
  BY Numbers DEF QueueInv, OrderInv
<1>3. q \in Query
  BY <1>1, <1>2, DbPoolAssumption DEF Query
<1>4. q.op = "load" => q.save \in 1 .. Len(asked) /\ OpOf(q.save) = "save"
  BY <1>1, <1>2
<1>5. Insert(q)
  BY <1>1
<1> HIDE DEF q
<1> QED
  BY <1>3, <1>4, <1>5, InsertQueue

LEMMA OnShutdownQueue ==
    ASSUME QueueInv, OnShutdown
    PROVE  QueueInv'
<1>1. /\ main = "running" /\ main' = "waiting" /\ shutdown' = TRUE /\ numBackup' = numBackup + 1
      /\ UNCHANGED <<setup, asked, slots, insertIdx, numWorker, backup, worker, db, past,
                     status, answer, answered>>
  BY DEF OnShutdown, tables, results
<1>2. /\ TypeOK /\ SlotsInv /\ OrderInv /\ SignalsInv /\ ThreadsInv /\ AnswersInv /\ AskedInv
      /\ numBackup \in Nat /\ Len(asked) \in Nat /\ backup.jobNum \in Nat
  BY Numbers DEF QueueInv
<1>3. TypeOK'
  BY <1>1, <1>2 DEF TypeOK
<1>4. SlotsInv' /\ OrderInv' /\ AnswersInv' /\ AskedInv'
  BY <1>1, <1>2 DEF SlotsInv, OrderInv, AnswersInv, Handled, Busy, AskedInv, OpOf
<1>5. ThreadsInv'
  BY <1>1, <1>2 DEF ThreadsInv, Busy
<1>6. SignalsInv'
  <2>1. backup.at # "done"
    BY <1>1, <1>2 DEF ThreadsInv
  <2> QED
    BY <1>1, <1>2, <2>1 DEF SignalsInv
<1> QED
  BY <1>3, <1>4, <1>5, <1>6 DEF QueueInv

LEMMA ShutdownDoneQueue ==
    ASSUME QueueInv, ShutdownDone
    PROVE  QueueInv'
<1>1. /\ main = "waiting" /\ main' = "stopped"
      /\ UNCHANGED <<setup, asked, slots, insertIdx, numBackup, numWorker, shutdown, backup, worker,
                     db, past, status, answer, answered>>
  BY DEF ShutdownDone, tables, results, queue
<1>2. TypeOK /\ SlotsInv /\ OrderInv /\ SignalsInv /\ ThreadsInv /\ AnswersInv /\ AskedInv
  BY DEF QueueInv
<1>3. TypeOK'
  BY <1>1, <1>2 DEF TypeOK
<1>4. SlotsInv' /\ OrderInv' /\ AnswersInv' /\ AskedInv' /\ ThreadsInv' /\ SignalsInv'
  BY <1>1, <1>2 DEF SlotsInv, OrderInv, AnswersInv, Handled, Busy, AskedInv, OpOf, ThreadsInv,
                    SignalsInv
<1> QED
  BY <1>3, <1>4 DEF QueueInv

-----------------------------------------------------------------------------
(* The backup thread and the queue *)

Tables == [write : SUBSET Id, copy : SUBSET Id, backup : SUBSET Id]

Past ==
    [kept : SUBSET Id, taken : SUBSET Id, unheard : SUBSET Id,
     lost : SUBSET Id, fault : SUBSET Id, first : SUBSET Id]

LEMMA BackupEnds ==
    ASSUME NEW b \in Backup
    PROVE  LET d == [b EXCEPT !.at = "done"]
           IN  d \in Backup /\ d.at = "done" /\ d.jobNum = b.jobNum /\ d.db = b.db
BY DEF Backup

LEMMA BackupBegins ==
    ASSUME NEW b \in Backup, NEW n \in Nat
    PROVE  LET d == [b EXCEPT !.at = "write", !.query = n]
           IN  d \in Backup /\ d.at = "write" /\ d.query = n /\ d.jobNum = b.jobNum /\ d.db = b.db
BY DEF Backup

LEMMA BackupWrites ==
    ASSUME NEW b \in Backup, NEW n \in Nat
    PROVE  LET d == [b EXCEPT !.at = "wait", !.jobNum = n]
           IN  d \in Backup /\ d.at = "wait" /\ d.jobNum = n /\ d.db = b.db
BY DEF Backup

\* BackupLook finds the query that comes next, or the end of the queue.
LEMMA BackupLookEffect ==
    ASSUME QueueInv, BackupLook
    PROVE  /\ backup.at = "wait" /\ numBackup > 0
           /\ numBackup' = numBackup - 1
           /\ UNCHANGED <<setup, asked, slots, insertIdx, shutdown, main, worker, db, past, status,
                          answer, answered>>
           /\ \/ /\ backup.jobNum = Len(asked) /\ main # "running"
                 /\ backup' = [backup EXCEPT !.at = "done"]
                 /\ numWorker' = numWorker + 1
              \/ /\ backup.jobNum < Len(asked)
                 /\ backup.db /\ OpOf(backup.jobNum + 1) \in {"rank", "save", "load"}
                 /\ backup' = [backup EXCEPT !.at = "write", !.query = backup.jobNum + 1]
                 /\ numWorker' = numWorker
              \/ /\ backup.jobNum < Len(asked)
                 /\ ~(backup.db /\ OpOf(backup.jobNum + 1) \in {"rank", "save", "load"})
                 /\ backup' = [backup EXCEPT !.jobNum = backup.jobNum + 1,
                                  !.db = backup.db \/ OpOf(backup.jobNum + 1) = "addBackup"]
                 /\ numWorker' = numWorker + 1
<1>1. backup.jobNum \in Nat /\ Len(asked) \in Nat /\ numBackup \in Nat
  BY Numbers DEF QueueInv
<1>2. worker.jobNum <= backup.jobNum /\ backup.jobNum <= Len(asked)
  BY DEF QueueInv, OrderInv
<1> DEFINE q == slots[backup.jobNum % Slots]
<1>3. q = IF backup.jobNum < Len(asked) THEN backup.jobNum + 1 ELSE 0
  BY <1>1, <1>2, SlotContents
<1>4. /\ backup.at = "wait" /\ numBackup > 0
      /\ numBackup' = numBackup - 1
      /\ UNCHANGED <<setup, asked, slots, insertIdx, shutdown, main, worker, db, past, status,
                     answer, answered>>
      /\ \/ /\ q = 0
            /\ backup' = [backup EXCEPT !.at = "done"]
            /\ numWorker' = numWorker + 1
         \/ /\ q # 0 /\ backup.db /\ OpOf(q) \in {"rank", "save", "load"}
            /\ backup' = [backup EXCEPT !.at = "write", !.query = q]
            /\ numWorker' = numWorker
         \/ /\ q # 0 /\ ~(backup.db /\ OpOf(q) \in {"rank", "save", "load"})
            /\ backup' = [backup EXCEPT !.jobNum = backup.jobNum + 1,
                             !.db = backup.db \/ OpOf(q) = "addBackup"]
            /\ numWorker' = numWorker + 1
  BY DEF BackupLook, Signalled, PassedOn, Withheld, tables, results
<1> HIDE DEF q
<1>5. CASE q = 0
  <2>1. backup.jobNum = Len(asked)
    BY <1>1, <1>2, <1>3, <1>5
  <2>2. main # "running"
    <3>1. numBackup = Len(asked) - backup.jobNum
                        + (IF main # "running" /\ backup.at # "done" THEN 1 ELSE 0)
                        - (IF backup.at = "write" THEN 1 ELSE 0)
      BY DEF QueueInv, SignalsInv
    <3> QED
      BY <1>1, <1>4, <2>1, <3>1
  <2> QED
    BY <1>4, <1>5, <2>1, <2>2
<1>6. CASE q # 0
  <2>1. backup.jobNum < Len(asked) /\ q = backup.jobNum + 1
    BY <1>1, <1>2, <1>3, <1>6
  <2> QED
    BY <1>4, <1>6, <2>1
<1> QED
  BY <1>5, <1>6

\* What changes nothing but the backup thread, the tables and the semaphores keeps
\* the queue in order if these three do.
LEMMA BackupStep ==
    ASSUME QueueInv,
           UNCHANGED <<setup, asked, slots, insertIdx, shutdown, main, worker, answer, answered>>,
           backup' \in Backup, numBackup' \in Nat, numWorker' \in Nat,
           db' \in Tables, past' \in Past, status' \in [Id -> Status],
           backup.jobNum <= backup'.jobNum, backup'.jobNum <= Len(asked),
           SignalsInv',
           backup'.at = "write" => backup'.query = backup'.jobNum + 1 /\ backup'.jobNum < Len(asked),
           backup'.at = "done" => main # "running" /\ backup'.jobNum = Len(asked),
           worker.at = "done" => backup'.at = "done"
    PROVE  QueueInv'
<1>1. TypeOK /\ SlotsInv /\ OrderInv /\ ThreadsInv /\ AnswersInv /\ AskedInv
  BY DEF QueueInv
<1>2. TypeOK'
  BY <1>1 DEF TypeOK, Backup, Tables, Past
<1>3. SlotsInv' /\ AnswersInv' /\ AskedInv'
  BY <1>1 DEF SlotsInv, AnswersInv, Handled, Busy, AskedInv, OpOf
<1>4. worker.jobNum <= backup'.jobNum
  <2>1. worker.jobNum \in Nat /\ backup.jobNum \in Nat /\ backup'.jobNum \in Nat
    BY Numbers DEF QueueInv, Backup
  <2> QED
    BY <1>1, <2>1 DEF OrderInv
<1>5. OrderInv'
  BY <1>1, <1>4 DEF OrderInv
<1>6. ThreadsInv'
  BY <1>1 DEF ThreadsInv, Busy
<1> QED
  BY <1>2, <1>3, <1>5, <1>6 DEF QueueInv

LEMMA BackupLookQueue ==
    ASSUME QueueInv, BackupLook
    PROVE  QueueInv'
<1>1. /\ backup.at = "wait" /\ numBackup > 0
      /\ numBackup' = numBackup - 1
      /\ UNCHANGED <<setup, asked, slots, insertIdx, shutdown, main, worker, db, past, status,
                     answer, answered>>
  BY BackupLookEffect
<1>2. /\ backup \in Backup /\ backup.jobNum \in Nat /\ worker.jobNum \in Nat
      /\ numBackup \in Nat /\ numWorker \in Nat
      /\ Len(asked) \in Nat
      /\ db \in Tables /\ past \in Past /\ status \in [Id -> Status]
      /\ backup.jobNum <= Len(asked)
  BY Numbers DEF QueueInv, TypeOK, OrderInv, Tables, Past
<1> DEFINE closing == IF main # "running" /\ backup.at # "done" THEN 1 ELSE 0
           waking == IF backup.at = "done" /\ worker.at # "done" THEN 1 ELSE 0
<1>3. /\ numBackup = Len(asked) - backup.jobNum + closing
      /\ numWorker = backup.jobNum - worker.jobNum
      /\ worker.at # "done"
  <2>1. /\ SignalsInv
        /\ worker.at = "done" => backup.at = "done"
    BY DEF QueueInv, ThreadsInv
  <2>2. numBackup = Len(asked) - backup.jobNum + closing - 0
    BY <1>1, <2>1 DEF SignalsInv
  <2>3. numWorker = backup.jobNum - worker.jobNum + 0
    BY <1>1, <2>1 DEF SignalsInv
  <2>4. closing \in Int
    OBVIOUS
  <2> HIDE DEF closing
  <2> QED
    BY <1>1, <1>2, <2>1, <2>2, <2>3, <2>4
<1>4. numBackup' \in Nat
  BY <1>1, <1>2
<1>5. CASE /\ backup.jobNum = Len(asked) /\ main # "running"
           /\ backup' = [backup EXCEPT !.at = "done"]
           /\ numWorker' = numWorker + 1
  <2>1. backup' \in Backup /\ backup'.at = "done" /\ backup'.jobNum = backup.jobNum
    BY <1>2, <1>5, BackupEnds
  <2>2. numWorker' \in Nat
    BY <1>2, <1>5
  <2>3. SignalsInv'
    BY <1>1, <1>2, <1>3, <1>5, <2>1 DEF SignalsInv
  <2> QED
    BY <1>1, <1>2, <1>3, <1>4, <1>5, <2>1, <2>2, <2>3, BackupStep
<1>6. CASE /\ backup.jobNum < Len(asked)
           /\ backup' = [backup EXCEPT !.at = "write", !.query = backup.jobNum + 1]
           /\ numWorker' = numWorker
  <2>1. /\ backup' \in Backup /\ backup'.at = "write" /\ backup'.jobNum = backup.jobNum
        /\ backup'.query = backup.jobNum + 1
    <3>1. backup.jobNum + 1 \in Nat
      BY <1>2
    <3> QED
      BY <1>2, <1>6, <3>1, BackupBegins
  <2>2. SignalsInv'
    BY <1>1, <1>2, <1>3, <1>6, <2>1 DEF SignalsInv
  <2> QED
    BY <1>1, <1>2, <1>3, <1>4, <1>6, <2>1, <2>2, BackupStep
<1>7. CASE /\ backup.jobNum < Len(asked)
           /\ backup' = [backup EXCEPT !.jobNum = backup.jobNum + 1,
                            !.db = backup.db \/ OpOf(backup.jobNum + 1) = "addBackup"]
           /\ numWorker' = numWorker + 1
  <2> DEFINE known == backup.db \/ OpOf(backup.jobNum + 1) = "addBackup"
  <2>1. known \in BOOLEAN
    OBVIOUS
  <2>2. backup' = [backup EXCEPT !.jobNum = backup.jobNum + 1, !.db = known]
    BY <1>7
  <2> HIDE DEF known
  <2>3. /\ backup' \in Backup /\ backup'.at = "wait" /\ backup'.jobNum = backup.jobNum + 1
    <3>1. backup.jobNum + 1 \in Nat /\ backup \in Backup
      BY <1>2
    <3> DEFINE n == backup.jobNum + 1
    <3>2. n \in Nat /\ backup' = [backup EXCEPT !.jobNum = n, !.db = known]
      BY <2>2, <3>1
    <3> HIDE DEF n
    <3> DEFINE d == [backup EXCEPT !.jobNum = n, !.db = known]
    <3>3. d \in Backup /\ d.at = backup.at /\ d.jobNum = n
      BY <2>1, <3>1, <3>2 DEF Backup
    <3>4. backup' = d
      BY <3>2
    <3> HIDE DEF d
    <3>5. backup' \in Backup /\ backup'.at = backup.at /\ backup'.jobNum = n
      BY <3>3, <3>4
    <3> USE DEF n
    <3> QED
      BY <1>1, <3>5
  <2>4. numWorker' \in Nat
    BY <1>2, <1>7
  <2>5. SignalsInv'
    <3>1. closing \in Int /\ closing' = closing
      BY <1>1, <2>3
    <3> HIDE DEF closing
    <3>2. /\ numBackup' = Len(asked) - backup'.jobNum + closing - 0
          /\ numWorker' = backup'.jobNum - worker.jobNum + 0
      <4>1. /\ Len(asked) \in Int /\ backup.jobNum \in Int /\ worker.jobNum \in Int
            /\ numBackup' = numBackup - 1 /\ numWorker' = numWorker + 1
        BY <1>1, <1>2, <1>7
      <4> QED
        BY <1>3, <2>3, <3>1, <4>1, SMTT(20)
    <3> USE DEF closing
    <3> QED
      BY <1>1, <2>3, <3>1, <3>2 DEF SignalsInv
  <2>6. backup.jobNum <= backup'.jobNum /\ backup'.jobNum <= Len(asked)
    BY <1>2, <1>7, <2>3
  <2> QED
    BY <1>1, <1>2, <1>3, <1>4, <2>3, <2>4, <2>5, <2>6, BackupStep
<1> QED
  BY <1>5, <1>6, <1>7, BackupLookEffect

LEMMA BackupWriteEffect ==
    ASSUME QueueInv, BackupWrite
    PROVE  LET q == backup.query
           IN  /\ backup.at = "write"
               /\ q = backup.jobNum + 1 /\ q \in 1 .. Len(asked) /\ q \in Id /\ q > worker.jobNum
               /\ backup' = [backup EXCEPT !.at = "wait", !.jobNum = backup.jobNum + 1]
               /\ numWorker' = numWorker + 1
               /\ UNCHANGED <<setup, asked, slots, insertIdx, numBackup, shutdown, main, worker,
                              answer, answered>>
               /\ db' \in Tables /\ past' \in Past /\ status' \in [Id -> Status]
               /\ \/ /\ Stores(q)
                     /\ db' = [db EXCEPT !.copy = db.copy \cup {q}]
                     /\ status' = [status EXCEPT ![q] =
                                      IF OpOf(q) = "save" THEN "SAVE_FALLBACKFILE" ELSE status[q]]
                     /\ past' = [past EXCEPT !.kept = past.kept \cup {q}, !.first = past.first \cup {q}]
                  \/ /\ Stores(q)
                     /\ past' = [past EXCEPT !.fault = past.fault \cup {q}]
                     /\ UNCHANGED <<db, status>>
                  \/ ~Stores(q) /\ UNCHANGED <<db, past, status>>
<1> DEFINE q == backup.query
<1>1. backup.at = "write"
  BY DEF BackupWrite
<1>2. q = backup.jobNum + 1 /\ q \in 1 .. Len(asked) /\ q \in Id /\ q > worker.jobNum
  BY <1>1, InHand DEF QueueInv, ThreadsInv
<1>3. /\ backup' = [backup EXCEPT !.at = "wait", !.jobNum = backup.jobNum + 1]
      /\ numWorker' = numWorker + 1
      /\ UNCHANGED <<setup, asked, slots, insertIdx, numBackup, shutdown, main, worker, answer, answered>>
      /\ \/ /\ Stores(q)
            /\ db' = [db EXCEPT !.copy = db.copy \cup {q}]
            /\ status' = [status EXCEPT ![q] =
                             IF OpOf(q) = "save" THEN "SAVE_FALLBACKFILE" ELSE status[q]]
            /\ past' = [past EXCEPT !.kept = past.kept \cup {q}, !.first = past.first \cup {q}]
         \/ /\ Stores(q)
            /\ past' = [past EXCEPT !.fault = past.fault \cup {q}]
            /\ UNCHANGED <<db, status>>
         \/ ~Stores(q) /\ UNCHANGED <<db, past, status>>
  BY DEF BackupWrite, tables, results, queue
<1> HIDE DEF q
<1>4. db \in Tables /\ past \in Past /\ status \in [Id -> Status]
  BY DEF QueueInv, TypeOK, Tables, Past
<1>5. db' \in Tables /\ past' \in Past
  <2>1. [db EXCEPT !.copy = db.copy \cup {q}] \in Tables
    BY <1>2, <1>4 DEF Tables
  <2>2. /\ [past EXCEPT !.kept = past.kept \cup {q}, !.first = past.first \cup {q}] \in Past
        /\ [past EXCEPT !.fault = past.fault \cup {q}] \in Past
    BY <1>2, <1>4 DEF Past
  <2> QED
    BY <1>3, <1>4, <2>1, <2>2
<1>6. status' \in [Id -> Status]
  <2>1. (IF OpOf(q) = "save" THEN "SAVE_FALLBACKFILE" ELSE status[q]) \in Status
    BY <1>2, <1>4 DEF Status
  <2>2. [status EXCEPT ![q] = IF OpOf(q) = "save" THEN "SAVE_FALLBACKFILE" ELSE status[q]]
           \in [Id -> Status]
    BY <1>4, <2>1
  <2> QED
    BY <1>3, <1>4, <2>2
<1> QED
  BY <1>1, <1>2, <1>3, <1>5, <1>6 DEF q

LEMMA BackupWriteQueue ==
    ASSUME QueueInv, BackupWrite
    PROVE  QueueInv'
<1>1. /\ backup.at = "write"
      /\ backup.jobNum + 1 \in 1 .. Len(asked)
      /\ backup' = [backup EXCEPT !.at = "wait", !.jobNum = backup.jobNum + 1]
      /\ numWorker' = numWorker + 1
      /\ UNCHANGED <<setup, asked, slots, insertIdx, numBackup, shutdown, main, worker, answer, answered>>
      /\ db' \in Tables /\ past' \in Past /\ status' \in [Id -> Status]
  BY BackupWriteEffect
<1>2. /\ backup \in Backup /\ backup.jobNum \in Nat /\ worker.jobNum \in Nat
      /\ numBackup \in Nat /\ numWorker \in Nat /\ Len(asked) \in Nat
  BY Numbers DEF QueueInv
<1>3. /\ backup' \in Backup /\ backup'.at = "wait" /\ backup'.jobNum = backup.jobNum + 1
      /\ backup.jobNum <= backup'.jobNum /\ backup'.jobNum <= Len(asked)
  <2>1. backup.jobNum + 1 \in Nat /\ backup \in Backup /\ backup.jobNum <= backup.jobNum + 1
    BY <1>2
  <2>2. backup' \in Backup /\ backup'.at = "wait" /\ backup'.jobNum = backup.jobNum + 1
    BY <1>1, <2>1, BackupWrites
  <2> QED
    BY <1>1, <2>1, <2>2
<1>4. worker.at # "done" /\ numWorker' \in Nat
  BY <1>1, <1>2 DEF QueueInv, ThreadsInv
<1>5. SignalsInv'
  <2> DEFINE closing == IF main # "running" /\ backup.at # "done" THEN 1 ELSE 0
  <2>1. SignalsInv
    BY DEF QueueInv
  <2>2. numBackup = Len(asked) - backup.jobNum + closing - 1
    BY <1>1, <2>1 DEF SignalsInv
  <2>3. numWorker = backup.jobNum - worker.jobNum + 0
    BY <1>1, <2>1 DEF SignalsInv
  <2>4. closing \in Int /\ closing' = closing
    BY <1>1, <1>3
  <2> HIDE DEF closing
  <2>5. numBackup' = Len(asked) - backup'.jobNum + closing - 0
    <3>1. Len(asked) \in Int /\ backup.jobNum \in Int /\ numBackup' = numBackup
      BY <1>1, <1>2
    <3> QED
      BY <1>3, <2>2, <2>4, <3>1
  <2>6. numWorker' = backup'.jobNum - worker.jobNum + 0
    <3>1. worker.jobNum \in Int /\ backup.jobNum \in Int /\ numWorker' = numWorker + 1
      BY <1>1, <1>2
    <3> QED
      BY <1>3, <2>3, <3>1
  <2> USE DEF closing
  <2> QED
    BY <1>1, <1>3, <2>4, <2>5, <2>6 DEF SignalsInv
<1> QED
  BY <1>1, <1>2, <1>3, <1>4, <1>5, BackupStep

-----------------------------------------------------------------------------
(* The worker thread and the queue *)

\* The worker goes on with the query it has in hand.
LEMMA WorkerStep ==
    ASSUME QueueInv, Busy,
           UNCHANGED <<setup, asked, slots, insertIdx, numBackup, numWorker, shutdown, main, backup,
                       answer, answered>>,
           worker' \in Worker, worker'.at \in {"execute", "tidy", "drop", "complete"},
           worker'.jobNum = worker.jobNum, worker'.query = worker.query,
           db' \in Tables, past' \in Past, status' \in [Id -> Status]
    PROVE  QueueInv'
<1>1. TypeOK /\ SlotsInv /\ OrderInv /\ SignalsInv /\ ThreadsInv /\ AnswersInv /\ AskedInv
  BY DEF QueueInv
<1>2. TypeOK'
  BY <1>1 DEF TypeOK, Worker, Tables, Past
<1>3. Busy' /\ worker.at # "done" /\ worker'.at # "done"
  BY DEF Busy
<1>4. SlotsInv' /\ OrderInv' /\ AskedInv'
  BY <1>1 DEF SlotsInv, OrderInv, AskedInv, OpOf
<1>5. SignalsInv'
  BY <1>1, <1>3 DEF SignalsInv
<1>6. ThreadsInv'
  BY <1>1, <1>3 DEF ThreadsInv
<1>7. AnswersInv'
  BY <1>1, <1>3 DEF AnswersInv, Handled
<1> QED
  BY <1>2, <1>4, <1>5, <1>6, <1>7 DEF QueueInv

LEMMA WorkerTopEffect ==
    ASSUME QueueInv, WorkerTop
    PROVE  /\ worker.at = "top"
           /\ worker' \in Worker /\ worker'.at = "wait"
           /\ worker'.jobNum = worker.jobNum /\ worker'.query = worker.query
           /\ worker'.backup = worker.backup
           /\ UNCHANGED <<setup, asked, slots, insertIdx, numBackup, numWorker, shutdown, main,
                          backup, db, past, status, answer, answered>>
<1> DEFINE failMode == worker.failMode /\ numWorker # 0
<1>1. worker \in Worker
  BY Numbers DEF QueueInv
<1>2. failMode \in BOOLEAN
  OBVIOUS
<1>3. worker' = [worker EXCEPT !.at = "wait", !.failMode = failMode] /\ worker.at = "top"
  BY DEF WorkerTop
<1> HIDE DEF failMode
<1>4. /\ worker' \in Worker /\ worker'.at = "wait"
      /\ worker'.jobNum = worker.jobNum /\ worker'.query = worker.query
      /\ worker'.backup = worker.backup
  BY <1>1, <1>2, <1>3 DEF Worker
<1> QED
  BY <1>3, <1>4 DEF WorkerTop, tables, results, queue

LEMMA WorkerTopQueue ==
    ASSUME QueueInv, WorkerTop
    PROVE  QueueInv'
<1>1. /\ worker.at = "top"
      /\ worker' \in Worker /\ worker'.at = "wait" /\ worker'.jobNum = worker.jobNum
      /\ UNCHANGED <<setup, asked, slots, insertIdx, numBackup, numWorker, shutdown, main,
                     backup, db, past, status, answer, answered>>
  BY WorkerTopEffect
<1>2. TypeOK /\ SlotsInv /\ OrderInv /\ SignalsInv /\ ThreadsInv /\ AnswersInv /\ AskedInv
  BY DEF QueueInv
<1>3. TypeOK'
  BY <1>1, <1>2 DEF TypeOK, Worker
<1>4. SlotsInv' /\ OrderInv' /\ AskedInv'
  BY <1>1, <1>2 DEF SlotsInv, OrderInv, AskedInv, OpOf
<1>5. SignalsInv'
  BY <1>1, <1>2 DEF SignalsInv
<1>6. ThreadsInv' /\ AnswersInv'
  BY <1>1, <1>2 DEF ThreadsInv, AnswersInv, Handled, Busy
<1> QED
  BY <1>3, <1>4, <1>5, <1>6 DEF QueueInv

\* The worker takes the oldest query, or the end of the queue, and is not ahead of
\* the backup thread.
LEMMA WorkerTakeEffect ==
    ASSUME QueueInv, WorkerTake
    PROVE  /\ worker.at = "wait"
           /\ numWorker > 0 /\ numWorker' = numWorker - 1
           /\ slots' = [slots EXCEPT ![worker.jobNum % Slots] = 0]
           /\ UNCHANGED <<setup, asked, insertIdx, numBackup, main, backup, db, past, status, answer, answered>>
           /\ worker' \in Worker /\ worker'.backup = worker.backup
           /\ \/ /\ worker'.at = "done" /\ worker'.jobNum = worker.jobNum
                 /\ worker.jobNum = Len(asked) /\ backup.at = "done"
                 /\ shutdown' = FALSE
              \/ /\ worker'.at = "execute" /\ worker'.jobNum = worker.jobNum + 1
                 /\ worker'.query = worker.jobNum + 1
                 /\ worker.jobNum < backup.jobNum
                 /\ shutdown' = shutdown
<1>1. /\ worker.jobNum \in Nat /\ backup.jobNum \in Nat /\ Len(asked) \in Nat /\ numWorker \in Nat
      /\ worker \in Worker
  BY Numbers DEF QueueInv
<1>2. worker.jobNum <= backup.jobNum /\ backup.jobNum <= Len(asked)
  BY DEF QueueInv, OrderInv
<1> DEFINE q == slots[worker.jobNum % Slots]
<1>3. q = IF worker.jobNum < Len(asked) THEN worker.jobNum + 1 ELSE 0
  BY <1>1, <1>2, SlotContents
<1>4. /\ worker.at = "wait"
      /\ numWorker > 0 /\ numWorker' = numWorker - 1
      /\ slots' = [slots EXCEPT ![worker.jobNum % Slots] = 0]
      /\ UNCHANGED <<setup, asked, insertIdx, numBackup, main, backup, db, past, status, answer, answered>>
      /\ \/ /\ q = 0
            /\ worker' = [worker EXCEPT !.at = "done"]
            /\ shutdown' = FALSE
         \/ /\ q # 0
            /\ worker' = [worker EXCEPT !.at = "execute", !.jobNum = worker.jobNum + 1, !.query = q]
            /\ shutdown' = shutdown
  BY DEF WorkerTake, Signalled, MovedOut, tables, results
<1> HIDE DEF q
<1>5. /\ backup.at # "done" => worker.jobNum < backup.jobNum
      /\ backup.at = "done" => backup.jobNum = Len(asked)
  <2>1. SignalsInv /\ ThreadsInv
    BY DEF QueueInv
  <2>2. backup.at = "done" => backup.jobNum = Len(asked)
    BY <2>1 DEF ThreadsInv
  <2>3. ASSUME backup.at # "done" PROVE worker.jobNum < backup.jobNum
    <3>1. numWorker = backup.jobNum - worker.jobNum + 0
      BY <2>1, <2>3 DEF SignalsInv
    <3> QED
      BY <1>1, <1>4, <3>1
  <2> QED
    BY <2>2, <2>3
<1>6. CASE q = 0
  <2>1. worker.jobNum = Len(asked) /\ backup.at = "done"
    BY <1>1, <1>2, <1>3, <1>5, <1>6
  <2>2. worker' = [worker EXCEPT !.at = "done"] /\ shutdown' = FALSE
    BY <1>4, <1>6
  <2>3. /\ worker' \in Worker /\ worker'.backup = worker.backup
        /\ worker'.at = "done" /\ worker'.jobNum = worker.jobNum
    BY <1>1, <2>2 DEF Worker
  <2> QED
    BY <1>4, <2>1, <2>2, <2>3
<1>7. CASE q # 0
  <2>1. q = worker.jobNum + 1 /\ worker.jobNum < backup.jobNum /\ q \in Nat
    BY <1>1, <1>2, <1>3, <1>5, <1>7
  <2>2. /\ worker' = [worker EXCEPT !.at = "execute", !.jobNum = q, !.query = q]
        /\ shutdown' = shutdown
    BY <1>4, <1>7, <2>1
  <2>3. /\ worker' \in Worker /\ worker'.backup = worker.backup
        /\ worker'.at = "execute" /\ worker'.jobNum = q /\ worker'.query = q
    BY <1>1, <2>1, <2>2 DEF Worker
  <2> QED
    BY <1>4, <2>1, <2>2, <2>3
<1> QED
  BY <1>6, <1>7

LEMMA WorkerTakeQueue ==
    ASSUME QueueInv, WorkerTake
    PROVE  QueueInv'
<1> DEFINE w == worker.jobNum
           n == Len(asked)
           b == backup.jobNum
<1>1. /\ worker.at = "wait"
      /\ UNCHANGED <<setup, asked, insertIdx, numBackup, main, backup, db, past, status, answer, answered>>
      /\ worker' \in Worker
  BY WorkerTakeEffect
<1>2. numWorker > 0 /\ numWorker' = numWorker - 1
  BY WorkerTakeEffect
<1>3. slots' = [slots EXCEPT ![w % Slots] = 0]
  BY WorkerTakeEffect
<1>4. \/ worker'.at = "done" /\ worker'.jobNum = w /\ w = n /\ backup.at = "done" /\ shutdown' = FALSE
      \/ /\ worker'.at = "execute" /\ worker'.jobNum = w + 1 /\ worker'.query = w + 1
         /\ w < b /\ shutdown' = shutdown
  BY WorkerTakeEffect
<1>5. TypeOK /\ SlotsInv /\ OrderInv /\ SignalsInv /\ ThreadsInv /\ AnswersInv /\ AskedInv
  BY DEF QueueInv
<1>6. /\ Slots \in Nat \ {0} /\ Slots > 1
      /\ n \in Nat /\ w \in Nat /\ b \in Nat /\ numWorker \in Nat
  BY Numbers DEF QueueInv
<1>7. slots \in [0 .. Slots - 1 -> Nat]
  BY <1>5 DEF TypeOK
<1>8. w <= b /\ b <= n /\ n - w < Slots
  BY <1>5 DEF OrderInv
<1>9. w % Slots \in 0 .. Slots - 1
  BY <1>6
<1>10. TypeOK'
  <2>1. numWorker' \in Nat
    BY <1>2, <1>6
  <2>2. slots' \in [0 .. Slots - 1 -> Nat]
    BY <1>3, <1>7
  <2>3. shutdown' \in BOOLEAN
    BY <1>4, <1>5 DEF TypeOK
  <2> QED
    BY <1>1, <1>5, <2>1, <2>2, <2>3 DEF TypeOK, Worker
<1>11. SlotsInv'
  <2>1. ASSUME NEW q \in w + 2 .. n
        PROVE  slots'[(q - 1) % Slots] = q
    <3>1. q \in w + 1 .. n /\ q - 1 \in Nat /\ w <= q - 1 /\ (q - 1) - w < Slots /\ q - 1 # w
      BY <1>6, <1>8
    <3>2. slots[(q - 1) % Slots] = q
      BY <1>5, <3>1 DEF SlotsInv
    <3>3. (q - 1) % Slots # w % Slots
      BY <1>6, <3>1, ModEqual
    <3>4. (q - 1) % Slots \in 0 .. Slots - 1
      BY <1>6, <3>1, DivMod
    <3> QED
      BY <1>3, <1>7, <3>2, <3>3, <3>4
  <2>2. ASSUME NEW i \in 0 .. Slots - 1, slots'[i] # 0
        PROVE  slots'[i] \in w + 2 .. n /\ (slots'[i] - 1) % Slots = i
    <3> DEFINE v == slots[i]
    <3>1. i # w % Slots /\ slots'[i] = v
      BY <1>3, <1>7, <1>9, <2>2
    <3>2. v \in w + 1 .. n /\ (v - 1) % Slots = i
      BY <1>5, <2>2, <3>1 DEF SlotsInv
    <3> HIDE DEF v
    <3>3. v # w + 1
      <4>1. SUFFICES ASSUME v = w + 1 PROVE FALSE
        OBVIOUS
      <4>2. v - 1 = w
        BY <1>6, <4>1
      <4> QED
        BY <3>1, <3>2, <4>2
    <3>4. v \in w + 2 .. n
      BY <1>6, <3>2, <3>3
    <3> QED
      BY <3>1, <3>2, <3>4
  <2>3. w + 2 .. n = worker'.jobNum + 1 .. n
    <3>1. CASE worker'.jobNum = w + 1
      <4>1. (w + 1) + 1 = w + 2
        BY <1>6
      <4> QED
        BY <3>1, <4>1
    <3>2. CASE worker'.jobNum = w /\ w = n
      <4>1. w + 2 .. n = {} /\ w + 1 .. n = {}
        BY <1>6, <3>2
      <4> QED
        BY <3>2, <4>1
    <3> QED
      BY <1>4, <3>1, <3>2
  <2>4. asked' = asked
    BY <1>1
  <2> QED
    BY <2>1, <2>2, <2>3, <2>4 DEF SlotsInv
<1>12. worker'.jobNum <= b /\ n - worker'.jobNum < Slots
  <2>1. CASE worker'.jobNum = w
    BY <1>8, <2>1
  <2>2. CASE worker'.jobNum = w + 1 /\ w < b
    BY <1>6, <1>8, <2>2
  <2> QED
    BY <1>4, <2>1, <2>2
<1>13. OrderInv'
  BY <1>1, <1>5, <1>12 DEF OrderInv
<1>14. SignalsInv'
  <2> DEFINE x == numBackup = n - b + (IF main # "running" /\ backup.at # "done" THEN 1 ELSE 0)
                                  - (IF backup.at = "write" THEN 1 ELSE 0)
             waking == IF backup.at = "done" /\ worker.at # "done" THEN 1 ELSE 0
  <2>1. x /\ numWorker = b - w + waking
    BY <1>5 DEF SignalsInv
  <2>2. waking = IF backup.at = "done" THEN 1 ELSE 0
    BY <1>1
  <2>3. x' = x
    BY <1>1
  <2>4. ASSUME worker'.at = "done", worker'.jobNum = w, backup.at = "done"
        PROVE  waking' = 0 /\ numWorker' = b - worker'.jobNum + 0
    <3>1. waking = 1 /\ waking' = 0
      BY <1>1, <2>2, <2>4
    <3> HIDE DEF waking
    <3>2. b \in Int /\ w \in Int /\ numWorker = b - w + 1
      BY <1>6, <2>1, <3>1
    <3> HIDE DEF w, b
    <3>3. numWorker' = b - w + 0
      BY <1>2, <3>2
    <3> QED
      BY <2>4, <3>1, <3>3
  <2>5. ASSUME worker'.at = "execute", worker'.jobNum = w + 1
        PROVE  waking' = waking /\ numWorker' = b - worker'.jobNum + waking
    <3>1. waking' = waking /\ waking \in Int
      BY <1>1, <2>5
    <3> HIDE DEF waking
    <3>2. b \in Int /\ w \in Int /\ numWorker = b - w + waking
      BY <1>6, <2>1
    <3> HIDE DEF w, b
    <3>3. numWorker' = b - (w + 1) + waking
      BY <1>2, <3>1, <3>2
    <3> QED
      BY <2>5, <3>1, <3>3
  <2>6. numWorker' = b - worker'.jobNum + waking'
    BY <1>4, <2>4, <2>5
  <2>7. b' = b
    BY <1>1
  <2> QED
    BY <2>1, <2>3, <2>6, <2>7 DEF SignalsInv
<1>15. ThreadsInv'
  <2>1. worker'.at = "done" => backup.at = "done" /\ worker'.jobNum = n
    BY <1>4
  <2>2. Busy' => worker'.jobNum > 0 /\ worker'.query = worker'.jobNum
    <3>1. w + 1 > 0
      BY <1>6
    <3> QED
      BY <1>4, <3>1 DEF Busy
  <2> QED
    BY <1>1, <1>5, <2>1, <2>2 DEF ThreadsInv
<1>16. AnswersInv'
  <2>1. Handled = w
    BY <1>1 DEF Handled, Busy
  <2>2. Handled' = w
    <3>1. (w + 1) - 1 = w
      BY <1>6
    <3>2. CASE worker'.at = "done" /\ worker'.jobNum = w
      BY <3>2 DEF Handled, Busy
    <3>3. CASE worker'.at = "execute" /\ worker'.jobNum = w + 1
      BY <3>1, <3>3 DEF Handled, Busy
    <3> QED
      BY <1>4, <3>2, <3>3
  <2> QED
    BY <1>1, <1>5, <2>1, <2>2 DEF AnswersInv
<1>17. AskedInv'
  BY <1>1, <1>5 DEF AskedInv, OpOf
<1> QED
  BY <1>10, <1>11, <1>13, <1>14, <1>15, <1>16, <1>17 DEF QueueInv

LEMMA WorkerCompleteEffect ==
    ASSUME QueueInv, WorkerComplete
    PROVE  /\ worker.at = "complete" /\ Busy
           /\ worker' \in Worker /\ worker'.at = "top"
           /\ worker'.jobNum = worker.jobNum /\ worker'.query = worker.query
           /\ worker'.backup = worker.backup
           /\ worker.query = worker.jobNum /\ worker.query \in Id
           /\ answer' \in [Id -> {"open", "failed", "ok"}]
           /\ answer'[worker.query] = (IF worker.success THEN "ok" ELSE "failed")
           /\ answered' = Append(answered, worker.query) /\ answered' \in Seq(Id)
           /\ \A q \in Id : q # worker.query => answer'[q] = answer[q]
           /\ UNCHANGED <<setup, asked, slots, insertIdx, numBackup, numWorker, shutdown, main,
                          backup, db, past, status>>
<1> DEFINE result == IF worker.success THEN "ok" ELSE "failed"
<1>1. worker.at = "complete" /\ Busy
  BY DEF WorkerComplete, Busy
<1>2. worker \in Worker /\ answer \in [Id -> {"open", "failed", "ok"}]
  BY Numbers DEF QueueInv, TypeOK
<1>3. worker.query = worker.jobNum /\ worker.query \in Id
  BY <1>1, InHand DEF QueueInv, ThreadsInv
<1>4. answer' = [answer EXCEPT ![worker.query] = result] /\ worker' = [worker EXCEPT !.at = "top"]
  BY DEF WorkerComplete
<1>5. result \in {"failed", "ok"}
  OBVIOUS
<1> HIDE DEF result
<1>6. /\ answer' \in [Id -> {"open", "failed", "ok"}]
      /\ answer'[worker.query] = result
      /\ \A q \in Id : q # worker.query => answer'[q] = answer[q]
  BY <1>2, <1>3, <1>4, <1>5
<1>7. /\ worker' \in Worker /\ worker'.at = "top"
      /\ worker'.jobNum = worker.jobNum /\ worker'.query = worker.query
      /\ worker'.backup = worker.backup
  BY <1>2, <1>4 DEF Worker
<1>8. answered' = Append(answered, worker.query) /\ answered' \in Seq(Id)
  <2>1. answered \in Seq(Id) /\ answered' = Append(answered, worker.query)
    BY DEF QueueInv, TypeOK, WorkerComplete
  <2> QED
    BY <1>3, <2>1, AppendProperties
<1> QED
  BY <1>1, <1>3, <1>6, <1>7, <1>8 DEF WorkerComplete, tables, queue, result

LEMMA WorkerCompleteQueue ==
    ASSUME QueueInv, WorkerComplete
    PROVE  QueueInv'
<1>1. /\ worker.at = "complete" /\ Busy
      /\ worker' \in Worker /\ worker'.at = "top" /\ worker'.jobNum = worker.jobNum
      /\ worker.query = worker.jobNum
      /\ answer' \in [Id -> {"open", "failed", "ok"}]
      /\ answer'[worker.query] # "open" /\ answered' \in Seq(Id)
      /\ \A q \in Id : q # worker.query => answer'[q] = answer[q]
      /\ UNCHANGED <<setup, asked, slots, insertIdx, numBackup, numWorker, shutdown, main,
                     backup, db, past, status>>
  BY WorkerCompleteEffect
<1>2. TypeOK /\ SlotsInv /\ OrderInv /\ SignalsInv /\ ThreadsInv /\ AnswersInv /\ AskedInv
  BY DEF QueueInv
<1>3. TypeOK'
  BY <1>1, <1>2 DEF TypeOK, Worker
<1>4. SlotsInv' /\ OrderInv' /\ AskedInv'
  BY <1>1, <1>2 DEF SlotsInv, OrderInv, AskedInv, OpOf
<1>5. SignalsInv'
  BY <1>1, <1>2 DEF SignalsInv
<1>6. ThreadsInv'
  BY <1>1, <1>2 DEF ThreadsInv, Busy
<1>7. AnswersInv'
  <2>1. worker.jobNum \in Nat
    BY Numbers DEF QueueInv
  <2>2. Handled = worker.jobNum - 1
    BY <1>1 DEF Handled
  <2>3. Handled' = worker.jobNum
    BY <1>1 DEF Handled, Busy
  <2>4. ASSUME NEW q \in Id
        PROVE  answer'[q] # "open" <=> q <= worker.jobNum
    <3>1. q \in Int
      BY <1>2, DbPoolAssumption DEF Id
    <3>2. CASE q = worker.query
      BY <1>1, <2>1, <3>2
    <3>3. CASE q # worker.query
      <4>1. answer[q] # "open" <=> q <= worker.jobNum - 1
        BY <1>2, <2>2 DEF AnswersInv
      <4>2. q <= worker.jobNum - 1 <=> q <= worker.jobNum
        BY <1>1, <2>1, <3>1, <3>3
      <4> QED
        BY <1>1, <3>3, <4>1, <4>2
    <3> QED
      BY <3>2, <3>3
  <2> QED
    BY <2>3, <2>4 DEF AnswersInv
<1> QED
  BY <1>3, <1>4, <1>5, <1>6, <1>7 DEF QueueInv

LEMMA WorkerAddEffect ==
    ASSUME QueueInv, WorkerAdd
    PROVE  /\ worker.at = "execute" /\ Busy
           /\ OpOf(worker.query) \in {"addRead", "addWrite", "addBackup"}
           /\ worker' \in Worker /\ worker'.at = "complete"
           /\ worker'.jobNum = worker.jobNum /\ worker'.query = worker.query
           /\ worker'.backup = (worker.backup \/ OpOf(worker.query) = "addBackup")
           /\ UNCHANGED <<setup, asked, slots, insertIdx, numBackup, numWorker, shutdown, main,
                          backup, db, past, status, answer, answered>>
<1> DEFINE op == OpOf(worker.query)
           reads == IF op = "addRead" THEN worker.reads + 1 ELSE worker.reads
           write == worker.write \/ op = "addWrite"
           known == worker.backup \/ op = "addBackup"
<1>1. worker.at = "execute" /\ Busy /\ op \in {"addRead", "addWrite", "addBackup"}
  BY DEF WorkerAdd, Busy
<1>2. worker \in Worker
  BY Numbers DEF QueueInv
<1>3. reads \in Nat
  BY <1>2 DEF Worker
<1>4. write \in BOOLEAN /\ known \in BOOLEAN
  OBVIOUS
<1>5. worker' = [worker EXCEPT !.at = "complete", !.success = TRUE, !.reads = reads,
                               !.write = write, !.backup = known]
  BY DEF WorkerAdd
<1> HIDE DEF reads, write, known
<1>6. /\ worker' \in Worker /\ worker'.at = "complete"
      /\ worker'.jobNum = worker.jobNum /\ worker'.query = worker.query
      /\ worker'.backup = known
  <2> DEFINE d == [worker EXCEPT !.at = "complete", !.success = TRUE, !.reads = reads,
                                 !.write = write, !.backup = known]
  <2>1. d \in Worker /\ d.at = "complete" /\ d.jobNum = worker.jobNum /\ d.query = worker.query
        /\ d.backup = known
    BY <1>2, <1>3, <1>4 DEF Worker
  <2>2. worker' = d
    BY <1>5
  <2> HIDE DEF d
  <2> QED
    BY <2>1, <2>2
<1> QED
  BY <1>1, <1>6 DEF WorkerAdd, tables, results, queue, known

LEMMA WorkerReadEffect ==
    ASSUME QueueInv, WorkerRead
    PROVE  /\ worker.at = "execute" /\ Busy /\ OpOf(worker.query) = "read"
           /\ worker' \in Worker /\ worker'.at = "complete"
           /\ worker'.jobNum = worker.jobNum /\ worker'.query = worker.query
           /\ worker'.backup = worker.backup
           /\ UNCHANGED <<setup, asked, slots, insertIdx, numBackup, numWorker, shutdown, main,
                          backup, db, past, status, answer, answered>>
<1>1. worker.at = "execute" /\ Busy /\ OpOf(worker.query) = "read"
  BY DEF WorkerRead, Busy
<1>2. worker \in Worker
  BY Numbers DEF QueueInv
<1>3. PICK ok \in BOOLEAN :
         worker' = [worker EXCEPT !.at = "complete", !.success = ok,
                                  !.failMode = worker.failMode \/ ~ok]
  BY DEF WorkerRead
<1> DEFINE failMode == worker.failMode \/ ~ok
<1>4. failMode \in BOOLEAN /\ worker' = [worker EXCEPT !.at = "complete", !.success = ok,
                                                       !.failMode = failMode]
  BY <1>3
<1> HIDE DEF failMode
<1>5. /\ worker' \in Worker /\ worker'.at = "complete"
      /\ worker'.jobNum = worker.jobNum /\ worker'.query = worker.query
      /\ worker'.backup = worker.backup
  BY <1>2, <1>4 DEF Worker
<1> QED
  BY <1>1, <1>5 DEF WorkerRead, tables, results, queue

\* A write function on the WRITE database.
LEMMA StoreEffect ==
    ASSUME QueueInv, NEW q \in Id, NEW o \in {"error", "lost", "ok"}, Store(q, o)
    PROVE  /\ db' \in Tables /\ past' \in Past /\ status' \in [Id -> Status]
           /\ db'.copy = db.copy /\ db'.backup = db.backup
           /\ past'.taken = past.taken /\ past'.fault = past.fault
           /\ o = "error" => db' = db /\ past'.kept = past.kept
           /\ o # "error" => db'.write = db.write \cup {q} /\ past'.kept = past.kept \cup {q}
           /\ past'.lost = IF o = "lost" THEN past.lost \cup {q} ELSE past.lost
           /\ past'.first = past.first /\ past'.unheard = past.unheard
           /\ status'[q] = IF OpOf(q) = "save" /\ o = "ok" THEN "SAVE_SUCCESS" ELSE status[q]
           /\ \A p \in Id : p # q => status'[p] = status[p]
<1>1. db \in Tables /\ past \in Past /\ status \in [Id -> Status]
  BY DEF QueueInv, TypeOK, Tables, Past
<1> DEFINE kept == IF o = "error" THEN past.kept ELSE past.kept \cup {q}
           lost == IF o = "lost" THEN past.lost \cup {q} ELSE past.lost
           told == IF OpOf(q) = "save" /\ o = "ok" THEN "SAVE_SUCCESS" ELSE status[q]
<1>2. kept \in SUBSET Id /\ lost \in SUBSET Id
  BY <1>1 DEF Past
<1>3. told \in Status
  BY <1>1 DEF Status
<1>4. past' = [past EXCEPT !.kept = kept, !.lost = lost]
  BY DEF Store
<1>5. status' = [status EXCEPT ![q] = told]
  BY DEF Store, Saved
<1>6. db' = IF o = "error" THEN db ELSE [db EXCEPT !.write = db.write \cup {q}]
  BY DEF Store
<1>7. /\ db' \in Tables /\ db'.copy = db.copy /\ db'.backup = db.backup
      /\ o # "error" => db'.write = db.write \cup {q}
  BY <1>1, <1>6 DEF Tables
<1> HIDE DEF kept, lost, told
<1>8. past' \in Past /\ past'.taken = past.taken /\ past'.fault = past.fault
      /\ past'.kept = kept /\ past'.lost = lost
      /\ past'.first = past.first /\ past'.unheard = past.unheard
  BY <1>1, <1>2, <1>4 DEF Past
<1>9. /\ status' \in [Id -> Status]
      /\ status'[q] = told
      /\ \A p \in Id : p # q => status'[p] = status[p]
  BY <1>1, <1>3, <1>5
<1> QED
  BY <1>6, <1>7, <1>8, <1>9 DEF kept, lost, told

\* LoadTeam finds the save and takes it away, or changes nothing.
LEMMA LoadEffect ==
    ASSUME QueueInv, NEW q \in Id, NEW t \in {"write", "backup"},
           NEW o \in {"error", "lost", "ok", "refused"}, Load(q, t, o)
    PROVE  /\ db' \in Tables /\ past' \in Past /\ status' \in [Id -> Status]
           /\ db'.copy = db.copy
           /\ past'.kept = past.kept /\ past'.lost = past.lost /\ past'.fault = past.fault
           /\ past'.first = past.first /\ past.unheard \subseteq past'.unheard
           /\ o \notin {"ok", "refused"} => status'[q] = "LOAD_FAILED"
           /\ \/ /\ db'.write = db.write /\ db'.backup = db.backup /\ past'.taken = past.taken
                 /\ status'[q] = "LOAD_FAILED"
              \/ /\ asked[q].save \in db[t]
                 /\ db'[t] = db[t] \ {asked[q].save}
                 /\ \A u \in {"write", "backup"} : u # t => db'[u] = db[u]
                 /\ past'.taken = past.taken \cup {asked[q].save}
                 /\ status'[q] \in {"LOAD_SUCCESS", "LOAD_FAILED"}
                 /\ status'[q] = "LOAD_SUCCESS" \/ asked[q].save \in past'.unheard
           /\ \A p \in Id : p # q => status'[p] = status[p]
<1>1. db \in Tables /\ past \in Past /\ status \in [Id -> Status]
  BY DEF QueueInv, TypeOK, Tables, Past
<1> DEFINE s == asked[q].save
           found == s \in db[t] /\ o \in {"ok", "lost"}
           told == IF found /\ o = "ok" THEN "LOAD_SUCCESS" ELSE "LOAD_FAILED"
           taken == IF found THEN past.taken \cup {s} ELSE past.taken
           unheard == IF found /\ o = "lost" THEN past.unheard \cup {s} ELSE past.unheard
<1>2. /\ db' = IF found THEN [db EXCEPT ![t] = db[t] \ {s}] ELSE db
      /\ status' = [status EXCEPT ![q] = told]
      /\ past' = [past EXCEPT !.taken = taken, !.unheard = unheard]
  BY DEF Load, Taken
<1>3. /\ told \in Status /\ told \in {"LOAD_SUCCESS", "LOAD_FAILED"}
      /\ ~found \/ o \notin {"ok", "refused"} => told = "LOAD_FAILED"
      /\ found => told = "LOAD_SUCCESS" \/ o = "lost"
  BY DEF Status
<1>4. found => s \in Id /\ s \in db[t]
  BY <1>1 DEF Tables
<1>5. taken \in SUBSET Id /\ unheard \in SUBSET Id
  BY <1>1, <1>4 DEF Past
<1>6. /\ taken = IF found THEN past.taken \cup {s} ELSE past.taken
      /\ past.unheard \subseteq unheard
      /\ found => told = "LOAD_SUCCESS" \/ s \in unheard
  BY <1>3
<1> HIDE DEF found, told, taken, unheard, s
<1>7. past' \in Past /\ past'.taken = taken /\ past'.kept = past.kept /\ past'.lost = past.lost
      /\ past'.fault = past.fault /\ past'.first = past.first /\ past'.unheard = unheard
  BY <1>1, <1>2, <1>5 DEF Past
<1>8. /\ status' \in [Id -> Status] /\ status'[q] = told
      /\ \A p \in Id : p # q => status'[p] = status[p]
  BY <1>1, <1>2, <1>3
<1>9. /\ db' \in Tables /\ db'.copy = db.copy
      /\ found => /\ db'[t] = db[t] \ {s}
                  /\ \A u \in {"write", "backup"} : u # t => db'[u] = db[u]
      /\ ~found => db' = db
  <2>1. CASE t = "write"
    BY <1>1, <1>2, <2>1 DEF Tables
  <2>2. CASE t = "backup"
    BY <1>1, <1>2, <2>2 DEF Tables
  <2> QED
    BY <2>1, <2>2
<1> QED
  BY <1>3, <1>4, <1>6, <1>7, <1>8, <1>9 DEF s

\* What goes on with the query in hand.
Continues(at, success) ==
    /\ worker' \in Worker /\ worker'.at = at /\ worker'.success = success
    /\ worker'.jobNum = worker.jobNum /\ worker'.query = worker.query
    /\ worker'.backup = worker.backup
    /\ UNCHANGED <<setup, asked, slots, insertIdx, numBackup, numWorker, shutdown, main, backup,
                   answer, answered>>

LEMMA WorkerWriteEffect ==
    ASSUME QueueInv, WorkerWrite
    PROVE  LET q == worker.query
           IN  /\ worker.at = "execute" /\ Busy
               /\ OpOf(q) \in {"rank", "save", "load"}
               /\ q \in Id /\ q = worker.jobNum
               /\ \E success \in BOOLEAN :
                     /\ Continues(IF worker.backup THEN "tidy" ELSE "complete", success)
                     /\ \/ ~success /\ UNCHANGED <<db, past, status>>
                        \/ /\ Stores(q)
                           /\ \E o \in {"error", "lost", "ok"} :
                                 Store(q, o) /\ (success <=> o = "ok")
                        \/ /\ ~Stores(q)
                           /\ \E o \in {"error", "lost", "ok", "refused"} :
                                 Load(q, "write", o) /\ (success <=> o \in {"ok", "refused"})
<1> DEFINE q == worker.query
           skip == (worker.backup /\ (shutdown \/ worker.failMode)) \/ ~worker.write
           next == IF worker.backup THEN "tidy" ELSE "complete"
<1>1. worker.at = "execute" /\ Busy /\ OpOf(q) \in {"rank", "save", "load"}
  BY DEF WorkerWrite, Busy
<1>2. q \in Id /\ q = worker.jobNum
  BY <1>1, InHand DEF QueueInv, ThreadsInv
<1>3. PICK o \in IF skip THEN {"error"} ELSE Outcomes(OpOf(q)) :
         /\ IF skip THEN UNCHANGED <<tables, status>>
            ELSE IF Stores(q) THEN Store(q, o)
            ELSE Load(q, "write", o)
         /\ worker' = [worker EXCEPT !.at = next, !.success = o \in Succeeded,
                                     !.failMode = worker.failMode \/ ~(o \in Succeeded)]
  BY DEF WorkerWrite
<1> DEFINE success == o \in Succeeded
           failMode == worker.failMode \/ ~success
<1>4. success \in BOOLEAN /\ failMode \in BOOLEAN
  OBVIOUS
<1>5. worker' = [worker EXCEPT !.at = next, !.success = success, !.failMode = failMode]
  BY <1>3
<1>6. next \in {"tidy", "complete"} /\ worker \in Worker
  BY Numbers DEF QueueInv
<1> HIDE DEF next, failMode
<1>7. Continues(next, success)
  <2>1. UNCHANGED <<setup, asked, slots, insertIdx, numBackup, numWorker, shutdown, main, backup,
                    answer, answered>>
    BY DEF WorkerWrite, queue, results
  <2> HIDE DEF success
  <2>2. /\ worker' \in Worker /\ worker'.at = next /\ worker'.success = success
        /\ worker'.jobNum = worker.jobNum /\ worker'.query = worker.query
        /\ worker'.backup = worker.backup
    BY <1>4, <1>5, <1>6 DEF Worker
  <2> QED
    BY <2>1, <2>2 DEF Continues
<1>8. \/ ~success /\ UNCHANGED <<db, past, status>>
      \/ Stores(q) /\ \E r \in {"error", "lost", "ok"} : Store(q, r) /\ (success <=> r = "ok")
      \/ ~Stores(q) /\ \E r \in {"error", "lost", "ok", "refused"} :
                          Load(q, "write", r) /\ (success <=> r \in {"ok", "refused"})
  <2>1. CASE skip
    <3>1. o = "error"
      BY <1>3, <2>1
    <3> QED
      BY <1>3, <2>1, <3>1 DEF Succeeded, tables, results
  <2>2. CASE ~skip /\ Stores(q)
    <3>1. o \in {"error", "lost", "ok"}
      BY <1>3, <2>2 DEF Outcomes, Stores
    <3>2. Store(q, o) /\ (success <=> o = "ok")
      BY <1>3, <2>2, <3>1 DEF Succeeded
    <3> QED
      BY <2>2, <3>1, <3>2
  <2>3. CASE ~skip /\ ~Stores(q)
    <3>1. o \in {"error", "lost", "ok", "refused"}
      BY <1>3, <2>3 DEF Outcomes
    <3>2. Load(q, "write", o) /\ (success <=> o \in {"ok", "refused"})
      BY <1>3, <2>3 DEF Succeeded
    <3> QED
      BY <2>3, <3>1, <3>2
  <2> QED
    BY <2>1, <2>2, <2>3
<1> HIDE DEF success
<1>9. \E r \in BOOLEAN :
         /\ Continues(next, r)
         /\ \/ ~r /\ UNCHANGED <<db, past, status>>
            \/ Stores(q) /\ \E u \in {"error", "lost", "ok"} : Store(q, u) /\ (r <=> u = "ok")
            \/ ~Stores(q) /\ \E u \in {"error", "lost", "ok", "refused"} :
                                Load(q, "write", u) /\ (r <=> u \in {"ok", "refused"})
  BY <1>4, <1>7, <1>8
<1> QED
  BY <1>1, <1>2, <1>9 DEF next

\* The statements on the backup file.
LEMMA WorkerTidyEffect ==
    ASSUME QueueInv, WorkerTidy
    PROVE  LET q == worker.query
           IN  /\ worker.at = "tidy" /\ Busy /\ Stores(q) /\ q \in Id /\ q = worker.jobNum
               /\ db' \in Tables /\ past' \in Past /\ status' = status
               /\ \/ /\ worker.success /\ Continues("complete", worker.success)
                     /\ db'.write = db.write /\ db'.copy = db.copy \ {q} /\ db'.backup = db.backup
                     /\ past' = past
                  \/ /\ ~worker.success /\ Continues("drop", worker.success)
                     /\ db'.write = db.write /\ db'.copy = db.copy
                     /\ db'.backup = db.backup \cup (db.copy \cap {q})
                     /\ past' = past
                  \/ /\ Continues("complete", worker.success)
                     /\ db' = db
                     /\ past'.kept = past.kept /\ past'.taken = past.taken
                     /\ past'.lost = past.lost /\ past'.fault = past.fault \cup {q}
                     /\ past'.first = past.first /\ past'.unheard = past.unheard
<1> DEFINE q == worker.query
<1>1. worker.at = "tidy" /\ Busy /\ Stores(q)
  BY DEF WorkerTidy, Busy
<1>2. q \in Id /\ q = worker.jobNum
  BY <1>1, InHand DEF QueueInv, ThreadsInv
<1>3. db \in Tables /\ past \in Past /\ worker \in Worker
  BY Numbers DEF QueueInv, TypeOK, Tables, Past
<1>4. /\ UNCHANGED <<setup, asked, slots, insertIdx, numBackup, numWorker, shutdown, main, backup,
                     answer, answered>>
      /\ status' = status
  BY DEF WorkerTidy, queue, results
<1>5. \/ /\ db' = IF worker.success THEN Dropped(q) ELSE Moved(q)
         /\ worker' = [worker EXCEPT !.at = IF worker.success THEN "complete" ELSE "drop"]
         /\ past' = past
      \/ /\ worker' = [worker EXCEPT !.at = "complete"]
         /\ past' = [past EXCEPT !.fault = past.fault \cup {q}]
         /\ db' = db
  BY DEF WorkerTidy
<1>6. ASSUME NEW at \in {"complete", "drop"}, worker' = [worker EXCEPT !.at = at]
      PROVE  Continues(at, worker.success)
  BY <1>3, <1>4, <1>6 DEF Continues, Worker
<1>7. CASE worker.success /\ db' = Dropped(q) /\ worker' = [worker EXCEPT !.at = "complete"]
           /\ past' = past
  <2>1. db' \in Tables /\ db'.write = db.write /\ db'.copy = db.copy \ {q} /\ db'.backup = db.backup
    BY <1>3, <1>7 DEF Dropped, Tables
  <2> QED
    BY <1>1, <1>2, <1>3, <1>4, <1>6, <1>7, <2>1
<1>8. CASE ~worker.success /\ db' = Moved(q) /\ worker' = [worker EXCEPT !.at = "drop"]
           /\ past' = past
  <2>1. /\ db' \in Tables /\ db'.write = db.write /\ db'.copy = db.copy
        /\ db'.backup = db.backup \cup (db.copy \cap {q})
    BY <1>2, <1>3, <1>8 DEF Moved, Tables
  <2> QED
    BY <1>1, <1>2, <1>3, <1>4, <1>6, <1>8, <2>1
<1>9. CASE /\ worker' = [worker EXCEPT !.at = "complete"]
           /\ past' = [past EXCEPT !.fault = past.fault \cup {q}]
           /\ db' = db
  <2>1. /\ past' \in Past /\ past'.kept = past.kept /\ past'.taken = past.taken
        /\ past'.lost = past.lost /\ past'.fault = past.fault \cup {q}
        /\ past'.first = past.first /\ past'.unheard = past.unheard
    BY <1>2, <1>3, <1>9 DEF Past
  <2> QED
    BY <1>1, <1>2, <1>3, <1>4, <1>6, <1>9, <2>1
<1> QED
  BY <1>5, <1>7, <1>8, <1>9

LEMMA WorkerDropEffect ==
    ASSUME QueueInv, WorkerDrop
    PROVE  LET q == worker.query
           IN  /\ worker.at = "drop" /\ Busy /\ q \in Id /\ q = worker.jobNum
               /\ db' \in Tables /\ past' \in Past /\ status' = status
               /\ \/ /\ Continues("complete", TRUE)
                     /\ db'.write = db.write /\ db'.copy = db.copy \ {q} /\ db'.backup = db.backup
                     /\ past' = past
                  \/ /\ Continues("complete", worker.success)
                     /\ db' = db
                     /\ past'.kept = past.kept /\ past'.taken = past.taken
                     /\ past'.lost = past.lost /\ past'.fault = past.fault \cup {q}
                     /\ past'.first = past.first /\ past'.unheard = past.unheard
<1> DEFINE q == worker.query
<1>1. worker.at = "drop" /\ Busy
  BY DEF WorkerDrop, Busy
<1>2. q \in Id /\ q = worker.jobNum
  BY <1>1, InHand DEF QueueInv, ThreadsInv
<1>3. db \in Tables /\ past \in Past /\ worker \in Worker
  BY Numbers DEF QueueInv, TypeOK, Tables, Past
<1>4. /\ UNCHANGED <<setup, asked, slots, insertIdx, numBackup, numWorker, shutdown, main, backup,
                     answer, answered>>
      /\ status' = status
  BY DEF WorkerDrop, queue, results
<1>5. \/ /\ db' = Dropped(q)
         /\ worker' = [worker EXCEPT !.at = "complete", !.success = TRUE]
         /\ past' = past
      \/ /\ worker' = [worker EXCEPT !.at = "complete"]
         /\ past' = [past EXCEPT !.fault = past.fault \cup {q}]
         /\ db' = db
  BY DEF WorkerDrop
<1>6. CASE /\ db' = Dropped(q)
           /\ worker' = [worker EXCEPT !.at = "complete", !.success = TRUE]
           /\ past' = past
  <2>1. db' \in Tables /\ db'.write = db.write /\ db'.copy = db.copy \ {q} /\ db'.backup = db.backup
    BY <1>3, <1>6 DEF Dropped, Tables
  <2>2. Continues("complete", TRUE)
    BY <1>3, <1>4, <1>6 DEF Continues, Worker
  <2> QED
    BY <1>1, <1>2, <1>3, <1>4, <1>6, <2>1, <2>2
<1>7. CASE /\ worker' = [worker EXCEPT !.at = "complete"]
           /\ past' = [past EXCEPT !.fault = past.fault \cup {q}]
           /\ db' = db
  <2>1. /\ past' \in Past /\ past'.kept = past.kept /\ past'.taken = past.taken
        /\ past'.lost = past.lost /\ past'.fault = past.fault \cup {q}
        /\ past'.first = past.first /\ past'.unheard = past.unheard
    BY <1>2, <1>3, <1>7 DEF Past
  <2>2. Continues("complete", worker.success)
    BY <1>3, <1>4, <1>7 DEF Continues, Worker
  <2> QED
    BY <1>1, <1>2, <1>3, <1>4, <1>7, <2>1, <2>2
<1> QED
  BY <1>5, <1>6, <1>7

LEMMA WorkerLoadBackupEffect ==
    ASSUME QueueInv, WorkerLoadBackup
    PROVE  LET q == worker.query
           IN  /\ worker.at = "tidy" /\ Busy /\ ~Stores(q) /\ q \in Id /\ q = worker.jobNum
               /\ \E success \in BOOLEAN : Continues("complete", success)
               /\ \/ UNCHANGED <<db, past, status>>
                  \/ /\ ~worker.success
                     /\ \E o \in {"error", "lost", "ok", "refused"} : Load(q, "backup", o)
<1> DEFINE q == worker.query
<1>1. worker.at = "tidy" /\ Busy /\ ~Stores(q)
  BY DEF WorkerLoadBackup, Busy
<1>2. q \in Id /\ q = worker.jobNum
  BY <1>1, InHand DEF QueueInv, ThreadsInv
<1>3. worker \in Worker
  BY Numbers DEF QueueInv
<1>4. UNCHANGED <<setup, asked, slots, insertIdx, numBackup, numWorker, shutdown, main, backup,
                  answer, answered>>
  BY DEF WorkerLoadBackup, queue, results
<1>5. CASE worker' = [worker EXCEPT !.at = "complete"] /\ UNCHANGED <<tables, status>>
  <2>1. worker.success \in BOOLEAN
    BY <1>3 DEF Worker
  <2>2. Continues("complete", worker.success)
    BY <1>3, <1>4, <1>5 DEF Continues, Worker
  <2> QED
    BY <1>1, <1>2, <1>5, <2>1, <2>2 DEF tables, results
<1>6. CASE ~worker.success /\ \E o \in {"error", "ok", "refused"} :
              /\ Load(q, "backup", o)
              /\ worker' = [worker EXCEPT !.at = "complete", !.success = o # "error"]
  <2>1. PICK o \in {"error", "ok", "refused"} :
           /\ Load(q, "backup", o)
           /\ worker' = [worker EXCEPT !.at = "complete", !.success = o # "error"]
    BY <1>6
  <2> DEFINE success == o # "error"
  <2>2. success \in BOOLEAN
    OBVIOUS
  <2>3. worker' = [worker EXCEPT !.at = "complete", !.success = success]
    BY <2>1
  <2> HIDE DEF success
  <2>4. Continues("complete", success)
    BY <1>3, <1>4, <2>2, <2>3 DEF Continues, Worker
  <2> QED
    BY <1>1, <1>2, <1>6, <2>1, <2>2, <2>4
<1> QED
  BY <1>5, <1>6 DEF WorkerLoadBackup

LEMMA ContinuesQueue ==
    ASSUME QueueInv, Busy, NEW at \in {"execute", "tidy", "drop", "complete"},
           \E success \in BOOLEAN : Continues(at, success),
           db' \in Tables, past' \in Past, status' \in [Id -> Status]
    PROVE  QueueInv'
BY WorkerStep DEF Continues

LEMMA WorkerAddQueue ==
    ASSUME QueueInv, WorkerAdd \/ WorkerRead
    PROVE  QueueInv'
<1>1. db \in Tables /\ past \in Past /\ status \in [Id -> Status]
  BY DEF QueueInv, TypeOK, Tables, Past
<1>2. /\ Busy /\ worker' \in Worker /\ worker'.at = "complete"
      /\ worker'.jobNum = worker.jobNum /\ worker'.query = worker.query
      /\ UNCHANGED <<setup, asked, slots, insertIdx, numBackup, numWorker, shutdown, main,
                     backup, db, past, status, answer, answered>>
  BY WorkerAddEffect, WorkerReadEffect
<1> QED
  BY <1>1, <1>2, WorkerStep

LEMMA WorkerWriteQueue ==
    ASSUME QueueInv, WorkerWrite
    PROVE  QueueInv'
<1> DEFINE q == worker.query
           next == IF worker.backup THEN "tidy" ELSE "complete"
<1>1. Busy /\ q \in Id
  BY WorkerWriteEffect
<1>2. PICK success \in BOOLEAN :
         /\ Continues(next, success)
         /\ \/ UNCHANGED <<db, past, status>>
            \/ \E o \in {"error", "lost", "ok"} : Store(q, o)
            \/ \E o \in {"error", "lost", "ok", "refused"} : Load(q, "write", o)
  BY WorkerWriteEffect
<1>3. next \in {"execute", "tidy", "drop", "complete"}
  OBVIOUS
<1>4. db' \in Tables /\ past' \in Past /\ status' \in [Id -> Status]
  <2>1. CASE UNCHANGED <<db, past, status>>
    BY <2>1 DEF QueueInv, TypeOK, Tables, Past
  <2>2. CASE \E o \in {"error", "lost", "ok"} : Store(q, o)
    BY <1>1, <2>2, StoreEffect
  <2>3. CASE \E o \in {"error", "lost", "ok", "refused"} : Load(q, "write", o)
    BY <1>1, <2>3, LoadEffect
  <2> QED
    BY <1>2, <2>1, <2>2, <2>3
<1> HIDE DEF next
<1> QED
  BY <1>1, <1>2, <1>3, <1>4, ContinuesQueue

LEMMA WorkerTidyQueue ==
    ASSUME QueueInv, WorkerTidy
    PROVE  QueueInv'
<1>1. worker.success \in BOOLEAN /\ status \in [Id -> Status]
  BY Numbers DEF Worker, QueueInv, TypeOK
<1>2. /\ Busy /\ db' \in Tables /\ past' \in Past /\ status' = status
      /\ \/ Continues("complete", worker.success)
         \/ Continues("drop", worker.success)
  BY WorkerTidyEffect
<1> QED
  BY <1>1, <1>2, ContinuesQueue

LEMMA WorkerDropQueue ==
    ASSUME QueueInv, WorkerDrop
    PROVE  QueueInv'
<1>1. worker.success \in BOOLEAN /\ TRUE \in BOOLEAN /\ status \in [Id -> Status]
  BY Numbers DEF Worker, QueueInv, TypeOK
<1>2. /\ Busy /\ db' \in Tables /\ past' \in Past /\ status' = status
      /\ \/ Continues("complete", worker.success)
         \/ Continues("complete", TRUE)
  BY WorkerDropEffect
<1> QED
  BY <1>1, <1>2, ContinuesQueue

LEMMA WorkerLoadBackupQueue ==
    ASSUME QueueInv, WorkerLoadBackup
    PROVE  QueueInv'
<1> DEFINE q == worker.query
<1>1. /\ Busy /\ q \in Id
      /\ \E success \in BOOLEAN : Continues("complete", success)
      /\ \/ UNCHANGED <<db, past, status>>
         \/ \E o \in {"error", "lost", "ok", "refused"} : Load(q, "backup", o)
  BY WorkerLoadBackupEffect
<1>2. db' \in Tables /\ past' \in Past /\ status' \in [Id -> Status]
  <2>1. CASE UNCHANGED <<db, past, status>>
    BY <2>1 DEF QueueInv, TypeOK, Tables, Past
  <2>2. CASE \E o \in {"error", "lost", "ok", "refused"} : Load(q, "backup", o)
    BY <1>1, <2>2, LoadEffect
  <2> QED
    BY <1>1, <2>1, <2>2
<1> QED
  BY <1>1, <1>2, ContinuesQueue

LEMMA QueueStutter ==
    ASSUME QueueInv, UNCHANGED vars
    PROVE  QueueInv'
<1>1. UNCHANGED <<setup, asked, slots, insertIdx, numBackup, numWorker, shutdown, main, backup,
                  worker, db, past, status, answer, answered>>
  BY DEF vars, queue, tables, results
<1>2. TypeOK /\ SlotsInv /\ OrderInv /\ SignalsInv /\ ThreadsInv /\ AnswersInv /\ AskedInv
  BY DEF QueueInv
<1>3. TypeOK'
  BY <1>1, <1>2 DEF TypeOK
<1>4. SlotsInv' /\ OrderInv' /\ SignalsInv' /\ ThreadsInv' /\ AnswersInv' /\ AskedInv'
  BY <1>1, <1>2 DEF SlotsInv, OrderInv, SignalsInv, ThreadsInv, AnswersInv, Handled, Busy,
                    AskedInv, OpOf
<1> QED
  BY <1>3, <1>4 DEF QueueInv

LEMMA QueueStep == QueueInv /\ [Next]_vars => QueueInv'
<1> SUFFICES ASSUME QueueInv, [Next]_vars PROVE QueueInv'
  OBVIOUS
<1>1. ASSUME Room, Register PROVE QueueInv'
  BY <1>1, RegisterQueue
<1>2. ASSUME Room, NEW op \in Op, Execute(op) PROVE QueueInv'
  BY <1>2, ExecuteQueue
<1>3. ASSUME OnShutdown PROVE QueueInv'
  BY <1>3, OnShutdownQueue
<1>4. ASSUME ShutdownDone PROVE QueueInv'
  BY <1>4, ShutdownDoneQueue
<1>5. ASSUME BackupLook PROVE QueueInv'
  BY <1>5, BackupLookQueue
<1>6. ASSUME BackupWrite PROVE QueueInv'
  BY <1>6, BackupWriteQueue
<1>7. ASSUME WorkerTop PROVE QueueInv'
  BY <1>7, WorkerTopQueue
<1>8. ASSUME WorkerTake PROVE QueueInv'
  BY <1>8, WorkerTakeQueue
<1>9. ASSUME WorkerAdd \/ WorkerRead PROVE QueueInv'
  BY <1>9, WorkerAddQueue
<1>10. ASSUME WorkerWrite PROVE QueueInv'
  BY <1>10, WorkerWriteQueue
<1>11. ASSUME WorkerTidy PROVE QueueInv'
  BY <1>11, WorkerTidyQueue
<1>12. ASSUME WorkerDrop PROVE QueueInv'
  BY <1>12, WorkerDropQueue
<1>13. ASSUME WorkerLoadBackup PROVE QueueInv'
  BY <1>13, WorkerLoadBackupQueue
<1>14. ASSUME WorkerComplete PROVE QueueInv'
  BY <1>14, WorkerCompleteQueue
<1>15. ASSUME UNCHANGED vars PROVE QueueInv'
  BY <1>15, QueueStutter
<1> DEFINE Goal == QueueInv'
<1> HIDE DEF Goal
<1> QED
  BY <1>1, <1>2, <1>3, <1>4, <1>5, <1>6, <1>7, <1>8, <1>9, <1>10, <1>11, <1>12, <1>13, <1>14,
     <1>15 DEF Next

LEMMA QueueAlways == Spec => []QueueInv
BY QueueInit, QueueStep, PTL DEF Spec

\* Every variable keeps its type.
THEOREM TypeCorrect == Spec => []TypeOK
<1>1. QueueInv => TypeOK
  BY DEF QueueInv
<1> QED
  BY <1>1, QueueAlways, PTL

\* The queue without a lock: the slots hold what is between the main thread and
\* the worker, no thread overtakes the one before it and the semaphores count
\* what is in between, for every size of the ring.
THEOREM PipelineCorrect == Spec => []Pipeline
<1>1. ASSUME QueueInv PROVE Pipeline
  <2>1. OrderInv /\ SignalsInv /\ SlotsInv /\ ThreadsInv
    BY <1>1 DEF QueueInv
  <2>2. /\ Slots \in Nat \ {0} /\ Len(asked) \in Nat /\ worker.jobNum \in Nat
        /\ backup.jobNum \in Nat
        /\ slots \in [0 .. Slots - 1 -> Nat]
    BY <1>1, Numbers DEF QueueInv, TypeOK
  <2>3. ASSUME NEW i \in DOMAIN slots
        PROVE  IF InSlot(i) = {} THEN slots[i] = 0 ELSE slots[i] \in InSlot(i)
    <3>1. i \in 0 .. Slots - 1
      BY <2>2
    <3>2. CASE slots[i] = 0
      <4>1. ASSUME NEW q \in InSlot(i) PROVE FALSE
        <5>1. q \in worker.jobNum + 1 .. Len(asked) /\ (q - 1) % Slots = i
          BY <4>1 DEF InSlot
        <5>2. slots[i] = q
          BY <2>1, <5>1 DEF SlotsInv
        <5>3. q # 0
          BY <2>2, <5>1
        <5> QED
          BY <3>2, <5>2, <5>3
      <4> QED
        BY <3>2, <4>1
    <3>3. CASE slots[i] # 0
      <4>1. slots[i] \in InSlot(i)
        BY <2>1, <3>1, <3>3 DEF SlotsInv, InSlot
      <4> QED
        BY <4>1
    <3> QED
      BY <3>2, <3>3
  <2>4. backup.at = "write" => backup.query = slots[backup.jobNum % Slots] /\ backup.query # 0
    <3>1. SUFFICES ASSUME backup.at = "write"
                   PROVE  backup.query = slots[backup.jobNum % Slots] /\ backup.query # 0
      OBVIOUS
    <3>2. backup.query = backup.jobNum + 1 /\ backup.jobNum < Len(asked)
      BY <2>1, <3>1 DEF ThreadsInv
    <3>3. slots[backup.jobNum % Slots] = backup.jobNum + 1
      BY <1>1, <2>1, <2>2, <3>2, SlotContents DEF OrderInv
    <3> QED
      BY <2>2, <3>2, <3>3
  <2> QED
    BY <2>1, <2>3, <2>4 DEF Pipeline, OrderInv, SignalsInv, Outstanding
<1> QED
  BY <1>1, QueueAlways, PTL

-----------------------------------------------------------------------------
(* Results *)

\* A query that is not answered yet, from the one the worker has in hand on.
LEMMA StillOpen ==
    ASSUME QueueInv, NEW q \in Id, q > worker.jobNum \/ (Busy /\ q = worker.query)
    PROVE  answer[q] = "open"
<1>1. worker.jobNum \in Nat /\ q \in Int
  BY Numbers DEF QueueInv, Id
<1>2. AnswersInv /\ (Busy => worker.query = worker.jobNum)
  BY DEF QueueInv, ThreadsInv
<1>3. ~(q <= Handled)
  BY <1>1, <1>2 DEF Handled
<1> QED
  BY <1>2, <1>3 DEF AnswersInv

LEMMA AnswerStep ==
    ASSUME QueueInv, [Next]_vars, NEW q \in Id, answer[q] # "open"
    PROVE  answer'[q] = answer[q] /\ status'[q] = status[q]
<1> DEFINE Goal == answer'[q] = answer[q] /\ status'[q] = status[q]
<1>0. worker.jobNum \in Nat /\ Len(asked) \in Nat /\ q \in Int /\ worker.jobNum <= Len(asked)
  <2>1. /\ worker.jobNum \in Nat /\ backup.jobNum \in Nat /\ Len(asked) \in Nat
        /\ worker.jobNum <= backup.jobNum /\ backup.jobNum <= Len(asked)
    BY Numbers DEF QueueInv, OrderInv
  <2> QED
    BY <2>1 DEF Id
<1>1. ASSUME Room, NEW r \in Query, Insert(r) PROVE Goal
  <2>1. /\ Len(asked) + 1 \in Id /\ answer' = answer
        /\ status' = [status EXCEPT ![Len(asked) + 1] = Fresh(r.op)]
    BY <1>1, InsertEffect
  <2>2. Len(asked) + 1 > worker.jobNum
    BY <1>0
  <2>3. q # Len(asked) + 1
    BY <2>1, <2>2, StillOpen
  <2> QED
    BY <2>1, <2>3 DEF QueueInv, TypeOK
<1>2. ASSUME BackupWrite PROVE Goal
  <2>1. backup.query \in Id /\ backup.query > worker.jobNum
    BY <1>2, BackupWriteEffect
  <2>2. q # backup.query
    BY <2>1, StillOpen
  <2>3. /\ answer' = answer
        /\ \/ status' = [status EXCEPT ![backup.query] =
                            IF OpOf(backup.query) = "save" THEN "SAVE_FALLBACKFILE"
                            ELSE status[backup.query]]
           \/ status' = status
    BY <1>2, BackupWriteEffect
  <2> QED
    BY <2>2, <2>3 DEF QueueInv, TypeOK
<1>3. ASSUME WorkerWrite PROVE Goal
  <2>1. /\ Busy /\ worker.query \in Id /\ answer' = answer
        /\ \/ status' = status
           \/ \E o \in {"error", "lost", "ok"} : Store(worker.query, o)
           \/ \E o \in {"error", "lost", "ok", "refused"} : Load(worker.query, "write", o)
    BY <1>3, WorkerWriteEffect DEF Continues
  <2>2. q # worker.query
    BY <2>1, StillOpen
  <2> QED
    BY <2>1, <2>2, StoreEffect, LoadEffect
<1>4. ASSUME WorkerLoadBackup PROVE Goal
  <2>1. /\ Busy /\ worker.query \in Id /\ answer' = answer
        /\ \/ status' = status
           \/ \E o \in {"error", "lost", "ok", "refused"} : Load(worker.query, "backup", o)
    BY <1>4, WorkerLoadBackupEffect DEF Continues
  <2>2. q # worker.query
    BY <2>1, StillOpen
  <2> QED
    BY <2>1, <2>2, LoadEffect
<1>5. ASSUME WorkerComplete PROVE Goal
  <2>1. /\ Busy /\ worker.query \in Id /\ status' = status
        /\ \A p \in Id : p # worker.query => answer'[p] = answer[p]
    BY <1>5, WorkerCompleteEffect
  <2>2. q # worker.query
    BY <2>1, StillOpen
  <2> QED
    BY <2>1, <2>2
<1>6. ASSUME UNCHANGED <<status, answer>> PROVE Goal
  BY <1>6
<1>7. ASSUME Room, Register PROVE Goal
  BY <1>1, <1>7, RegisterQueue
<1>8. ASSUME Room, NEW op \in Op, Execute(op) PROVE Goal
  BY <1>1, <1>8, ExecuteQueue
<1>9. OnShutdown \/ ShutdownDone => UNCHANGED <<status, answer>>
  BY DEF OnShutdown, ShutdownDone, results
<1>10. BackupLook => UNCHANGED <<status, answer>>
  BY DEF BackupLook, results
<1>11. WorkerTop \/ WorkerTake \/ WorkerAdd \/ WorkerRead => UNCHANGED <<status, answer>>
  BY DEF WorkerTop, WorkerTake, WorkerAdd, WorkerRead, results
<1>12. WorkerTidy \/ WorkerDrop => UNCHANGED <<status, answer>>
  BY DEF WorkerTidy, WorkerDrop, results
<1>13. UNCHANGED vars => UNCHANGED <<status, answer>>
  BY DEF vars, results
<1> HIDE DEF Goal
<1>14. Goal
  BY <1>2, <1>3, <1>4, <1>5, <1>6, <1>7, <1>8, <1>9, <1>10, <1>11, <1>12, <1>13 DEF Next
<1> QED
  BY <1>14 DEF Goal

\* A result that the main thread has been shown is not written to again, although
\* it reads it without a lock.
THEOREM AnswerFinalCorrect == Spec => AnswerFinal
<1>1. QueueInv /\ [Next]_vars => [\A q \in Id : answer[q] # "open" =>
                                     answer'[q] = answer[q] /\ status'[q] = status[q]]_vars
  BY AnswerStep
<1> QED
  BY <1>1, QueueAlways, PTL DEF Spec, AnswerFinal

-----------------------------------------------------------------------------
(* The tables: steps that leave them alone *)

\* How far the queries have come.
LEMMA Progress ==
    ASSUME QueueInv
    PROVE  /\ worker.jobNum \in Int /\ backup.jobNum \in Int /\ Len(asked) \in Int
           /\ Tried \in Int /\ Handled \in Int
           /\ Handled <= Tried /\ Tried <= worker.jobNum
           /\ worker.jobNum <= backup.jobNum /\ backup.jobNum <= Len(asked)
           /\ worker.at \notin {"execute"} => Tried = worker.jobNum
           /\ worker.at \in {"execute"} => Tried = worker.jobNum - 1
           /\ Busy => Handled = worker.jobNum - 1 /\ worker.query = worker.jobNum
           /\ ~Busy => Handled = worker.jobNum
<1>1. /\ worker.jobNum \in Nat /\ backup.jobNum \in Nat /\ Len(asked) \in Nat
      /\ worker.jobNum <= backup.jobNum /\ backup.jobNum <= Len(asked)
  BY Numbers DEF QueueInv, OrderInv
<1>2. Busy => worker.query = worker.jobNum
  BY DEF QueueInv, ThreadsInv
<1>3. worker.at = "execute" => Busy
  BY DEF Busy
<1> QED
  BY <1>1, <1>2, <1>3 DEF Tried, Handled

LEMMA Contents ==
    ASSUME QueueInv
    PROVE  /\ db.write \subseteq Id /\ db.copy \subseteq Id /\ db.backup \subseteq Id
           /\ past.kept \subseteq Id /\ past.taken \subseteq Id /\ past.lost \subseteq Id
           /\ past.fault \subseteq Id
           /\ Id \subseteq Int /\ \A q \in Id : q > 0
BY DbPoolAssumption DEF QueueInv, TypeOK, Id

LEMMA HasBackupNext ==
    ASSUME NEW n \in Nat
    PROVE  HasBackup(n + 1) <=> HasBackup(n) \/ OpOf(n + 1) = "addBackup"
<1>1. 1 .. n + 1 = (1 .. n) \cup {n + 1}
  OBVIOUS
<1> QED
  BY <1>1 DEF HasBackup

LEMMA TablesInit == Init => TablesInv
<1> SUFFICES ASSUME Init PROVE TablesInv
  OBVIOUS
<1>1. /\ db = [write |-> {}, copy |-> {}, backup |-> {}]
      /\ past = [kept |-> {}, taken |-> {}, unheard |-> {}, lost |-> {}, fault |-> {}, first |-> {}]
      /\ asked = <<>> /\ Len(asked) = 0
      /\ worker.at = "top" /\ worker.backup = FALSE /\ worker.jobNum = 0
      /\ backup.at = "wait" /\ backup.db = FALSE /\ backup.jobNum = 0
  BY DEF Init
<1>2. Tried = 0 /\ Handled = 0
  BY <1>1 DEF Tried, Handled, Busy
<1>3. BackupInv
  BY <1>1, <1>2 DEF BackupInv, HasBackup
<1>4. RangeInv
  BY <1>1 DEF RangeInv
<1>5. WorkerInv /\ LimboInv
  BY <1>1 DEF WorkerInv, LimboInv
<1>6. OnceInv /\ LoadInv
  BY <1>1 DEF OnceInv, LoadInv
<1>7. LoadedOnce /\ StatusInv
  BY <1>1 DEF LoadedOnce, StatusInv
<1>8. AnswerStored
  BY <1>2 DEF AnswerStored
<1> QED
  BY <1>3, <1>4, <1>5, <1>6, <1>7, <1>8 DEF TablesInv

\* A step that leaves the tables alone and every query where it is.
LEMMA QuietTables ==
    ASSUME QueueInv, TablesInv,
           UNCHANGED <<asked, db, past, status, answer, answered>>,
           Tried' = Tried, Handled' = Handled,
           backup'.jobNum = backup.jobNum, backup'.db = backup.db,
           backup'.at = "write" => backup.db,
           worker'.backup = worker.backup,
           worker' = worker \/ worker'.at \notin {"tidy", "drop", "complete"}
    PROVE  TablesInv'
<1>1. /\ BackupInv /\ RangeInv /\ WorkerInv /\ LimboInv /\ OnceInv
      /\ LoadInv /\ LoadedOnce /\ StatusInv /\ AnswerStored
  BY DEF TablesInv
<1>2. BackupInv'
  BY <1>1 DEF BackupInv, HasBackup, OpOf
<1>3. RangeInv'
  BY <1>1 DEF RangeInv, HasBackup, Stores, OpOf
<1>4. WorkerInv'
  BY <1>1 DEF WorkerInv, Stores, OpOf
<1>5. LimboInv' /\ LoadInv' /\ LoadedOnce' /\ StatusInv'
  BY <1>1 DEF LimboInv, LoadInv, LoadedOnce, StatusInv, OpOf
<1>6. OnceInv'
  BY <1>1 DEF OnceInv, Stores, OpOf
<1>7. AnswerStored'
  BY <1>1 DEF AnswerStored, Stores, OpOf
<1> QED
  BY <1>2, <1>3, <1>4, <1>5, <1>6, <1>7 DEF TablesInv

LEMMA MainTables ==
    ASSUME QueueInv, TablesInv, OnShutdown \/ ShutdownDone \/ UNCHANGED vars
    PROVE  TablesInv'
<1>1. UNCHANGED <<asked, backup, worker, db, past, status, answer, answered>>
  BY DEF OnShutdown, ShutdownDone, queue, tables, results, vars
<1>2. Tried' = Tried /\ Handled' = Handled
  BY <1>1 DEF Tried, Handled, Busy
<1>3. backup.at = "write" => backup.db
  BY DEF TablesInv, BackupInv
<1> QED
  BY <1>1, <1>2, <1>3, QuietTables

LEMMA WorkerMovesTables ==
    ASSUME QueueInv, TablesInv, WorkerTop \/ WorkerTake
    PROVE  TablesInv'
<1>1. /\ worker.at \in {"top", "wait"}
      /\ UNCHANGED <<asked, backup, db, past, status, answer, answered>>
      /\ worker'.backup = worker.backup
  BY WorkerTopEffect, WorkerTakeEffect
<1>2. \/ worker'.at = "wait" /\ worker'.jobNum = worker.jobNum
      \/ worker'.at = "done" /\ worker'.jobNum = worker.jobNum
      \/ worker'.at = "execute" /\ worker'.jobNum = worker.jobNum + 1
  BY WorkerTopEffect, WorkerTakeEffect
<1>3. Tried = worker.jobNum /\ Handled = worker.jobNum
  BY <1>1 DEF Tried, Handled, Busy
<1>4. Tried' = worker.jobNum /\ Handled' = worker.jobNum
  <2>1. (worker.jobNum + 1) - 1 = worker.jobNum
    BY Progress
  <2> QED
    BY <1>2, <2>1 DEF Tried, Handled, Busy
<1>5. backup.at = "write" => backup.db
  BY DEF TablesInv, BackupInv
<1> QED
  BY <1>1, <1>2, <1>3, <1>4, <1>5, QuietTables

\* The main thread asks.
LEMMA InsertTables ==
    ASSUME QueueInv, TablesInv, Room, NEW r \in Query, Insert(r)
    PROVE  TablesInv'
<1> DEFINE n == Len(asked)
<1>1. /\ Len(asked') = n + 1
      /\ \A i \in 1 .. n : asked'[i] = asked[i]
      /\ asked'[n + 1] = r
      /\ n + 1 \in Id
      /\ status' = [status EXCEPT ![n + 1] = Fresh(r.op)]
      /\ UNCHANGED <<backup, worker, db, past, answer, answered>>
  BY InsertEffect
<1>2. /\ BackupInv /\ RangeInv /\ WorkerInv /\ LimboInv /\ OnceInv
      /\ LoadInv /\ LoadedOnce /\ StatusInv /\ AnswerStored
  BY DEF TablesInv
<1>3. /\ worker.jobNum \in Int /\ backup.jobNum \in Int /\ n \in Int
      /\ Tried \in Int /\ Handled \in Int
      /\ Handled <= Tried /\ Tried <= worker.jobNum
      /\ worker.jobNum <= backup.jobNum /\ backup.jobNum <= n
      /\ Busy => worker.query = worker.jobNum
  BY Progress
<1>4. Tried' = Tried /\ Handled' = Handled /\ Busy' = Busy
  BY <1>1 DEF Tried, Handled, Busy
<1> HIDE DEF n
<1>5. ASSUME NEW q \in Int, q <= n
      PROVE  /\ q > 0 => OpOf(q)' = OpOf(q) /\ Stores(q)' = Stores(q)
             /\ HasBackup(q)' = HasBackup(q)
  <2>1. \A i \in 1 .. n : OpOf(i)' = OpOf(i)
    BY <1>1 DEF OpOf
  <2>2. q > 0 => OpOf(q)' = OpOf(q) /\ Stores(q)' = Stores(q)
    BY <1>3, <1>5, <2>1 DEF Stores
  <2>3. 1 .. q \subseteq 1 .. n
    BY <1>3, <1>5
  <2>4. HasBackup(q)' = HasBackup(q)
    BY <2>1, <2>3 DEF HasBackup
  <2> QED
    BY <2>2, <2>4
<1>6. /\ past.kept \subseteq Id /\ db.copy \subseteq Id
      /\ Id \subseteq Int /\ \A q \in Id : q > 0
      /\ \A q \in past.kept : q <= n
      /\ \A q \in db.copy : q <= n
  BY <1>2, <1>3, Contents DEF RangeInv
<1>7. BackupInv'
  BY <1>1, <1>2, <1>3, <1>4, <1>5 DEF BackupInv
<1>8. RangeInv'
  <2>1. \A q \in past.kept : Stores(q)' = Stores(q)
    BY <1>5, <1>6
  <2>2. \A q \in db.copy : HasBackup(q)' = HasBackup(q)
    BY <1>5, <1>6
  <2>3. \A q \in 1 .. backup.jobNum : Stores(q)' = Stores(q) /\ HasBackup(q)' = HasBackup(q)
    BY <1>3, <1>5
  <2> QED
    BY <1>1, <1>2, <1>4, <2>1, <2>2, <2>3 DEF RangeInv
<1>9. WorkerInv'
  <2>1. Busy => OpOf(worker.query)' = OpOf(worker.query) /\ Stores(worker.query)' = Stores(worker.query)
    <3>1. SUFFICES ASSUME Busy
                   PROVE  OpOf(worker.query)' = OpOf(worker.query)
                          /\ Stores(worker.query)' = Stores(worker.query)
      OBVIOUS
    <3>2. worker.query \in 1 .. n
      BY <3>1, InHand DEF n
    <3>3. OpOf(worker.query)' = asked'[worker.query].op /\ OpOf(worker.query) = asked[worker.query].op
      BY <1>1 DEF OpOf
    <3>4. OpOf(worker.query)' = OpOf(worker.query)
      BY <1>1, <3>2, <3>3
    <3> QED
      BY <3>4 DEF Stores
  <2> QED
    BY <1>1, <1>2, <2>1 DEF WorkerInv, Busy
<1>10. LimboInv'
  BY <1>1, <1>2 DEF LimboInv
<1>11. OnceInv'
  <2>1. ASSUME NEW q \in 1 .. n + 1, q <= Handled \/ (worker.at = "complete" /\ q = worker.query)
        PROVE  q \in 1 .. n /\ Stores(q)' = Stores(q)
    <3>1. q <= worker.jobNum
      BY <1>3, <2>1 DEF Busy
    <3>2. q \in Int /\ q <= n /\ q > 0
      BY <1>3, <3>1
    <3> QED
      BY <1>3, <1>5, <3>2
  <2> QED
    BY <1>1, <1>2, <1>4, <2>1 DEF OnceInv, n
<1>12. ASSUME NEW q \in 1 .. n
       PROVE  status'[q] = status[q] /\ asked'[q] = asked[q] /\ OpOf(q)' = OpOf(q)
  <2>1. q # n + 1 /\ q \in Id
    BY <1>3, InHand DEF n
  <2>2. status \in [Id -> Status]
    BY DEF QueueInv, TypeOK
  <2>3. status'[q] = status[q]
    BY <1>1, <2>1, <2>2
  <2> QED
    BY <1>1, <2>3 DEF OpOf
<1>13. /\ status'[n + 1] = Fresh(r.op) /\ Fresh(r.op) # "LOAD_SUCCESS"
       /\ asked'[n + 1].op = r.op
  <2>1. status \in [Id -> Status]
    BY DEF QueueInv, TypeOK
  <2>2. Fresh(r.op) # "LOAD_SUCCESS"
    BY DEF Fresh, Query
  <2>3. status'[n + 1] = Fresh(r.op)
    BY <1>1, <2>1
  <2> QED
    BY <1>1, <2>2, <2>3
<1>14. \A q \in 1 .. n + 1 : q \in 1 .. n \/ q = n + 1
  BY <1>3
<1>15. LoadInv'
  BY <1>1, <1>2, <1>12, <1>13, <1>14 DEF LoadInv, n
<1>16. LoadedOnce'
  BY <1>1, <1>2, <1>12, <1>13, <1>14 DEF LoadedOnce, n
<1>17. StatusInv'
  <2>1. n + 1 \notin past.kept
    BY <1>3, <1>6
  <2>2. r.op = "save" => Fresh(r.op) = "SAVE_FAILED"
    BY DEF Fresh
  <2>3. ASSUME NEW q \in 1 .. n + 1, asked'[q].op = "save"
        PROVE  IF status'[q] = "SAVE_FAILED"
               THEN q \notin past.kept \/ q \in past.lost
               ELSE q \in past.kept
    <3>1. CASE q \in 1 .. n
      <4>1. OpOf(q) = "save" /\ status'[q] = status[q]
        BY <1>12, <2>3, <3>1 DEF OpOf
      <4> QED
        BY <1>2, <3>1, <4>1 DEF StatusInv, n
    <3>2. CASE q = n + 1
      BY <1>13, <2>1, <2>2, <2>3, <3>2
    <3> QED
      BY <1>14, <3>1, <3>2
  <2> QED
    BY <1>1, <2>3 DEF StatusInv, OpOf
<1>18. AnswerStored'
  <2>1. \A q \in 1 .. Handled : Stores(q)' = Stores(q)
    BY <1>3, <1>5
  <2> QED
    BY <1>1, <1>2, <1>4, <2>1 DEF AnswerStored
<1> QED
  BY <1>7, <1>8, <1>9, <1>10, <1>11, <1>15, <1>16, <1>17, <1>18 DEF TablesInv

-----------------------------------------------------------------------------
(* The tables: the backup thread *)

LEMMA BackupLookTables ==
    ASSUME QueueInv, TablesInv, BackupLook
    PROVE  TablesInv'
<1> DEFINE j == backup.jobNum
<1>1. backup.at = "wait" /\ UNCHANGED <<asked, worker, db, past, status, answer, answered>>
  BY BackupLookEffect
<1>2. /\ BackupInv /\ RangeInv /\ WorkerInv /\ LimboInv /\ OnceInv
      /\ LoadInv /\ LoadedOnce /\ StatusInv /\ AnswerStored
  BY DEF TablesInv
<1>3. Tried' = Tried /\ Handled' = Handled
  BY <1>1 DEF Tried, Handled, Busy
<1>4. backup \in Backup /\ j \in Nat
  BY Numbers DEF QueueInv
<1>5. CASE backup' = [backup EXCEPT !.at = "done"]
  <2>1. backup'.at = "done" /\ backup'.jobNum = j /\ backup'.db = backup.db
    BY <1>4, <1>5, BackupEnds
  <2> QED
    BY <1>1, <1>3, <2>1, QuietTables
<1>6. CASE backup.db /\ backup' = [backup EXCEPT !.at = "write", !.query = j + 1]
  <2>1. backup'.jobNum = j /\ backup'.db = backup.db
    <3>1. j + 1 \in Nat
      BY <1>4
    <3> QED
      BY <1>4, <1>6, <3>1, BackupBegins
  <2> QED
    BY <1>1, <1>3, <1>6, <2>1, QuietTables
<1>7. CASE /\ ~(backup.db /\ OpOf(j + 1) \in {"rank", "save", "load"})
           /\ backup' = [backup EXCEPT !.jobNum = j + 1,
                            !.db = backup.db \/ OpOf(j + 1) = "addBackup"]
  <2> DEFINE known == backup.db \/ OpOf(j + 1) = "addBackup"
  <2>1. backup'.at = "wait" /\ backup'.jobNum = j + 1 /\ backup'.db = known
    <3>1. known \in BOOLEAN /\ backup' = [backup EXCEPT !.jobNum = j + 1, !.db = known]
      BY <1>7
    <3> HIDE DEF known
    <3>2. backup'.at = backup.at /\ backup'.jobNum = j + 1 /\ backup'.db = known
      BY <1>4, <3>1 DEF Backup
    <3> QED
      BY <1>1, <3>2
  <2>2. HasBackup(j + 1) <=> HasBackup(j) \/ OpOf(j + 1) = "addBackup"
    BY <1>4, HasBackupNext
  <2>3. BackupInv'
    <3>1. backup'.db <=> HasBackup(j + 1)
      BY <1>2, <2>1, <2>2 DEF BackupInv
    <3>2. HasBackup(Tried)' <=> HasBackup(Tried)
      BY <1>1, <1>3 DEF HasBackup, OpOf
    <3>3. backup'.db <=> HasBackup(backup.jobNum)'
      BY <1>1, <2>1, <3>1 DEF HasBackup, OpOf
    <3> QED
      BY <1>1, <1>2, <2>1, <3>2, <3>3 DEF BackupInv
  <2>4. RangeInv'
    <3>1. ASSUME NEW q \in 1 .. j + 1, Stores(q), HasBackup(q)
          PROVE  q \in past.kept \cup past.fault
      <4>1. CASE q \in 1 .. j
        BY <1>2, <3>1, <4>1 DEF RangeInv
      <4>2. CASE q = j + 1
        <5>1. HasBackup(j) \/ OpOf(j + 1) = "addBackup"
          BY <2>2, <3>1, <4>2
        <5>2. OpOf(j + 1) \in {"rank", "save"}
          BY <3>1, <4>2 DEF Stores
        <5>3. backup.db
          BY <1>2, <5>1, <5>2 DEF BackupInv
        <5> QED
          BY <1>7, <5>2, <5>3
      <4> QED
        BY <1>4, <4>1, <4>2
    <3>2. \A q \in past.kept : q <= j + 1
      <4>1. \A q \in past.kept : q \in Int /\ q <= j
        BY <1>2, Contents DEF RangeInv
      <4> QED
        BY <1>4, <4>1
    <3>3. \A q : Stores(q)' = Stores(q)
      BY <1>1 DEF Stores, OpOf
    <3>4. \A q : HasBackup(q)' = HasBackup(q)
      BY <1>1 DEF HasBackup, OpOf
    <3> QED
      BY <1>1, <1>2, <1>3, <2>1, <3>1, <3>2, <3>3, <3>4 DEF RangeInv
  <2>5. WorkerInv'
    BY <1>1, <1>2 DEF WorkerInv, Stores, OpOf
  <2>6. LimboInv' /\ LoadInv' /\ LoadedOnce' /\ StatusInv'
    BY <1>1, <1>2 DEF LimboInv, LoadInv, LoadedOnce, StatusInv, OpOf
  <2>7. OnceInv' /\ AnswerStored'
    BY <1>1, <1>2, <1>3 DEF OnceInv, AnswerStored, Stores, OpOf
  <2> QED
    BY <2>3, <2>4, <2>5, <2>6, <2>7 DEF TablesInv
<1> QED
  BY <1>5, <1>6, <1>7, BackupLookEffect

\* The backup thread is ahead of the worker: what it writes concerns no query that
\* the worker has seen.
LEMMA BackupWriteTables ==
    ASSUME QueueInv, TablesInv, BackupWrite
    PROVE  TablesInv'
<1> DEFINE q == backup.query
           j == backup.jobNum
<1>1. /\ backup.at = "write" /\ q = j + 1 /\ q \in Id /\ q > worker.jobNum
      /\ q \in 1 .. Len(asked)
      /\ UNCHANGED <<asked, worker, answer, answered>>
  BY BackupWriteEffect
<1>2. /\ BackupInv /\ RangeInv /\ WorkerInv /\ LimboInv /\ OnceInv
      /\ LoadInv /\ LoadedOnce /\ StatusInv /\ AnswerStored
  BY DEF TablesInv
<1>3. Tried' = Tried /\ Handled' = Handled
  BY <1>1 DEF Tried, Handled, Busy
<1>4. backup \in Backup /\ j \in Nat /\ j + 1 \in Nat
  BY Numbers DEF QueueInv
<1>5. backup'.at = "wait" /\ backup'.jobNum = j + 1 /\ backup'.db = backup.db
  <2>1. backup' = [backup EXCEPT !.at = "wait", !.jobNum = backup.jobNum + 1]
    BY BackupWriteEffect
  <2> QED
    BY <1>4, <2>1, BackupWrites
<1>6. /\ worker.jobNum \in Int /\ Handled \in Int /\ Handled <= worker.jobNum
      /\ Tried \in Int /\ Tried <= worker.jobNum
      /\ Busy => worker.query = worker.jobNum
  BY Progress
<1>7. HasBackup(j + 1)
  <2>1. backup.db
    BY <1>1, <1>2 DEF BackupInv
  <2>2. HasBackup(j)
    BY <1>2, <2>1 DEF BackupInv
  <2> QED
    BY <1>4, <2>2, HasBackupNext
<1>8. /\ \A p : OpOf(p)' = OpOf(p)
      /\ \A p : Stores(p)' = Stores(p)
      /\ \A p : HasBackup(p)' = HasBackup(p)
  BY <1>1 DEF HasBackup, Stores, OpOf
<1>9. /\ db'.write = db.write /\ db'.backup = db.backup
      /\ past'.taken = past.taken /\ past'.lost = past.lost
      /\ \/ /\ Stores(q)
            /\ db'.copy = db.copy \cup {q} /\ past'.kept = past.kept \cup {q}
            /\ past'.fault = past.fault
            /\ status' = [status EXCEPT ![q] =
                             IF OpOf(q) = "save" THEN "SAVE_FALLBACKFILE" ELSE status[q]]
         \/ /\ db'.copy = db.copy /\ past'.kept = past.kept /\ status' = status
            /\ past'.fault = past.fault \cup {q}
         \/ /\ ~Stores(q)
            /\ db'.copy = db.copy /\ past'.kept = past.kept /\ status' = status
            /\ past'.fault = past.fault
  <2>1. db \in Tables /\ past \in Past
    BY DEF QueueInv, TypeOK, Tables, Past
  <2>2. CASE /\ Stores(q)
             /\ db' = [db EXCEPT !.copy = db.copy \cup {q}]
             /\ status' = [status EXCEPT ![q] =
                              IF OpOf(q) = "save" THEN "SAVE_FALLBACKFILE" ELSE status[q]]
             /\ past' = [past EXCEPT !.kept = past.kept \cup {q}, !.first = past.first \cup {q}]
    <3>1. /\ db'.write = db.write /\ db'.backup = db.backup
          /\ db'.copy = db.copy \cup {q}
      BY <2>1, <2>2 DEF Tables
    <3>2. /\ past'.taken = past.taken /\ past'.lost = past.lost
          /\ past'.kept = past.kept \cup {q} /\ past'.fault = past.fault
      BY <2>1, <2>2 DEF Past
    <3> QED
      BY <2>2, <3>1, <3>2
  <2>3. CASE /\ past' = [past EXCEPT !.fault = past.fault \cup {q}]
             /\ UNCHANGED <<db, status>>
    <3>1. /\ past'.taken = past.taken /\ past'.lost = past.lost
          /\ past'.kept = past.kept /\ past'.fault = past.fault \cup {q}
      BY <2>1, <2>3 DEF Past
    <3> QED
      BY <2>3, <3>1
  <2>4. CASE ~Stores(q) /\ UNCHANGED <<db, past, status>>
    BY <2>4
  <2> QED
    BY <2>2, <2>3, <2>4, BackupWriteEffect
<1> HIDE DEF q, j
<1>10. /\ db.copy \subseteq db'.copy /\ past.kept \subseteq past'.kept
       /\ past.fault \subseteq past'.fault
       /\ \A p : p # q => (p \in db'.copy <=> p \in db.copy) /\ (p \in past'.kept <=> p \in past.kept)
       /\ q \in past'.kept => q \in past.kept \/ Stores(q)
       /\ q \in db'.copy => q \in db.copy \/ q \in past'.kept
       /\ Stores(q) => q \in past'.kept \cup past'.fault
  BY <1>9
<1>11. BackupInv'
  <2>1. backup'.db <=> HasBackup(j + 1)
    BY <1>1, <1>2, <1>5, <1>7 DEF BackupInv
  <2>2. backup'.db <=> HasBackup(backup.jobNum)'
    BY <1>1, <1>5, <2>1 DEF HasBackup, OpOf
  <2>3. worker'.backup <=> HasBackup(Tried)'
    BY <1>1, <1>2, <1>3 DEF BackupInv, HasBackup, OpOf
  <2> QED
    BY <1>5, <2>2, <2>3 DEF BackupInv
<1>12. RangeInv'
  <2>1. \A p \in past'.kept : p <= j + 1 /\ Stores(p)
    <3>1. \A p \in past.kept : p \in Int /\ p <= j /\ Stores(p)
      BY <1>2, Contents DEF RangeInv, j
    <3> QED
      BY <1>1, <1>4, <1>10, <3>1
  <2>2. \A p \in db'.copy : HasBackup(p) /\ p \in past'.kept
    <3>1. \A p \in db.copy : HasBackup(p) /\ p \in past.kept
      BY <1>2 DEF RangeInv
    <3> QED
      BY <1>1, <1>7, <1>10, <3>1
  <2>3. ASSUME NEW p \in 1 .. j + 1, Stores(p), HasBackup(p)
        PROVE  p \in past'.kept \cup past'.fault
    <3>1. CASE p \in 1 .. j
      <4>1. p \in past.kept \cup past.fault
        BY <1>2, <2>3, <3>1 DEF RangeInv, j
      <4> QED
        BY <1>10, <4>1
    <3>2. CASE p = j + 1
      BY <1>1, <1>10, <2>3, <3>2
    <3> QED
      BY <1>4, <3>1, <3>2
  <2>4. \A p \in db.write \cup db.backup : p \in past'.kept
    BY <1>2, <1>10 DEF RangeInv
  <2> QED
    BY <1>2, <1>3, <1>5, <1>8, <1>9, <2>1, <2>2, <2>3, <2>4 DEF RangeInv
<1>13. worker.at \in {"tidy", "drop", "complete"} => worker.query # q
  <2>1. worker.at \in {"tidy", "drop", "complete"} => Busy
    BY DEF Busy
  <2>2. Busy => worker.query # q
    BY <1>1, <1>4, <1>6
  <2> QED
    BY <2>1, <2>2
<1>14. WorkerInv'
  BY <1>1, <1>2, <1>8, <1>9, <1>10, <1>13 DEF WorkerInv
<1>15. LimboInv'
  BY <1>2, <1>9 DEF LimboInv
<1>16. OnceInv'
  <2>1. ASSUME NEW p \in 1 .. Len(asked), p <= Handled \/ (worker.at = "complete" /\ p = worker.query)
        PROVE  p # q
    BY <1>1, <1>4, <1>6, <1>13, <2>1
  <2> QED
    BY <1>1, <1>2, <1>3, <1>8, <1>9, <1>10, <2>1 DEF OnceInv
<1>17. \A p \in 1 .. Len(asked) : p # q => status'[p] = status[p]
  <2>1. status \in [Id -> Status] /\ 1 .. Len(asked) \subseteq Id
    BY InHand DEF QueueInv, TypeOK
  <2> QED
    BY <1>9, <2>1
<1>18. \/ status' = status /\ past'.kept = past.kept
       \/ /\ Stores(q) /\ q \in past'.kept
          /\ status'[q] = IF OpOf(q) = "save" THEN "SAVE_FALLBACKFILE" ELSE status[q]
  <2>1. status \in [Id -> Status]
    BY DEF QueueInv, TypeOK
  <2> QED
    BY <1>1, <1>9, <2>1
<1>19. \A p \in 1 .. Len(asked) : status'[p] = "LOAD_SUCCESS" => status[p] = "LOAD_SUCCESS"
  <2>1. ASSUME NEW p \in 1 .. Len(asked), status'[p] = "LOAD_SUCCESS"
        PROVE  status[p] = "LOAD_SUCCESS"
    <3>1. CASE p # q
      BY <1>17, <2>1, <3>1
    <3>2. CASE p = q
      <4>1. CASE status' = status
        BY <2>1, <4>1
      <4>2. CASE status'[q] = IF OpOf(q) = "save" THEN "SAVE_FALLBACKFILE" ELSE status[q]
        BY <2>1, <3>2, <4>2
      <4> QED
        BY <1>18, <4>1, <4>2
    <3> QED
      BY <3>1, <3>2
  <2> QED
    BY <2>1
<1>20. LoadInv'
  BY <1>1, <1>2, <1>8, <1>9, <1>19 DEF LoadInv
<1>21. LoadedOnce'
  BY <1>1, <1>2, <1>9, <1>19 DEF LoadedOnce
<1>22. StatusInv'
  <2>1. ASSUME NEW p \in 1 .. Len(asked), OpOf(p) = "save"
        PROVE  IF status'[p] = "SAVE_FAILED"
               THEN p \notin past'.kept \/ p \in past.lost
               ELSE p \in past'.kept
    <3>1. IF status[p] = "SAVE_FAILED"
          THEN p \notin past.kept \/ p \in past.lost
          ELSE p \in past.kept
      BY <1>2, <2>1 DEF StatusInv
    <3>2. CASE p # q
      BY <1>10, <1>17, <3>1, <3>2
    <3>3. CASE p = q
      <4>1. CASE status' = status /\ past'.kept = past.kept
        BY <3>1, <4>1
      <4>2. CASE /\ q \in past'.kept
                 /\ status'[q] = IF OpOf(q) = "save" THEN "SAVE_FALLBACKFILE" ELSE status[q]
        BY <2>1, <3>3, <4>2
      <4> QED
        BY <1>18, <4>1, <4>2
    <3> QED
      BY <3>2, <3>3
  <2> QED
    BY <1>1, <1>8, <1>9, <2>1 DEF StatusInv
<1>23. AnswerStored'
  BY <1>1, <1>2, <1>3, <1>8, <1>10 DEF AnswerStored
<1> QED
  BY <1>11, <1>12, <1>14, <1>15, <1>16, <1>20, <1>21, <1>22, <1>23 DEF TablesInv

-----------------------------------------------------------------------------
(* The tables: the worker thread *)

\* A query that neither stores nor loads.
LEMMA WorkerAddTables ==
    ASSUME QueueInv, TablesInv, WorkerAdd \/ WorkerRead
    PROVE  TablesInv'
<1> DEFINE q == worker.query
           w == worker.jobNum
<1>1. /\ worker.at = "execute" /\ Busy /\ ~Stores(q)
      /\ worker'.at = "complete" /\ worker'.jobNum = w /\ worker'.query = q
      /\ worker'.backup = (worker.backup \/ OpOf(q) = "addBackup")
      /\ UNCHANGED <<asked, backup, db, past, status, answer, answered>>
  <2>1. CASE WorkerAdd
    BY <2>1, WorkerAddEffect DEF Stores
  <2>2. CASE WorkerRead
    <3>1. /\ OpOf(q) = "read" /\ worker'.backup = worker.backup
          /\ worker.backup \in BOOLEAN
      BY <2>2, WorkerReadEffect, Numbers DEF Worker, QueueInv
    <3>2. worker'.backup = (worker.backup \/ OpOf(q) = "addBackup")
      BY <3>1
    <3> QED
      BY <2>2, <3>1, <3>2, WorkerReadEffect DEF Stores
  <2> QED
    BY <2>1, <2>2
<1>2. /\ BackupInv /\ RangeInv /\ WorkerInv /\ LimboInv /\ OnceInv
      /\ LoadInv /\ LoadedOnce /\ StatusInv /\ AnswerStored
  BY DEF TablesInv
<1>3. /\ w \in Int /\ q = w /\ Tried = w - 1 /\ Handled = w - 1 /\ w - 1 \in Nat
  <2>1. w \in 1 .. Len(asked) /\ Len(asked) \in Int
    BY <1>1, InHand, Progress
  <2> QED
    BY <1>1, <2>1, Progress
<1>4. Tried' = w /\ Handled' = w - 1
  BY <1>1 DEF Tried, Handled, Busy
<1>5. \A p \in Int : p <= w - 1 => p <= w
  BY <1>3
<1>6. BackupInv'
  <2>1. (w - 1) + 1 = w
    BY <1>3
  <2>2. HasBackup(w) <=> HasBackup(w - 1) \/ OpOf(w) = "addBackup"
    BY <1>3, <2>1, HasBackupNext
  <2>3. worker'.backup <=> HasBackup(w)
    BY <1>1, <1>2, <1>3, <2>2 DEF BackupInv
  <2>4. HasBackup(Tried)' <=> HasBackup(w)
    BY <1>1, <1>4 DEF HasBackup, OpOf
  <2> QED
    BY <1>1, <1>2, <2>3, <2>4 DEF BackupInv, HasBackup, OpOf
<1>7. RangeInv'
  <2>1. \A p \in db.write \cup db.backup \cup past.lost : p <= w
    BY <1>2, <1>3, <1>5, Contents DEF RangeInv
  <2> QED
    BY <1>1, <1>2, <1>3, <1>4, <2>1 DEF RangeInv, HasBackup, Stores, OpOf
<1>8. WorkerInv'
  BY <1>1 DEF WorkerInv, Stores, OpOf
<1>9. LimboInv' /\ LoadInv' /\ LoadedOnce' /\ StatusInv'
  BY <1>1, <1>2 DEF LimboInv, LoadInv, LoadedOnce, StatusInv, OpOf
<1>10. OnceInv'
  BY <1>1, <1>2, <1>3, <1>4 DEF OnceInv, Stores, OpOf
<1>11. AnswerStored'
  BY <1>1, <1>2, <1>3, <1>4 DEF AnswerStored, Stores, OpOf
<1> QED
  BY <1>6, <1>7, <1>8, <1>9, <1>10, <1>11 DEF TablesInv

LEMMA WorkerCompleteTables ==
    ASSUME QueueInv, TablesInv, WorkerComplete
    PROVE  TablesInv'
<1> DEFINE q == worker.query
           w == worker.jobNum
<1>1. /\ worker.at = "complete" /\ Busy /\ q \in Id
      /\ worker'.at = "top" /\ worker'.jobNum = w
      /\ worker'.backup = worker.backup
      /\ answer'[q] = (IF worker.success THEN "ok" ELSE "failed")
      /\ \A p \in Id : p # q => answer'[p] = answer[p]
      /\ UNCHANGED <<asked, backup, db, past, status>>
  BY WorkerCompleteEffect
<1>2. /\ BackupInv /\ RangeInv /\ WorkerInv /\ LimboInv /\ OnceInv
      /\ LoadInv /\ LoadedOnce /\ StatusInv /\ AnswerStored
  BY DEF TablesInv
<1>3. w \in Int /\ q = w /\ Tried = w /\ Handled = w - 1
  BY <1>1, Progress
<1>4. Tried' = w /\ Handled' = w
  BY <1>1 DEF Tried, Handled, Busy
<1>5. \A p \in Int : (p <= w <=> p <= w - 1 \/ p = w)
  BY <1>3
<1>6. BackupInv'
  BY <1>1, <1>2, <1>3, <1>4 DEF BackupInv, HasBackup, OpOf
<1>7. RangeInv'
  <2>1. \A p \in past.taken : p <= w
    BY <1>2, <1>3, <1>5, Contents DEF RangeInv
  <2> QED
    BY <1>1, <1>2, <1>3, <1>4, <2>1 DEF RangeInv, HasBackup, Stores, OpOf
<1>8. WorkerInv'
  BY <1>1 DEF WorkerInv
<1>9. LimboInv' /\ LoadInv' /\ LoadedOnce' /\ StatusInv'
  BY <1>1, <1>2 DEF LimboInv, LoadInv, LoadedOnce, StatusInv, OpOf
<1>10. OnceInv'
  BY <1>1, <1>2, <1>3, <1>4, <1>5 DEF OnceInv, Stores, OpOf
<1>11. AnswerStored'
  <2>1. ASSUME NEW p \in 1 .. w, Stores(p), answer'[p] = "ok"
        PROVE  p \in past.kept \cup past.fault
    <3>1. CASE p = w
      <4>1. worker.success
        BY <1>1, <1>3, <2>1, <3>1
      <4> QED
        BY <1>1, <1>2, <1>3, <2>1, <3>1, <4>1 DEF WorkerInv
    <3>2. CASE p # w
      <4>1. p \in 1 .. w - 1
        BY <1>3, <3>2
      <4>2. p \in Id
        BY <1>1, <1>3, <3>2, DbPoolAssumption DEF Id
      <4>3. answer[p] = "ok"
        BY <1>1, <1>3, <2>1, <3>2, <4>2
      <4> QED
        BY <1>2, <1>3, <2>1, <4>1, <4>3 DEF AnswerStored
    <3> QED
      BY <3>1, <3>2
  <2> QED
    BY <1>1, <1>4, <2>1 DEF AnswerStored, Stores, OpOf
<1> QED
  BY <1>6, <1>7, <1>8, <1>9, <1>10, <1>11 DEF TablesInv

\* A statement on the backup file that was no answer to a load.
LEMMA TidyTables ==
    ASSUME QueueInv, TablesInv,
           worker.at \in {"tidy", "drop"}, Stores(worker.query),
           NEW at \in {"drop", "complete"}, NEW success \in BOOLEAN, Continues(at, success),
           status' = status, db'.write = db.write,
           past'.kept = past.kept, past'.taken = past.taken, past'.lost = past.lost,
           \/ /\ at = "complete" /\ db'.copy = db.copy \ {worker.query} /\ db'.backup = db.backup
              /\ past'.fault = past.fault
              /\ worker.at = "tidy" => worker.query \in db.write
           \/ /\ at = "drop" /\ worker.at = "tidy" /\ ~worker.success
              /\ db'.copy = db.copy
              /\ db'.backup = db.backup \cup (db.copy \cap {worker.query})
              /\ past'.fault = past.fault
           \/ /\ at = "complete" /\ db'.copy = db.copy /\ db'.backup = db.backup
              /\ past'.fault = past.fault \cup {worker.query}
    PROVE  TablesInv'
<1> DEFINE q == worker.query
           w == worker.jobNum
<1>1. /\ Busy /\ worker'.at = at /\ worker'.success = success
      /\ worker'.jobNum = w /\ worker'.query = q /\ worker'.backup = worker.backup
      /\ UNCHANGED <<asked, backup, answer, answered>>
  BY DEF Continues, Busy
<1>2. /\ BackupInv /\ RangeInv /\ WorkerInv /\ LimboInv /\ OnceInv
      /\ LoadInv /\ LoadedOnce /\ StatusInv /\ AnswerStored
  BY DEF TablesInv
<1>3. w \in Int /\ q = w /\ Tried = w /\ Handled = w - 1 /\ w <= backup.jobNum
      /\ backup.jobNum \in Int
  BY <1>1, Progress
<1>4. Tried' = w /\ Handled' = w - 1
  BY <1>1 DEF Tried, Handled, Busy
<1>5. q \in Id /\ q \in 1 .. Len(asked)
  BY <1>1, InHand
<1>6. /\ \A p : OpOf(p)' = OpOf(p)
      /\ \A p : Stores(p)' = Stores(p)
      /\ \A p : HasBackup(p)' = HasBackup(p)
  BY <1>1 DEF HasBackup, Stores, OpOf
<1>7. q \in past.kept \cup past.fault
  <2>1. HasBackup(w)
    BY <1>2, <1>3 DEF BackupInv, WorkerInv
  <2>2. q \in 1 .. backup.jobNum
    BY <1>3, <1>5
  <2> QED
    BY <1>2, <1>3, <2>1, <2>2 DEF RangeInv
<1>8. /\ q \notin past.taken
      /\ worker.at = "drop" => q \notin db.write \/ q \in past.lost
      /\ worker.at = "drop" /\ q \in db.copy => q \in db.backup
      /\ worker.at = "tidy" => q \notin db.backup
      /\ worker.at = "tidy" /\ ~worker.success => q \notin db.write \/ q \in past.lost
      /\ q \in db.copy => q \in past.kept
      /\ worker.backup
  <2>1. q \notin past.taken
    BY <1>2, <1>3 DEF RangeInv
  <2> QED
    BY <1>2, <2>1 DEF RangeInv, WorkerInv
<1> HIDE DEF q, w
<1>9. BackupInv'
  BY <1>1, <1>2, <1>3, <1>4 DEF BackupInv, HasBackup, OpOf
<1>10. RangeInv'
  <2>1. \A p \in db'.backup : p <= w /\ p \in past.kept
    <3>1. \A p \in db.backup : p <= w /\ p \in past.kept
      BY <1>2, <1>3 DEF RangeInv
    <3>2. q <= w
      BY <1>3
    <3> QED
      BY <1>8, <3>1, <3>2 DEF q
  <2>2. db'.copy \subseteq db.copy /\ past.fault \subseteq past'.fault
    OBVIOUS
  <2> QED
    BY <1>1, <1>2, <1>3, <1>4, <1>6, <2>1, <2>2 DEF RangeInv
<1>11. WorkerInv'
  <2>1. Stores(q) /\ OpOf(q) \in {"rank", "save", "load"}
    BY DEF Stores, q
  <2>2. at = "complete" => q \in past.kept \cup past'.fault
    BY <1>7
  <2>3. at = "drop" => /\ q \notin db.write \/ q \in past.lost
                       /\ q \in db'.copy => q \in db'.backup
    BY <1>8 DEF q
  <2> QED
    BY <1>1, <1>6, <1>8, <2>1, <2>2, <2>3 DEF WorkerInv
<1>12. LimboInv'
  <2>1. ASSUME NEW p \in past.kept
        PROVE  p \in db'.write \cup db'.copy \cup db'.backup \cup past'.taken
    <3>1. p \in db.write \cup db.copy \cup db.backup \cup past.taken
      BY <1>2 DEF LimboInv
    <3>2. db.backup \subseteq db'.backup /\ (p # q => (p \in db.copy <=> p \in db'.copy))
      BY DEF q
    <3>3. CASE p # q
      BY <3>1, <3>2, <3>3
    <3>4. CASE p = q
      BY <1>8, <3>1, <3>2, <3>4 DEF q
    <3> QED
      BY <3>3, <3>4
  <2> QED
    BY <2>1 DEF LimboInv
<1>13. OnceInv'
  <2>1. \A p \in db'.write \cap db'.backup : p \in past.lost
    BY <1>2, <1>8 DEF OnceInv, q
  <2>2. ASSUME NEW p \in 1 .. Len(asked), Stores(p), p \notin past'.fault \cup past.lost,
               p <= w - 1 \/ (at = "complete" /\ p = q)
        PROVE  ~(p \in db.write /\ p \in db'.copy) /\ ~(p \in db'.backup /\ p \in db'.copy)
    <3>1. CASE p # q
      <4>1. p \notin past.fault /\ p <= Handled
        BY <1>3, <2>2, <3>1
      <4>2. ~(p \in db.write /\ p \in db.copy) /\ ~(p \in db.backup /\ p \in db.copy)
        BY <1>2, <2>2, <4>1 DEF OnceInv
      <4> QED
        BY <3>1, <4>2 DEF q
    <3>2. CASE p = q
      <4>1. at = "complete"
        BY <1>3, <2>2, <3>2
      <4>2. q \notin db'.copy
        BY <2>2, <3>2, <4>1 DEF q
      <4> QED
        BY <3>2, <4>2
    <3> QED
      BY <3>1, <3>2
  <2> QED
    BY <1>1, <1>4, <1>6, <2>1, <2>2 DEF OnceInv
<1>14. LoadInv'
  <2>1. \A p \in past.taken : p # q
    BY <1>8
  <2>2. \A p \in db'.backup : p # q => p \in db.backup
    BY DEF q
  <2> QED
    BY <1>1, <1>2, <1>6, <2>1, <2>2 DEF LoadInv
<1>15. LoadedOnce' /\ StatusInv'
  BY <1>1, <1>2, <1>6 DEF LoadedOnce, StatusInv
<1>16. AnswerStored'
  BY <1>1, <1>2, <1>3, <1>4, <1>6 DEF AnswerStored
<1> QED
  BY <1>9, <1>10, <1>11, <1>12, <1>13, <1>14, <1>15, <1>16 DEF TablesInv

LEMMA WorkerTidyTables ==
    ASSUME QueueInv, TablesInv, WorkerTidy
    PROVE  TablesInv'
<1>1. /\ worker.at = "tidy" /\ Stores(worker.query) /\ status' = status
      /\ worker.success \in BOOLEAN
  BY WorkerTidyEffect, Numbers DEF Worker, QueueInv
<1>2. worker.success => worker.query \in db.write
  BY <1>1 DEF TablesInv, WorkerInv
<1>3. CASE /\ worker.success /\ Continues("complete", worker.success)
           /\ db'.write = db.write /\ db'.copy = db.copy \ {worker.query} /\ db'.backup = db.backup
           /\ past' = past
  BY <1>1, <1>2, <1>3, TidyTables
<1>4. CASE /\ ~worker.success /\ Continues("drop", worker.success)
           /\ db'.write = db.write /\ db'.copy = db.copy
           /\ db'.backup = db.backup \cup (db.copy \cap {worker.query})
           /\ past' = past
  BY <1>1, <1>4, TidyTables
<1>5. CASE /\ Continues("complete", worker.success) /\ db' = db
           /\ past'.kept = past.kept /\ past'.taken = past.taken
           /\ past'.lost = past.lost /\ past'.fault = past.fault \cup {worker.query}
  BY <1>1, <1>5, TidyTables
<1> QED
  BY <1>3, <1>4, <1>5, WorkerTidyEffect

LEMMA WorkerDropTables ==
    ASSUME QueueInv, TablesInv, WorkerDrop
    PROVE  TablesInv'
<1>1. worker.at = "drop" /\ status' = status /\ worker.success \in BOOLEAN /\ TRUE \in BOOLEAN
  BY WorkerDropEffect, Numbers DEF Worker, QueueInv
<1>2. Stores(worker.query)
  BY <1>1 DEF TablesInv, WorkerInv
<1>3. CASE /\ Continues("complete", TRUE)
           /\ db'.write = db.write /\ db'.copy = db.copy \ {worker.query} /\ db'.backup = db.backup
           /\ past' = past
  BY <1>1, <1>2, <1>3, TidyTables
<1>4. CASE /\ Continues("complete", worker.success) /\ db' = db
           /\ past'.kept = past.kept /\ past'.taken = past.taken
           /\ past'.lost = past.lost /\ past'.fault = past.fault \cup {worker.query}
  BY <1>1, <1>2, <1>4, TidyTables
<1> QED
  BY <1>3, <1>4, WorkerDropEffect

\* A load, on either database, takes the save away or changes nothing; no query
\* before it has got the save, unless it was written twice.
LEMMA LoadTables ==
    ASSUME QueueInv, TablesInv, Busy, OpOf(worker.query) = "load",
           NEW t \in {"write", "backup"}, NEW o \in {"error", "lost", "ok", "refused"},
           Load(worker.query, t, o),
           NEW at \in {"tidy", "complete"}, NEW success \in BOOLEAN, Continues(at, success),
           at = "tidy" => worker.backup
    PROVE  TablesInv'
<1> DEFINE q == worker.query
           w == worker.jobNum
           s == asked[q].save
<1>1. /\ worker'.at = at /\ worker'.jobNum = w /\ worker'.query = q /\ worker'.backup = worker.backup
      /\ UNCHANGED <<asked, backup, answer, answered>>
  BY DEF Continues
<1>2. /\ BackupInv /\ RangeInv /\ WorkerInv /\ LimboInv /\ OnceInv
      /\ LoadInv /\ LoadedOnce /\ StatusInv /\ AnswerStored
  BY DEF TablesInv
<1>3. w \in Int /\ q = w /\ Tried \in Int /\ Tried <= w /\ Handled = w - 1
  BY Progress
<1>4. Tried' = w /\ Handled' = w - 1
  BY <1>1 DEF Tried, Handled, Busy
<1>5. q \in Id /\ q \in 1 .. Len(asked) /\ 1 .. Len(asked) \subseteq Id
  BY InHand
<1>6. /\ \A p : OpOf(p)' = OpOf(p)
      /\ \A p : Stores(p)' = Stores(p)
      /\ \A p : HasBackup(p)' = HasBackup(p)
  BY <1>1 DEF HasBackup, Stores, OpOf
<1>7. /\ db'.copy = db.copy
      /\ past'.kept = past.kept /\ past'.lost = past.lost /\ past'.fault = past.fault
      /\ \A p \in Id : p # q => status'[p] = status[p]
  BY <1>5, LoadEffect
<1>8. s \in 1 .. w - 1
  BY <1>3, <1>5 DEF QueueInv, AskedInv
<1>9. /\ db'.write \subseteq db.write /\ db'.backup \subseteq db.backup
      /\ \A p : p # s => (p \in db'.write <=> p \in db.write) /\ (p \in db'.backup <=> p \in db.backup)
      /\ \/ /\ db'.write = db.write /\ db'.backup = db.backup /\ past'.taken = past.taken
            /\ status'[q] = "LOAD_FAILED"
         \/ /\ past'.taken = past.taken \cup {s}
            /\ s \in past.lost \/ (s \notin db'.write /\ s \notin db'.backup)
            /\ s \in past.taken => s \in past.lost
  <2>1. CASE /\ db'.write = db.write /\ db'.backup = db.backup /\ past'.taken = past.taken
             /\ status'[q] = "LOAD_FAILED"
    BY <2>1
  <2>2. CASE /\ s \in db[t] /\ db'[t] = db[t] \ {s}
             /\ \A u \in {"write", "backup"} : u # t => db'[u] = db[u]
             /\ past'.taken = past.taken \cup {s}
    <3>1. s \in db.write /\ s \in db.backup => s \in past.lost
      BY <1>2 DEF OnceInv
    <3>2. s \in past.taken => s \in past.lost \/ (s \notin db.write /\ s \notin db.backup)
      BY <1>2 DEF LoadInv
    <3>3. CASE t = "write"
      <4>1. s \in db.write /\ db'.write = db.write \ {s} /\ db'.backup = db.backup
        BY <2>2, <3>3
      <4> HIDE DEF s
      <4> QED
        BY <2>2, <3>1, <3>2, <4>1
    <3>4. CASE t = "backup"
      <4>1. s \in db.backup /\ db'.backup = db.backup \ {s} /\ db'.write = db.write
        BY <2>2, <3>4
      <4> HIDE DEF s
      <4> QED
        BY <2>2, <3>1, <3>2, <4>1
    <3> QED
      BY <3>3, <3>4
  <2> QED
    BY <1>5, <2>1, <2>2, LoadEffect
<1>10. ~Stores(q) /\ OpOf(q) = "load"
  BY DEF Stores
<1>11. worker.backup <=> HasBackup(w)
  <2>1. CASE Tried = w
    BY <1>2, <2>1 DEF BackupInv
  <2>2. CASE Tried = w - 1
    <3>1. w - 1 \in Nat /\ (w - 1) + 1 = w
      BY <1>3, <1>5
    <3>2. HasBackup(w) <=> HasBackup(w - 1) \/ OpOf(w) = "addBackup"
      BY <3>1, HasBackupNext
    <3> QED
      BY <1>2, <1>3, <1>10, <2>2, <3>2 DEF BackupInv
  <2> QED
    BY <2>1, <2>2, Progress
<1>12. asked' = asked /\ \A p \in 1 .. Len(asked) : p # q => status'[p] = status[p]
  BY <1>1, <1>5, <1>7
<1> HIDE DEF q, w, s
<1>13. BackupInv'
  <2>1. HasBackup(Tried)' <=> HasBackup(w)
    BY <1>1, <1>4 DEF HasBackup, OpOf
  <2> QED
    BY <1>1, <1>2, <1>11, <2>1 DEF BackupInv, HasBackup, OpOf
<1>14. RangeInv'
  <2>1. \A p \in db.write \cup db.backup \cup past.lost : p <= w
    <3>1. \A p \in db.write \cup db.backup \cup past.lost : p <= Tried /\ p \in Int
      BY <1>2, Contents DEF RangeInv
    <3> QED
      BY <1>3, <3>1
  <2>2. \A p \in past'.taken : p <= w - 1
    <3>1. \A p \in past.taken : p <= w - 1
      BY <1>2, <1>3 DEF RangeInv
    <3>2. s <= w - 1
      BY <1>3, <1>8
    <3> QED
      BY <1>9, <3>1, <3>2
  <2> QED
    BY <1>1, <1>2, <1>4, <1>6, <1>7, <1>9, <2>1, <2>2 DEF RangeInv
<1>15. WorkerInv'
  <2>1. worker'.at = at /\ (at = "tidy" => worker'.backup)
    BY <1>1
  <2> QED
    BY <1>1, <1>6, <1>10, <2>1 DEF WorkerInv
<1>16. LimboInv'
  <2>1. ASSUME NEW p \in past.kept
        PROVE  p \in db'.write \cup db'.copy \cup db'.backup \cup past'.taken
    <3>1. p \in db.write \cup db.copy \cup db.backup \cup past.taken
      BY <1>2 DEF LimboInv
    <3>2. CASE p # s
      BY <1>7, <1>9, <3>1, <3>2
    <3>3. CASE p = s
      BY <1>7, <1>9, <3>1, <3>3
    <3> QED
      BY <3>2, <3>3
  <2> QED
    BY <1>7, <2>1 DEF LimboInv
<1>17. OnceInv'
  <2>1. \A p \in db'.write \cap db'.backup : p \in past.lost
    BY <1>2, <1>9 DEF OnceInv
  <2>2. ASSUME NEW p \in 1 .. Len(asked), Stores(p), p \notin past.fault \cup past.lost,
               p <= w - 1 \/ (at = "complete" /\ p = q)
        PROVE  ~(p \in db'.write /\ p \in db.copy) /\ ~(p \in db'.backup /\ p \in db.copy)
    <3>1. p <= Handled
      BY <1>3, <1>10, <2>2
    <3> QED
      BY <1>2, <1>9, <2>2, <3>1 DEF OnceInv
  <2> QED
    BY <1>1, <1>4, <1>6, <1>7, <2>1, <2>2 DEF OnceInv
<1>18. LoadInv'
  <2>1. ASSUME NEW p \in past'.taken
        PROVE  p \in past.lost \/ (p \notin db'.write /\ p \notin db'.backup)
    <3>1. p \in past.taken \/ (p = s /\ (s \in past.lost \/ (s \notin db'.write /\ s \notin db'.backup)))
      BY <1>9, <2>1
    <3>2. p \in past.taken => p \in past.lost \/ (p \notin db.write /\ p \notin db.backup)
      BY <1>2 DEF LoadInv
    <3> QED
      BY <1>9, <3>1, <3>2
  <2>2. ASSUME NEW p \in 1 .. Len(asked), status'[p] = "LOAD_SUCCESS"
        PROVE  OpOf(p) = "load" /\ asked[p].save \in past'.taken
    <3>1. CASE p = q
      <4>1. past'.taken = past.taken \cup {s}
        BY <1>9, <2>2, <3>1
      <4> QED
        BY <1>10, <3>1, <4>1 DEF s
    <3>2. CASE p # q
      <4>1. OpOf(p) = "load" /\ asked[p].save \in past.taken
        BY <1>2, <1>12, <2>2, <3>2 DEF LoadInv
      <4> QED
        BY <1>9, <4>1
    <3> QED
      BY <3>1, <3>2
  <2> QED
    BY <1>6, <1>7, <1>12, <2>1, <2>2 DEF LoadInv
<1>19. LoadedOnce'
  <2>1. ASSUME NEW p \in 1 .. Len(asked), p # q,
               status'[p] = "LOAD_SUCCESS", status'[q] = "LOAD_SUCCESS",
               asked[p].save = s
        PROVE  s \in past.lost
    <3>1. s \in past.taken
      BY <1>2, <1>12, <2>1 DEF LoadInv
    <3> QED
      BY <1>9, <2>1, <3>1
  <2>2. ASSUME NEW p \in 1 .. Len(asked), NEW r \in 1 .. Len(asked),
               status'[p] = "LOAD_SUCCESS", status'[r] = "LOAD_SUCCESS",
               asked[p].save = asked[r].save, asked[p].save \notin past.lost
        PROVE  p = r
    <3>1. CASE p # q /\ r # q
      BY <1>2, <1>12, <2>2, <3>1 DEF LoadedOnce
    <3>2. CASE p = q /\ r # q
      BY <2>1, <2>2, <3>2 DEF s
    <3>3. CASE p # q /\ r = q
      BY <2>1, <2>2, <3>3 DEF s
    <3> QED
      BY <3>1, <3>2, <3>3
  <2> QED
    BY <1>7, <1>12, <2>2 DEF LoadedOnce
<1>20. StatusInv'
  BY <1>2, <1>6, <1>7, <1>10, <1>12 DEF StatusInv
<1>21. AnswerStored'
  BY <1>1, <1>2, <1>3, <1>4, <1>6, <1>7 DEF AnswerStored
<1> QED
  BY <1>13, <1>14, <1>15, <1>16, <1>17, <1>18, <1>19, <1>20, <1>21 DEF TablesInv

LEMMA WorkerLoadBackupTables ==
    ASSUME QueueInv, TablesInv, WorkerLoadBackup
    PROVE  TablesInv'
<1> DEFINE q == worker.query
<1>1. /\ worker.at = "tidy" /\ Busy /\ ~Stores(q)
      /\ \/ UNCHANGED <<db, past, status>>
         \/ \E o \in {"error", "lost", "ok", "refused"} : Load(q, "backup", o)
  BY WorkerLoadBackupEffect
<1>2. PICK success \in BOOLEAN : Continues("complete", success)
  BY WorkerLoadBackupEffect
<1>3. /\ BackupInv /\ RangeInv /\ WorkerInv /\ LimboInv /\ OnceInv
      /\ LoadInv /\ LoadedOnce /\ StatusInv /\ AnswerStored
  BY DEF TablesInv
<1>4. OpOf(q) = "load"
  BY <1>1, <1>3 DEF WorkerInv, Stores
<1>5. CASE UNCHANGED <<db, past, status>>
  <2>1. /\ worker'.at = "complete" /\ worker'.jobNum = worker.jobNum /\ worker'.query = q
        /\ worker'.backup = worker.backup
        /\ UNCHANGED <<asked, backup, answer, answered>>
    BY <1>2 DEF Continues
  <2>2. Tried' = Tried /\ Handled' = Handled
    BY <1>1, <2>1 DEF Tried, Handled, Busy
  <2>3. BackupInv'
    BY <1>3, <2>1, <2>2 DEF BackupInv, HasBackup, OpOf
  <2>4. RangeInv'
    BY <1>3, <1>5, <2>1, <2>2 DEF RangeInv, HasBackup, Stores, OpOf
  <2>5. WorkerInv'
    BY <1>1, <2>1 DEF WorkerInv, Stores, OpOf
  <2>6. LimboInv' /\ LoadInv' /\ LoadedOnce' /\ StatusInv'
    BY <1>3, <1>5, <2>1 DEF LimboInv, LoadInv, LoadedOnce, StatusInv, OpOf
  <2>7. OnceInv' /\ AnswerStored'
    BY <1>1, <1>3, <1>5, <2>1, <2>2 DEF OnceInv, AnswerStored, Stores, OpOf
  <2> QED
    BY <2>3, <2>4, <2>5, <2>6, <2>7 DEF TablesInv
<1>6. CASE \E o \in {"error", "lost", "ok", "refused"} : Load(q, "backup", o)
  BY <1>1, <1>2, <1>4, <1>6, LoadTables
<1> QED
  BY <1>1, <1>5, <1>6

\* A rank or save on the WRITE database, or a write function that is not called
\* there: nothing but the query in hand is touched.
LEMMA StoreTables ==
    ASSUME QueueInv, TablesInv, worker.at = "execute",
           OpOf(worker.query) \in {"rank", "save", "load"},
           NEW success \in BOOLEAN,
           Continues(IF worker.backup THEN "tidy" ELSE "complete", success),
           \/ ~success /\ UNCHANGED <<db, past, status>>
           \/ /\ Stores(worker.query)
              /\ \E o \in {"error", "lost", "ok"} :
                    Store(worker.query, o) /\ (success <=> o = "ok")
    PROVE  TablesInv'
<1> DEFINE q == worker.query
           w == worker.jobNum
           at == IF worker.backup THEN "tidy" ELSE "complete"
<1>1. /\ Busy /\ worker'.at = at /\ worker'.success = success
      /\ worker'.jobNum = w /\ worker'.query = q /\ worker'.backup = worker.backup
      /\ UNCHANGED <<asked, backup, answer, answered>>
  BY DEF Continues, Busy
<1>2. /\ BackupInv /\ RangeInv /\ WorkerInv /\ LimboInv /\ OnceInv
      /\ LoadInv /\ LoadedOnce /\ StatusInv /\ AnswerStored
  BY DEF TablesInv
<1>3. /\ w \in Int /\ q = w /\ Tried = w - 1 /\ Handled = w - 1
      /\ w <= backup.jobNum
  BY <1>1, Progress
<1>4. Tried' = w /\ Handled' = w - 1
  <2>1. at \in {"tidy", "complete"}
    OBVIOUS
  <2> HIDE DEF at
  <2> QED
    BY <1>1, <2>1 DEF Tried, Handled, Busy
<1>5. q \in Id /\ q \in 1 .. Len(asked) /\ 1 .. Len(asked) \subseteq Id
  BY <1>1, InHand
<1>6. /\ \A p : OpOf(p)' = OpOf(p)
      /\ \A p : Stores(p)' = Stores(p)
      /\ \A p : HasBackup(p)' = HasBackup(p)
  BY <1>1 DEF HasBackup, Stores, OpOf
<1>7. /\ db'.copy = db.copy /\ db'.backup = db.backup
      /\ past'.taken = past.taken /\ past'.fault = past.fault
      /\ \A p \in Id : p # q => status'[p] = status[p]
      /\ \/ /\ ~success /\ db'.write = db.write /\ past'.kept = past.kept /\ past'.lost = past.lost
            /\ status'[q] = status[q]
         \/ /\ Stores(q)
            /\ db'.write = db.write \cup {q} /\ past'.kept = past.kept \cup {q}
            /\ \/ /\ ~success /\ past'.lost = past.lost \cup {q} /\ status'[q] = status[q]
               \/ /\ success /\ past'.lost = past.lost
                  /\ status'[q] = IF OpOf(q) = "save" THEN "SAVE_SUCCESS" ELSE status[q]
  <2>1. CASE ~success /\ UNCHANGED <<db, past, status>>
    BY <2>1
  <2>2. CASE /\ Stores(q)
             /\ \E o \in {"error", "lost", "ok"} : Store(q, o) /\ (success <=> o = "ok")
    <3>1. PICK o \in {"error", "lost", "ok"} : Store(q, o) /\ (success <=> o = "ok")
      BY <2>2
    <3>2. /\ db'.copy = db.copy /\ db'.backup = db.backup
          /\ past'.taken = past.taken /\ past'.fault = past.fault
          /\ o = "error" => db' = db /\ past'.kept = past.kept
          /\ o # "error" => db'.write = db.write \cup {q} /\ past'.kept = past.kept \cup {q}
          /\ past'.lost = IF o = "lost" THEN past.lost \cup {q} ELSE past.lost
          /\ status'[q] = IF OpOf(q) = "save" /\ o = "ok" THEN "SAVE_SUCCESS" ELSE status[q]
          /\ \A p \in Id : p # q => status'[p] = status[p]
      BY <1>5, <3>1, StoreEffect
    <3> HIDE DEF q
    <3>3. CASE o = "error"
      BY <3>1, <3>2, <3>3
    <3>4. CASE o = "lost"
      BY <2>2, <3>1, <3>2, <3>4
    <3>5. CASE o = "ok"
      BY <2>2, <3>1, <3>2, <3>5
    <3> QED
      BY <3>3, <3>4, <3>5
  <2> QED
    BY <2>1, <2>2
<1>8. worker.backup <=> HasBackup(w)
  <2>1. w - 1 \in Nat /\ (w - 1) + 1 = w
    BY <1>3, <1>5
  <2>2. HasBackup(w) <=> HasBackup(w - 1) \/ OpOf(w) = "addBackup"
    BY <2>1, HasBackupNext
  <2> QED
    BY <1>2, <1>3, <2>2 DEF BackupInv
<1>9. /\ q \notin db.write /\ q \notin db.backup /\ q \notin past.lost /\ q \notin past.taken
      /\ q \in db.copy => worker.backup
  <2>1. ~(w <= w - 1)
    BY <1>3
  <2> QED
    BY <1>2, <1>3, <1>8, <2>1 DEF RangeInv
<1>10. OpOf(q) \in {"rank", "save", "load"}
  OBVIOUS
<1>11. /\ db.write \subseteq db'.write /\ past.kept \subseteq past'.kept
       /\ past.lost \subseteq past'.lost
       /\ \A p : p # q => /\ p \in db'.write <=> p \in db.write
                          /\ p \in past'.kept <=> p \in past.kept
                          /\ p \in past'.lost <=> p \in past.lost
       /\ q \in past'.lost => q \in past.lost \/ Stores(q)
       /\ q \in db'.write => Stores(q) /\ q \in past'.kept
       /\ q \in past'.kept => q \in past.kept \/ (Stores(q) /\ q \in db'.write)
  BY <1>7, <1>9
<1>12. asked' = asked /\ \A p \in 1 .. Len(asked) : p # q => status'[p] = status[p]
  BY <1>1, <1>5, <1>7
<1>13. at = "tidy" <=> worker.backup
  OBVIOUS
<1>14. at \in {"tidy", "complete"}
  OBVIOUS
<1> HIDE DEF q, w, at
<1>15. BackupInv'
  <2>1. HasBackup(Tried)' <=> HasBackup(w)
    BY <1>1, <1>4 DEF HasBackup, OpOf
  <2> QED
    BY <1>1, <1>2, <1>8, <2>1 DEF BackupInv, HasBackup, OpOf
<1>16. RangeInv'
  <2>1. \A p \in db'.write \cup db.backup \cup past'.lost : p <= w
    <3>1. \A p \in db.write \cup db.backup \cup past.lost : p <= w
      <4>1. \A p \in db.write \cup db.backup \cup past.lost : p <= w - 1 /\ p \in Int
        BY <1>2, <1>3, Contents DEF RangeInv
      <4> QED
        BY <1>3, <4>1
    <3>2. q <= w
      BY <1>3
    <3>3. ASSUME NEW p \in db'.write \cup db.backup \cup past'.lost PROVE p <= w
      <4>1. CASE p = q
        BY <3>2, <4>1
      <4>2. CASE p # q
        <5>1. p \in db.write \cup db.backup \cup past.lost
          BY <1>11, <3>3, <4>2
        <5> QED
          BY <3>1, <5>1
      <4> QED
        BY <4>1, <4>2
    <3> QED
      BY <3>3
  <2>2. \A p \in past'.kept : p <= backup.jobNum /\ Stores(p)
    <3>1. \A p \in past.kept : p <= backup.jobNum /\ Stores(p)
      BY <1>2 DEF RangeInv
    <3>2. q <= backup.jobNum
      BY <1>3
    <3> QED
      BY <1>11, <3>1, <3>2
  <2>3. \A p \in db'.write \cup db.backup \cup db.copy : p \in past'.kept
    <3>1. \A p \in db.write \cup db.backup \cup db.copy : p \in past.kept
      BY <1>2 DEF RangeInv
    <3> QED
      BY <1>11, <3>1
  <2>4. \A p \in 1 .. backup.jobNum : Stores(p) /\ HasBackup(p) => p \in past'.kept \cup past.fault
    <3>1. \A p \in 1 .. backup.jobNum : Stores(p) /\ HasBackup(p) => p \in past.kept \cup past.fault
      BY <1>2 DEF RangeInv
    <3> QED
      BY <1>11, <3>1
  <2>5. \A p \in past.taken : p <= w - 1
    BY <1>2, <1>3 DEF RangeInv
  <2>6. \A p \in db.copy : HasBackup(p)
    BY <1>2 DEF RangeInv
  <2> QED
    BY <1>1, <1>4, <1>6, <1>7, <2>1, <2>2, <2>3, <2>4, <2>5, <2>6 DEF RangeInv
<1>17. WorkerInv'
  <2>1. /\ q \notin db'.backup
        /\ success /\ Stores(q) => q \in db'.write
        /\ ~success => q \notin db'.write \/ q \in past'.lost
    <3>1. q \notin db'.backup
      BY <1>7, <1>9
    <3>2. success /\ Stores(q) => q \in db'.write
      BY <1>7
    <3>3. ~success => q \notin db'.write \/ q \in past'.lost
      BY <1>7, <1>9
    <3> QED
      BY <3>1, <3>2, <3>3
  <2>2. success /\ Stores(q) => q \in past'.kept
    BY <1>11, <2>1
  <2> QED
    BY <1>1, <1>6, <1>10, <1>13, <1>14, <2>1, <2>2 DEF WorkerInv
<1>18. LimboInv'
  <2>1. ASSUME NEW p \in past'.kept
        PROVE  p \in db'.write \cup db.copy \cup db.backup \cup past.taken
    <3>1. p \in past.kept => p \in db.write \cup db.copy \cup db.backup \cup past.taken
      BY <1>2 DEF LimboInv
    <3> QED
      BY <1>11, <2>1, <3>1
  <2> QED
    BY <1>7, <2>1 DEF LimboInv
<1>19. OnceInv'
  <2>1. \A p \in db'.write \cap db.backup : p \in past'.lost
    <3>1. \A p \in db.write \cap db.backup : p \in past.lost
      BY <1>2 DEF OnceInv
    <3> QED
      BY <1>9, <1>11, <3>1
  <2>2. ASSUME NEW p \in 1 .. Len(asked), Stores(p), p \notin past.fault \cup past'.lost,
               p <= w - 1 \/ (at = "complete" /\ p = q)
        PROVE  ~(p \in db'.write /\ p \in db.copy) /\ ~(p \in db.backup /\ p \in db.copy)
    <3>1. CASE p # q
      <4>1. p <= Handled /\ p \notin past.fault \cup past.lost
        BY <1>3, <1>11, <2>2, <3>1
      <4>2. ~(p \in db.write /\ p \in db.copy) /\ ~(p \in db.backup /\ p \in db.copy)
        BY <1>2, <2>2, <4>1 DEF OnceInv
      <4> QED
        BY <1>11, <3>1, <4>2
    <3>2. CASE p = q
      <4>1. ~(q <= w - 1)
        BY <1>3
      <4>2. at # "tidy"
        BY <2>2, <3>2, <4>1
      <4>3. q \notin db.copy
        BY <1>9, <1>13, <4>2
      <4> QED
        BY <3>2, <4>3
    <3> QED
      BY <3>1, <3>2
  <2> QED
    BY <1>1, <1>4, <1>6, <1>7, <2>1, <2>2 DEF OnceInv
<1>20. status'[q] = "LOAD_SUCCESS" => status[q] = "LOAD_SUCCESS"
  BY <1>7
<1>21. \A p \in 1 .. Len(asked) : status'[p] = "LOAD_SUCCESS" => status[p] = "LOAD_SUCCESS"
  BY <1>12, <1>20
<1>22. LoadInv'
  <2>1. \A p \in past.taken : p # q
    BY <1>9
  <2>2. \A p \in past.taken : p \in past'.lost \/ (p \notin db'.write /\ p \notin db.backup)
    BY <1>2, <1>11, <2>1 DEF LoadInv
  <2> QED
    BY <1>2, <1>6, <1>7, <1>12, <1>21, <2>2 DEF LoadInv
<1>23. LoadedOnce'
  BY <1>2, <1>11, <1>12, <1>21 DEF LoadedOnce
<1>24. StatusInv'
  <2>1. ASSUME NEW p \in 1 .. Len(asked), OpOf(p) = "save"
        PROVE  IF status'[p] = "SAVE_FAILED"
               THEN p \notin past'.kept \/ p \in past'.lost
               ELSE p \in past'.kept
    <3>1. IF status[p] = "SAVE_FAILED"
          THEN p \notin past.kept \/ p \in past.lost
          ELSE p \in past.kept
      BY <1>2, <2>1 DEF StatusInv
    <3>2. CASE p # q
      BY <1>11, <1>12, <3>1, <3>2
    <3>3. CASE p = q
      <4>1. CASE past'.kept = past.kept /\ past'.lost = past.lost /\ status'[q] = status[q]
        BY <3>1, <3>3, <4>1
      <4>2. CASE /\ past'.kept = past.kept \cup {q}
                 /\ past'.lost = past.lost \cup {q} /\ status'[q] = status[q]
        BY <3>3, <4>2
      <4>3. CASE /\ past'.kept = past.kept \cup {q}
                 /\ status'[q] = IF OpOf(q) = "save" THEN "SAVE_SUCCESS" ELSE status[q]
        BY <2>1, <3>3, <4>3
      <4> QED
        BY <1>7, <4>1, <4>2, <4>3
    <3> QED
      BY <3>2, <3>3
  <2> QED
    BY <1>6, <1>12, <2>1 DEF StatusInv
<1>25. AnswerStored'
  BY <1>1, <1>2, <1>3, <1>4, <1>6, <1>7, <1>11 DEF AnswerStored
<1> QED
  BY <1>15, <1>16, <1>17, <1>18, <1>19, <1>22, <1>23, <1>24, <1>25 DEF TablesInv

LEMMA WorkerWriteTables ==
    ASSUME QueueInv, TablesInv, WorkerWrite
    PROVE  TablesInv'
<1> DEFINE q == worker.query
           at == IF worker.backup THEN "tidy" ELSE "complete"
<1>1. /\ worker.at = "execute" /\ Busy
      /\ OpOf(q) \in {"rank", "save", "load"}
  BY WorkerWriteEffect
<1>2. PICK success \in BOOLEAN :
         /\ Continues(at, success)
         /\ \/ ~success /\ UNCHANGED <<db, past, status>>
            \/ /\ Stores(q)
               /\ \E o \in {"error", "lost", "ok"} : Store(q, o) /\ (success <=> o = "ok")
            \/ ~Stores(q) /\ \E o \in {"error", "lost", "ok", "refused"} : Load(q, "write", o)
  BY WorkerWriteEffect
<1>3. CASE \/ ~success /\ UNCHANGED <<db, past, status>>
           \/ /\ Stores(q)
              /\ \E o \in {"error", "lost", "ok"} : Store(q, o) /\ (success <=> o = "ok")
  BY <1>1, <1>2, <1>3, StoreTables
<1>4. CASE ~Stores(q) /\ \E o \in {"error", "lost", "ok", "refused"} : Load(q, "write", o)
  <2>1. OpOf(q) = "load"
    BY <1>1, <1>4 DEF Stores
  <2>2. at \in {"tidy", "complete"} /\ (at = "tidy" => worker.backup)
    OBVIOUS
  <2> HIDE DEF at
  <2> QED
    BY <1>1, <1>2, <1>4, <2>1, <2>2, LoadTables
<1> QED
  BY <1>2, <1>3, <1>4

LEMMA TablesStep == QueueInv /\ TablesInv /\ [Next]_vars => TablesInv'
<1> SUFFICES ASSUME QueueInv, TablesInv, [Next]_vars PROVE TablesInv'
  OBVIOUS
<1>1. ASSUME Room, Register PROVE TablesInv'
  BY <1>1, RegisterQueue, InsertTables
<1>2. ASSUME Room, NEW op \in Op, Execute(op) PROVE TablesInv'
  BY <1>2, ExecuteQueue, InsertTables
<1>3. ASSUME OnShutdown \/ ShutdownDone \/ UNCHANGED vars PROVE TablesInv'
  BY <1>3, MainTables
<1>4. ASSUME BackupLook PROVE TablesInv'
  BY <1>4, BackupLookTables
<1>5. ASSUME BackupWrite PROVE TablesInv'
  BY <1>5, BackupWriteTables
<1>6. ASSUME WorkerTop \/ WorkerTake PROVE TablesInv'
  BY <1>6, WorkerMovesTables
<1>7. ASSUME WorkerAdd \/ WorkerRead PROVE TablesInv'
  BY <1>7, WorkerAddTables
<1>8. ASSUME WorkerWrite PROVE TablesInv'
  BY <1>8, WorkerWriteTables
<1>9. ASSUME WorkerTidy PROVE TablesInv'
  BY <1>9, WorkerTidyTables
<1>10. ASSUME WorkerDrop PROVE TablesInv'
  BY <1>10, WorkerDropTables
<1>11. ASSUME WorkerLoadBackup PROVE TablesInv'
  BY <1>11, WorkerLoadBackupTables
<1>12. ASSUME WorkerComplete PROVE TablesInv'
  BY <1>12, WorkerCompleteTables
<1> DEFINE Goal == TablesInv'
<1> HIDE DEF Goal
<1> QED
  BY <1>1, <1>2, <1>3, <1>4, <1>5, <1>6, <1>7, <1>8, <1>9, <1>10, <1>11, <1>12 DEF Next

LEMMA TablesAlways == Spec => [](QueueInv /\ TablesInv)
<1>1. Init => QueueInv /\ TablesInv
  BY QueueInit, TablesInit
<1>2. QueueInv /\ TablesInv /\ [Next]_vars => (QueueInv /\ TablesInv)'
  BY QueueStep, TablesStep
<1> QED
  BY <1>1, <1>2, PTL DEF Spec

-----------------------------------------------------------------------------
(* What players are told *)

\* The worker may still load a save for the query in hand.
Loading == worker.at = "execute" \/ (worker.at = "tidy" /\ ~worker.success)

\* Loads up to here have their final status.
Over == IF Loading THEN worker.jobNum - 1 ELSE worker.jobNum

\* A save that has a copy is not reported as failed.
FirstInv ==
    \A q \in past.first : q \in past.kept /\ (OpOf(q) = "save" => status[q] # "SAVE_FAILED")

\* Who has a save knows it, unless the answer to the DELETE got lost.
HeardInv ==
    \A s \in past.taken :
        \/ s \in past.unheard
        \/ \E p \in 1 .. Len(asked) : asked[p].save = s /\ status[p] = "LOAD_SUCCESS"

LoadsInv == \A q \in 1 .. Len(asked) : status[q] = "LOAD_SUCCESS" => q <= Over

ToldInv == FirstInv /\ HeardInv /\ LoadsInv

LEMMA ToldRange ==
    ASSUME QueueInv
    PROVE  /\ worker.jobNum \in Int /\ Len(asked) \in Nat /\ Over \in Int
           /\ worker.jobNum <= Len(asked) /\ 1 .. Len(asked) \subseteq Id
           /\ past \in Past /\ status \in [Id -> Status]
<1>1. /\ worker.jobNum \in Nat /\ backup.jobNum \in Nat /\ Len(asked) \in Nat
      /\ worker.jobNum <= backup.jobNum /\ backup.jobNum <= Len(asked)
      /\ Len(asked) <= MaxQueries /\ MaxQueries \in Nat
  BY Numbers, DbPoolAssumption DEF QueueInv, OrderInv
<1>2. past \in Past /\ status \in [Id -> Status]
  BY DEF QueueInv, TypeOK, Past
<1> QED
  BY <1>1, <1>2 DEF Over, Id

\* A step that tells nobody anything.
LEMMA ToldQuiet ==
    ASSUME QueueInv, ToldInv, UNCHANGED <<asked, status>>,
           past'.first = past.first, past'.kept = past.kept,
           past'.taken = past.taken, past'.unheard = past.unheard,
           Over' \in Int, Over <= Over'
    PROVE  ToldInv'
<1>1. FirstInv' /\ HeardInv'
  BY DEF ToldInv, FirstInv, HeardInv, OpOf
<1>2. LoadsInv'
  <2>1. ASSUME NEW q \in 1 .. Len(asked), status[q] = "LOAD_SUCCESS" PROVE q <= Over'
    <3>1. q <= Over /\ Over \in Int /\ q \in Int
      BY <2>1, ToldRange DEF ToldInv, LoadsInv
    <3> QED
      BY <3>1
  <2> QED
    BY <2>1 DEF LoadsInv
<1> QED
  BY <1>1, <1>2 DEF ToldInv

LEMMA InsertTold ==
    ASSUME QueueInv, TablesInv, ToldInv, Room, NEW r \in Query, Insert(r)
    PROVE  ToldInv'
<1> DEFINE n == Len(asked)
<1>1. /\ n \in Nat /\ Len(asked') = n + 1 /\ n + 1 \in Id
      /\ \A i \in 1 .. n : asked'[i] = asked[i]
      /\ status' = [status EXCEPT ![n + 1] = Fresh(r.op)]
      /\ UNCHANGED <<worker, past>>
  BY InsertEffect, ToldRange
<1>2. /\ status \in [Id -> Status] /\ 1 .. n \subseteq Id /\ Over' = Over
      /\ status'[n + 1] # "LOAD_SUCCESS" /\ \A q \in 1 .. n : status'[q] = status[q]
  BY <1>1, ToldRange DEF Fresh, Over, Loading
<1>3. FirstInv'
  <2>1. ASSUME NEW q \in past.first
        PROVE  q \in past.kept /\ (OpOf(q)' = "save" => status'[q] # "SAVE_FAILED")
    <3>1. q \in past.kept /\ (OpOf(q) = "save" => status[q] # "SAVE_FAILED")
      BY DEF ToldInv, FirstInv
    <3>2. q \in 1 .. n
      <4>1. q \in Id /\ q <= backup.jobNum
        BY <3>1, ToldRange DEF TablesInv, RangeInv, Past
      <4>2. backup.jobNum \in Int /\ backup.jobNum <= n
        BY Numbers DEF QueueInv, OrderInv
      <4> QED
        BY <1>1, <4>1, <4>2 DEF Id
    <3> QED
      BY <1>1, <1>2, <3>1, <3>2 DEF OpOf
  <2> QED
    BY <1>1, <2>1 DEF FirstInv
<1>4. HeardInv'
  <2>1. ASSUME NEW s \in past.taken, s \notin past.unheard
        PROVE  \E p \in 1 .. n + 1 : asked'[p].save = s /\ status'[p] = "LOAD_SUCCESS"
    <3>1. PICK p \in 1 .. n : asked[p].save = s /\ status[p] = "LOAD_SUCCESS"
      BY <2>1 DEF ToldInv, HeardInv
    <3>2. p \in 1 .. n + 1
      BY <1>1
    <3> QED
      BY <1>1, <1>2, <3>1, <3>2
  <2> QED
    BY <1>1, <2>1 DEF HeardInv
<1>5. LoadsInv'
  <2>1. ASSUME NEW q \in 1 .. n + 1, status'[q] = "LOAD_SUCCESS" PROVE q <= Over
    <3>1. q \in 1 .. n
      BY <1>1, <1>2, <2>1
    <3> QED
      BY <1>2, <2>1, <3>1 DEF ToldInv, LoadsInv
  <2> QED
    BY <1>1, <1>2, <2>1 DEF LoadsInv
<1> QED
  BY <1>3, <1>4, <1>5 DEF ToldInv

LEMMA BackupWriteTold ==
    ASSUME QueueInv, TablesInv, ToldInv, BackupWrite
    PROVE  ToldInv'
<1> DEFINE b == backup.query
<1>1. /\ b \in 1 .. Len(asked) /\ b \in Id /\ b > worker.jobNum
      /\ UNCHANGED <<asked, worker>>
  BY BackupWriteEffect
<1>2. /\ past \in Past /\ status \in [Id -> Status] /\ worker.jobNum \in Int
      /\ Over \in Int /\ Over' = Over /\ 1 .. Len(asked) \subseteq Id
  BY <1>1, ToldRange DEF Over, Loading
<1>3. \/ /\ past'.first = past.first \cup {b} /\ past'.kept = past.kept \cup {b}
         /\ past'.taken = past.taken /\ past'.unheard = past.unheard
         /\ status'[b] = IF OpOf(b) = "save" THEN "SAVE_FALLBACKFILE" ELSE status[b]
         /\ \A q \in Id : q # b => status'[q] = status[q]
      \/ /\ past'.first = past.first /\ past'.kept = past.kept
         /\ past'.taken = past.taken /\ past'.unheard = past.unheard
         /\ status' = status
  <2>1. \/ /\ status' = [status EXCEPT ![b] =
                            IF OpOf(b) = "save" THEN "SAVE_FALLBACKFILE" ELSE status[b]]
           /\ past' = [past EXCEPT !.kept = past.kept \cup {b}, !.first = past.first \cup {b}]
        \/ past' = [past EXCEPT !.fault = past.fault \cup {b}] /\ status' = status
        \/ past' = past /\ status' = status
    BY BackupWriteEffect
  <2> HIDE DEF b
  <2> QED
    BY <1>1, <1>2, <2>1 DEF Past
<1> HIDE DEF b
<1>4. CASE /\ past'.first = past.first /\ past'.kept = past.kept
           /\ past'.taken = past.taken /\ past'.unheard = past.unheard
           /\ status' = status
  BY <1>1, <1>2, <1>4, ToldQuiet
<1>5. CASE /\ past'.first = past.first \cup {b} /\ past'.kept = past.kept \cup {b}
           /\ past'.taken = past.taken /\ past'.unheard = past.unheard
           /\ status'[b] = IF OpOf(b) = "save" THEN "SAVE_FALLBACKFILE" ELSE status[b]
           /\ \A q \in Id : q # b => status'[q] = status[q]
  <2>1. status[b] # "LOAD_SUCCESS"
    <3>1. ~(b <= Over)
      BY <1>1, <1>2 DEF Over
    <3> QED
      BY <1>1, <3>1 DEF ToldInv, LoadsInv
  <2>2. \A q \in 1 .. Len(asked) : status'[q] = "LOAD_SUCCESS" <=> status[q] = "LOAD_SUCCESS"
    BY <1>2, <1>5, <2>1
  <2>3. FirstInv'
    <3>1. ASSUME NEW q \in past.first \cup {b}
          PROVE  q \in past.kept \cup {b} /\ (OpOf(q) = "save" => status'[q] # "SAVE_FAILED")
      <4>1. CASE q = b
        BY <1>5, <4>1
      <4>2. CASE q # b
        <5>1. q \in Id /\ q \in past.kept /\ (OpOf(q) = "save" => status[q] # "SAVE_FAILED")
          BY <1>2, <4>2 DEF ToldInv, FirstInv, Past
        <5> QED
          BY <1>5, <4>2, <5>1
      <4> QED
        BY <4>1, <4>2
    <3> QED
      BY <1>1, <1>5, <3>1 DEF FirstInv, OpOf
  <2>4. HeardInv'
    BY <1>1, <1>5, <2>2 DEF ToldInv, HeardInv
  <2>5. LoadsInv'
    BY <1>1, <1>2, <2>2 DEF ToldInv, LoadsInv
  <2> QED
    BY <2>3, <2>4, <2>5 DEF ToldInv
<1> QED
  BY <1>3, <1>4, <1>5

\* The query in hand is the last that may be loading.
LEMMA OverIs ==
    ASSUME QueueInv, Busy, NEW at, NEW success \in BOOLEAN, Continues(at, success)
    PROVE  /\ worker.query = worker.jobNum /\ worker.query \in Id
           /\ worker.query \in 1 .. Len(asked)
           /\ Over' = IF at = "execute" \/ (at = "tidy" /\ ~success)
                      THEN worker.jobNum - 1 ELSE worker.jobNum
           /\ Over' \in Int /\ asked' = asked
BY InHand, ToldRange DEF Continues, Over, Loading, QueueInv, ThreadsInv

\* A load by the query in hand.
LEMMA LoadTold ==
    ASSUME QueueInv, ToldInv, Busy, Loading, OpOf(worker.query) = "load",
           NEW t \in {"write", "backup"}, NEW o \in {"error", "lost", "ok", "refused"},
           Load(worker.query, t, o),
           NEW at \in {"tidy", "complete"}, NEW success \in BOOLEAN, Continues(at, success),
           at = "tidy" => (success <=> o \in {"ok", "refused"})
    PROVE  ToldInv'
<1> DEFINE q == worker.query
<1>1. /\ q = worker.jobNum /\ q \in Id /\ q \in 1 .. Len(asked)
      /\ Over' = IF at = "tidy" /\ ~success THEN worker.jobNum - 1 ELSE worker.jobNum
      /\ asked' = asked /\ Over = worker.jobNum - 1 /\ worker.jobNum \in Int
      /\ past \in Past /\ 1 .. Len(asked) \subseteq Id
  BY OverIs, ToldRange DEF Over
<1>2. /\ past'.kept = past.kept /\ past'.first = past.first
      /\ past.unheard \subseteq past'.unheard
      /\ o \notin {"ok", "refused"} => status'[q] = "LOAD_FAILED"
      /\ \/ past'.taken = past.taken
         \/ /\ past'.taken = past.taken \cup {asked[q].save}
            /\ status'[q] = "LOAD_SUCCESS" \/ asked[q].save \in past'.unheard
      /\ \A p \in Id : p # q => status'[p] = status[p]
  BY <1>1, LoadEffect
<1> HIDE DEF q
<1>3. \A p \in 1 .. Len(asked) : status[p] = "LOAD_SUCCESS" => p # q /\ p < worker.jobNum
  BY <1>1 DEF ToldInv, LoadsInv
<1>4. FirstInv'
  <2>1. ASSUME NEW p \in past.first
        PROVE  p \in past.kept /\ (OpOf(p) = "save" => status'[p] # "SAVE_FAILED")
    <3>1. p \in Id /\ p \in past.kept /\ (OpOf(p) = "save" => status[p] # "SAVE_FAILED")
      BY <1>1 DEF ToldInv, FirstInv, Past
    <3>2. CASE p = q
      BY <3>1, <3>2 DEF q
    <3> QED
      BY <1>2, <3>1, <3>2
  <2> QED
    BY <1>1, <1>2, <2>1 DEF FirstInv, OpOf
<1>5. HeardInv'
  <2>1. ASSUME NEW s \in past.taken
        PROVE  s \in past'.unheard \/ \E p \in 1 .. Len(asked) :
                                          asked[p].save = s /\ status'[p] = "LOAD_SUCCESS"
    <3>1. CASE s \in past.unheard
      BY <1>2, <3>1
    <3>2. CASE s \notin past.unheard
      <4>1. PICK p \in 1 .. Len(asked) : asked[p].save = s /\ status[p] = "LOAD_SUCCESS"
        BY <3>2 DEF ToldInv, HeardInv
      <4> QED
        BY <1>1, <1>2, <1>3, <4>1
    <3> QED
      BY <3>1, <3>2
  <2> QED
    BY <1>1, <1>2, <2>1 DEF HeardInv
<1>6. LoadsInv'
  <2>1. ASSUME NEW p \in 1 .. Len(asked), status'[p] = "LOAD_SUCCESS" PROVE p <= Over'
    <3>1. CASE p = q
      <4>1. ~(at = "tidy" /\ ~success)
        BY <1>2, <2>1, <3>1
      <4> QED
        BY <1>1, <3>1, <4>1
    <3>2. CASE p # q
      <4>1. p < worker.jobNum /\ p \in Int
        BY <1>1, <1>2, <1>3, <2>1, <3>2
      <4> QED
        BY <1>1, <4>1
    <3> QED
      BY <3>1, <3>2
  <2> QED
    BY <1>1, <2>1 DEF LoadsInv
<1> QED
  BY <1>4, <1>5, <1>6 DEF ToldInv

\* A write of the query in hand to the WRITE database.
LEMMA StoreTold ==
    ASSUME QueueInv, ToldInv, Busy, Loading, NEW o \in {"error", "lost", "ok"},
           Store(worker.query, o),
           NEW at \in {"tidy", "complete"}, NEW success \in BOOLEAN, Continues(at, success)
    PROVE  ToldInv'
<1> DEFINE q == worker.query
<1>1. /\ q = worker.jobNum /\ q \in Id /\ q \in 1 .. Len(asked)
      /\ Over' \in Int /\ Over <= Over' /\ Over \in Int
      /\ asked' = asked /\ Over = worker.jobNum - 1 /\ worker.jobNum \in Int
      /\ past \in Past /\ 1 .. Len(asked) \subseteq Id
  BY OverIs, ToldRange DEF Over
<1>2. /\ past.kept \subseteq past'.kept /\ past'.first = past.first
      /\ past'.unheard = past.unheard /\ past'.taken = past.taken
      /\ status'[q] = "SAVE_SUCCESS" \/ status'[q] = status[q]
      /\ \A p \in Id : p # q => status'[p] = status[p]
  BY <1>1, StoreEffect
<1> HIDE DEF q
<1>3. \A p \in 1 .. Len(asked) : status[p] = "LOAD_SUCCESS" => p # q /\ p <= Over
  BY <1>1 DEF ToldInv, LoadsInv
<1>4. \A p \in 1 .. Len(asked) : status'[p] = "LOAD_SUCCESS" <=> status[p] = "LOAD_SUCCESS"
  BY <1>1, <1>2, <1>3
<1>5. FirstInv'
  <2>1. ASSUME NEW p \in past.first
        PROVE  p \in past'.kept /\ (OpOf(p) = "save" => status'[p] # "SAVE_FAILED")
    <3>1. p \in Id /\ p \in past.kept /\ (OpOf(p) = "save" => status[p] # "SAVE_FAILED")
      BY <1>1 DEF ToldInv, FirstInv, Past
    <3> QED
      BY <1>2, <3>1
  <2> QED
    BY <1>1, <1>2, <2>1 DEF FirstInv, OpOf
<1>6. HeardInv'
  BY <1>1, <1>2, <1>4 DEF ToldInv, HeardInv
<1>7. LoadsInv'
  <2>1. ASSUME NEW p \in 1 .. Len(asked), status'[p] = "LOAD_SUCCESS" PROVE p <= Over'
    BY <1>1, <1>3, <1>4, <2>1
  <2> QED
    BY <1>1, <2>1 DEF LoadsInv
<1> QED
  BY <1>5, <1>6, <1>7 DEF ToldInv

\* A step of the worker between or after its statements.
LEMMA ToldContinues ==
    ASSUME QueueInv, ToldInv, Busy, NEW at \in {"drop", "complete"},
           NEW success \in BOOLEAN, Continues(at, success), status' = status,
           past'.first = past.first, past'.kept = past.kept,
           past'.taken = past.taken, past'.unheard = past.unheard
    PROVE  ToldInv'
<1>1. asked' = asked /\ Over' \in Int /\ Over' = worker.jobNum
  BY OverIs
<1>2. Over <= Over'
  BY <1>1, ToldRange DEF Over
<1> QED
  BY <1>1, <1>2, ToldQuiet

LEMMA WorkerWriteTold ==
    ASSUME QueueInv, ToldInv, WorkerWrite
    PROVE  ToldInv'
<1> DEFINE q == worker.query
           next == IF worker.backup THEN "tidy" ELSE "complete"
<1>1. worker.at = "execute" /\ Busy /\ Loading /\ OpOf(q) \in {"rank", "save", "load"}
  BY WorkerWriteEffect DEF Loading
<1>2. PICK success \in BOOLEAN :
         /\ Continues(next, success)
         /\ \/ ~success /\ UNCHANGED <<db, past, status>>
            \/ Stores(q) /\ \E o \in {"error", "lost", "ok"} : Store(q, o)
            \/ /\ ~Stores(q)
               /\ \E o \in {"error", "lost", "ok", "refused"} :
                     Load(q, "write", o) /\ (success <=> o \in {"ok", "refused"})
  BY WorkerWriteEffect
<1>3. next \in {"tidy", "complete"}
  OBVIOUS
<1> HIDE DEF next
<1>4. CASE UNCHANGED <<db, past, status>>
  <2>1. asked' = asked /\ Over' \in Int /\ Over' >= worker.jobNum - 1
    BY <1>1, <1>2, OverIs, ToldRange
  <2>2. Over = worker.jobNum - 1
    BY <1>1 DEF Over
  <2> QED
    BY <1>4, <2>1, <2>2, ToldQuiet, ToldRange
<1>5. CASE Stores(q) /\ \E o \in {"error", "lost", "ok"} : Store(q, o)
  BY <1>1, <1>2, <1>3, <1>5, StoreTold
<1>6. CASE /\ ~Stores(q)
           /\ \E o \in {"error", "lost", "ok", "refused"} :
                 Load(q, "write", o) /\ (success <=> o \in {"ok", "refused"})
  <2>1. OpOf(q) = "load"
    BY <1>1, <1>6 DEF Stores
  <2> QED
    BY <1>1, <1>2, <1>3, <1>6, <2>1, LoadTold
<1> QED
  BY <1>2, <1>4, <1>5, <1>6

LEMMA WorkerBackupTold ==
    ASSUME QueueInv, TablesInv, ToldInv, WorkerTidy \/ WorkerDrop \/ WorkerLoadBackup
    PROVE  ToldInv'
<1>1. worker.success \in BOOLEAN
  BY Numbers DEF QueueInv, Worker
<1>2. CASE WorkerTidy
  <2>1. /\ Busy /\ status' = status
        /\ \/ Continues("complete", worker.success) \/ Continues("drop", worker.success)
        /\ past'.first = past.first /\ past'.kept = past.kept
        /\ past'.taken = past.taken /\ past'.unheard = past.unheard
    BY <1>2, WorkerTidyEffect
  <2> QED
    BY <1>1, <2>1, ToldContinues
<1>3. CASE WorkerDrop
  <2>1. /\ Busy /\ status' = status
        /\ \/ Continues("complete", TRUE) \/ Continues("complete", worker.success)
        /\ past'.first = past.first /\ past'.kept = past.kept
        /\ past'.taken = past.taken /\ past'.unheard = past.unheard
    BY <1>3, WorkerDropEffect
  <2> QED
    BY <1>1, <2>1, ToldContinues
<1>4. CASE WorkerLoadBackup
  <2>1. worker.at = "tidy" /\ Busy /\ ~Stores(worker.query)
    BY <1>4, WorkerLoadBackupEffect
  <2>2. PICK success \in BOOLEAN : Continues("complete", success)
    BY <1>4, WorkerLoadBackupEffect
  <2>3. CASE UNCHANGED <<db, past, status>>
    BY <2>1, <2>2, <2>3, ToldContinues
  <2>4. CASE /\ ~worker.success
             /\ \E o \in {"error", "lost", "ok", "refused"} : Load(worker.query, "backup", o)
    <3>1. Loading
      BY <2>1, <2>4 DEF Loading
    <3>2. OpOf(worker.query) = "load"
      BY <2>1 DEF TablesInv, WorkerInv, Stores
    <3> QED
      BY <2>1, <2>2, <2>4, <3>1, <3>2, LoadTold
  <2> QED
    BY <1>4, <2>3, <2>4, WorkerLoadBackupEffect
<1> QED
  BY <1>2, <1>3, <1>4

LEMMA WorkerMovesTold ==
    ASSUME QueueInv, ToldInv,
           WorkerTop \/ WorkerTake \/ WorkerAdd \/ WorkerRead \/ WorkerComplete
    PROVE  ToldInv'
<1>1. UNCHANGED <<asked, past, status>>
  BY WorkerTopEffect, WorkerTakeEffect, WorkerAddEffect, WorkerReadEffect, WorkerCompleteEffect
<1>2. worker.jobNum \in Int
  BY ToldRange
<1>3. \/ worker'.jobNum = worker.jobNum /\ worker'.at \notin {"execute", "tidy"}
      \/ worker.at = "wait" /\ worker'.jobNum = worker.jobNum + 1
  BY WorkerTopEffect, WorkerTakeEffect, WorkerAddEffect, WorkerReadEffect, WorkerCompleteEffect
<1>4. Over' \in Int /\ Over <= Over'
  <2>1. CASE worker'.jobNum = worker.jobNum /\ worker'.at \notin {"execute", "tidy"}
    BY <1>2, <2>1 DEF Over, Loading
  <2>2. CASE worker.at = "wait" /\ worker'.jobNum = worker.jobNum + 1
    BY <1>2, <2>2 DEF Over, Loading
  <2> QED
    BY <1>3, <2>1, <2>2
<1> QED
  BY <1>1, <1>4, ToldQuiet

LEMMA ToldStep ==
    ASSUME QueueInv, TablesInv, ToldInv, [Next]_vars
    PROVE  ToldInv'
<1>1. ASSUME Room, Register PROVE ToldInv'
  BY <1>1, RegisterQueue, InsertTold
<1>2. ASSUME Room, NEW op \in Op, Execute(op) PROVE ToldInv'
  BY <1>2, ExecuteQueue, InsertTold
<1>3. ASSUME OnShutdown \/ ShutdownDone \/ BackupLook \/ UNCHANGED vars PROVE ToldInv'
  <2>1. UNCHANGED <<asked, past, status, worker>>
    BY <1>3, BackupLookEffect DEF OnShutdown, ShutdownDone, vars, queue, tables
  <2>2. Over' = Over /\ Over \in Int
    BY <2>1, ToldRange DEF Over, Loading
  <2> QED
    BY <2>1, <2>2, ToldQuiet
<1>4. ASSUME BackupWrite PROVE ToldInv'
  BY <1>4, BackupWriteTold
<1>5. ASSUME WorkerTop \/ WorkerTake \/ WorkerAdd \/ WorkerRead \/ WorkerComplete PROVE ToldInv'
  BY <1>5, WorkerMovesTold
<1>6. ASSUME WorkerWrite PROVE ToldInv'
  BY <1>6, WorkerWriteTold
<1>7. ASSUME WorkerTidy \/ WorkerDrop \/ WorkerLoadBackup PROVE ToldInv'
  BY <1>7, WorkerBackupTold
<1> DEFINE Goal == ToldInv'
<1> HIDE DEF Goal
<1> QED
  BY <1>1, <1>2, <1>3, <1>4, <1>5, <1>6, <1>7 DEF Next

LEMMA ToldAlways == Spec => [](QueueInv /\ TablesInv /\ ToldInv)
<1>1. Init => ToldInv
  BY DEF Init, ToldInv, FirstInv, HeardInv, LoadsInv
<1>2. QueueInv /\ TablesInv /\ ToldInv /\ [Next]_vars => ToldInv'
  BY ToldStep
<1> QED
  BY <1>1, <1>2, TablesAlways, PTL DEF Spec

\* No rank or save that has been stored is lost, whatever statement fails: it is in a
\* table, or a team has loaded it and has been told so, or the answer to the DELETE that
\* took it out got lost.
THEOREM NeverInLimboCorrect == Spec => []NeverInLimbo
<1>1. ASSUME QueueInv, TablesInv, ToldInv PROVE NeverInLimbo
  <2>1. DOMAIN db = {"write", "copy", "backup"}
    BY <1>1 DEF QueueInv, TypeOK
  <2>2. LimboInv /\ HeardInv
    BY <1>1 DEF TablesInv, ToldInv
  <2>3. ASSUME NEW q \in past.kept, q \notin past.taken PROVE Places(q) # {}
    <3>1. q \in db.write \/ q \in db.copy \/ q \in db.backup
      BY <2>2, <2>3 DEF LimboInv
    <3> QED
      BY <2>1, <3>1 DEF Places
  <2> QED
    BY <2>2, <2>3 DEF NeverInLimbo, HeardInv
<1> QED
  BY <1>1, ToldAlways, PTL

\* A write that the main thread is told has succeeded is stored, or a statement on
\* the backup file had failed.
THEOREM SuccessMeansStoredCorrect == Spec => []SuccessMeansStored
<1>1. ASSUME QueueInv, TablesInv PROVE SuccessMeansStored
  <2>1. ASSUME NEW q \in 1 .. Len(asked), Stores(q), answer[q] = "ok"
        PROVE  q \in past.kept \/ q \in past.fault
    <3>1. q \in Id /\ answer[q] # "open"
      BY <1>1, <2>1, InHand
    <3>2. q <= Handled
      BY <1>1, <3>1 DEF QueueInv, AnswersInv
    <3>3. Handled \in Int
      BY <1>1, Progress
    <3>4. q \in 1 .. Handled
      BY <3>2, <3>3
    <3> QED
      BY <1>1, <2>1, <3>4 DEF TablesInv, AnswerStored
  <2> QED
    BY <2>1 DEF SuccessMeansStored
<1> QED
  BY <1>1, TablesAlways, PTL

\* An answered write is in one table only, unless a statement on the backup file
\* failed or an answer got lost.
THEOREM StoredOnceCorrect == Spec => []StoredOnce
<1>1. ASSUME QueueInv, TablesInv PROVE StoredOnce
  <2>1. DOMAIN db = {"write", "copy", "backup"}
    BY <1>1 DEF QueueInv, TypeOK
  <2>2. ASSUME NEW q \in 1 .. Len(asked), Stores(q), answer[q] # "open",
               q \notin past.fault \cup past.lost
        PROVE  \A t, u \in Places(q) : t = u
    <3>1. q <= Handled
      BY <1>1, <2>2, InHand DEF QueueInv, AnswersInv
    <3>2. /\ ~(q \in db.write /\ q \in db.copy) /\ ~(q \in db.backup /\ q \in db.copy)
          /\ ~(q \in db.write /\ q \in db.backup)
      BY <1>1, <2>2, <3>1 DEF TablesInv, OnceInv
    <3> QED
      BY <2>1, <3>2 DEF Places
  <2> QED
    BY <2>2 DEF StoredOnce
<1> QED
  BY <1>1, TablesAlways, PTL

\* What the players are told of their save is true: any that is not reported as failed is
\* stored, and one that is, is not, unless the answer of the write database got lost and
\* there is no copy.
THEOREM StatusTruthfulCorrect == Spec => []StatusTruthful
<1>1. ASSUME TablesInv, ToldInv PROVE StatusTruthful
  <2>1. StatusInv /\ FirstInv
    BY <1>1 DEF TablesInv, ToldInv
  <2>2. \A q \in past.first : OpOf(q) = "save" => status[q] # "SAVE_FAILED"
    BY <2>1 DEF FirstInv
  <2> QED
    BY <2>1, <2>2 DEF StatusInv, StatusTruthful
<1> QED
  BY <1>1, ToldAlways, PTL

\* No save is loaded twice, unless it was written twice.
THEOREM LoadedOnceCorrect == Spec => []LoadedOnce
<1>1. TablesInv => LoadedOnce
  BY DEF TablesInv
<1> QED
  BY <1>1, TablesAlways, PTL

-----------------------------------------------------------------------------
(* The pool is a queue of one server *)

\* OnShutdown goes on once the worker has ended.
ClosingInv == main = "waiting" /\ ~shutdown => worker.at = "done"

\* Every query that is handled has been answered once.
AnsweredInv == Len(answered) = Handled

LEMMA HandledRange ==
    ASSUME QueueInv
    PROVE  Handled \in 0 .. MaxQueries /\ Handled <= Len(asked) /\ Len(asked) \in Nat
<1>1. /\ Handled \in Int /\ Handled <= Len(asked) /\ Len(asked) \in Nat
      /\ Len(asked) <= MaxQueries
  BY Progress, Numbers DEF QueueInv, OrderInv
<1>2. worker.jobNum \in Nat /\ (Busy => worker.jobNum > 0)
  BY Numbers DEF QueueInv, ThreadsInv
<1>3. Handled >= 0
  BY <1>2 DEF Handled
<1> QED
  BY <1>1, <1>3, DbPoolAssumption

\* Without a new answer no more queries are handled.
LEMMA HandledKept ==
    ASSUME NEW f, NEW h \in 0 .. MaxQueries, NEW k \in 0 .. MaxQueries,
           \A q \in Id : f[q] # "open" <=> q <= h,
           \A q \in Id : f[q] # "open" <=> q <= k
    PROVE  h = k
<1>1. MaxQueries \in Nat
  BY DbPoolAssumption
<1>2. CASE h < k
  <2>1. k \in Id /\ ~(k <= h) /\ k <= k
    BY <1>1, <1>2 DEF Id
  <2> QED
    BY <2>1
<1>3. CASE k < h
  <2>1. h \in Id /\ ~(h <= k) /\ h <= h
    BY <1>1, <1>3 DEF Id
  <2> QED
    BY <2>1
<1> QED
  BY <1>1, <1>2, <1>3

LEMMA ClosingStep ==
    ASSUME QueueInv, ClosingInv, [Next]_vars
    PROVE  ClosingInv'
<1>1. ASSUME UNCHANGED <<main, shutdown>>, worker.at = "done" => worker'.at = "done"
      PROVE  ClosingInv'
  BY <1>1 DEF ClosingInv
<1>2. ASSUME Room, Register PROVE ClosingInv'
  BY <1>1, <1>2, RegisterQueue, InsertEffect DEF Insert
<1>3. ASSUME Room, NEW op \in Op, Execute(op) PROVE ClosingInv'
  BY <1>1, <1>3, ExecuteQueue, InsertEffect DEF Insert
<1>4. ASSUME OnShutdown PROVE ClosingInv'
  BY <1>4 DEF OnShutdown, ClosingInv
<1>5. ASSUME ShutdownDone PROVE ClosingInv'
  BY <1>5 DEF ShutdownDone, ClosingInv
<1>6. ASSUME BackupLook \/ BackupWrite PROVE ClosingInv'
  BY <1>1, <1>6 DEF BackupLook, BackupWrite
<1>7. ASSUME WorkerTake PROVE ClosingInv'
  BY <1>7, WorkerTakeEffect DEF ClosingInv
<1>8. ASSUME WorkerTop \/ WorkerAdd \/ WorkerRead \/ WorkerWrite PROVE ClosingInv'
  BY <1>1, <1>8 DEF WorkerTop, WorkerAdd, WorkerRead, WorkerWrite
<1>9. ASSUME WorkerTidy \/ WorkerDrop \/ WorkerLoadBackup \/ WorkerComplete PROVE ClosingInv'
  BY <1>1, <1>9 DEF WorkerTidy, WorkerDrop, WorkerLoadBackup, WorkerComplete
<1>10. ASSUME UNCHANGED vars PROVE ClosingInv'
  BY <1>1, <1>10 DEF vars
<1> DEFINE Goal == ClosingInv'
<1> HIDE DEF Goal
<1> QED
  BY <1>2, <1>3, <1>4, <1>5, <1>6, <1>7, <1>8, <1>9, <1>10 DEF Next

LEMMA ServiceStep ==
    ASSUME QueueInv, QueueInv', AnsweredInv, ClosingInv, [Next]_vars
    PROVE  /\ AnsweredInv'
           /\ \/ /\ Len(answered) < Len(asked)
                 /\ answered' = Append(answered, Len(answered) + 1)
                 /\ asked' = asked /\ (main' = "stopped") = (main = "stopped")
              \/ /\ Len(answered) = Len(asked) /\ main' = "stopped"
                 /\ UNCHANGED <<asked, answered>>
              \/ /\ main # "stopped" /\ main' # "stopped"
                 /\ (\E q \in Query : asked' = Append(asked, q)) /\ answered' = answered
              \/ /\ UNCHANGED <<asked, answered>> /\ (main' = "stopped") = (main = "stopped")
<1> DEFINE Answers == /\ Len(answered) < Len(asked)
                      /\ answered' = Append(answered, Len(answered) + 1)
                      /\ asked' = asked /\ (main' = "stopped") = (main = "stopped")
           Closes == Len(answered) = Len(asked) /\ main' = "stopped" /\ UNCHANGED <<asked, answered>>
           Asks == /\ main # "stopped" /\ main' # "stopped"
                   /\ (\E q \in Query : asked' = Append(asked, q)) /\ answered' = answered
           Stutters == UNCHANGED <<asked, answered>> /\ (main' = "stopped") = (main = "stopped")
<1>1. /\ Handled \in 0 .. MaxQueries /\ Handled <= Len(asked) /\ Len(asked) \in Nat
      /\ Len(answered) = Handled /\ answered \in Seq(Id)
  BY HandledRange DEF AnsweredInv, QueueInv, TypeOK
<1>2. ASSUME UNCHANGED <<answer, answered>> PROVE AnsweredInv'
  <2>1. Handled' \in 0 .. MaxQueries
    <3>1. /\ worker'.jobNum \in Nat /\ backup'.jobNum \in Nat /\ asked' \in Seq(Query)
          /\ worker'.jobNum <= backup'.jobNum /\ backup'.jobNum <= Len(asked')
          /\ Len(asked') <= MaxQueries
          /\ Busy' => worker'.jobNum > 0
      BY DEF QueueInv, TypeOK, OrderInv, ThreadsInv
    <3>2. Len(asked') \in Nat
      BY <3>1, LenProperties
    <3>3. MaxQueries \in Nat
      BY DbPoolAssumption
    <3> QED
      BY <3>1, <3>2, <3>3 DEF Handled
  <2>2. /\ \A q \in Id : answer[q] # "open" <=> q <= Handled
        /\ \A q \in Id : answer[q] # "open" <=> q <= Handled'
    BY <1>2 DEF QueueInv, AnswersInv
  <2>3. Handled' = Handled
    BY <1>1, <2>1, <2>2, HandledKept
  <2> QED
    BY <1>1, <1>2, <2>3 DEF AnsweredInv
<1>3. ASSUME Room, NEW q \in Query, Insert(q) PROVE Asks /\ AnsweredInv'
  <2>1. UNCHANGED <<answer, answered>> /\ main = "running" /\ main' = main
    BY <1>3, InsertEffect
  <2>2. asked' = Append(asked, q)
    BY <1>3 DEF Insert
  <2> QED
    BY <1>2, <2>1, <2>2
<1>4. ASSUME ShutdownDone PROVE Closes /\ AnsweredInv'
  <2>1. /\ main = "waiting" /\ ~shutdown /\ main' = "stopped"
        /\ UNCHANGED <<asked, worker, answer, answered>>
    BY <1>4 DEF ShutdownDone, Finished, queue, results
  <2>2. worker.at = "done" /\ worker.jobNum = Len(asked)
    BY <2>1 DEF ClosingInv, QueueInv, ThreadsInv
  <2>3. Handled = Len(asked)
    BY <2>2 DEF Handled, Busy
  <2> QED
    BY <1>1, <1>2, <2>1, <2>3
<1>5. ASSUME WorkerComplete PROVE Answers /\ AnsweredInv'
  <2>1. /\ Busy /\ worker'.at = "top" /\ worker'.jobNum = worker.jobNum
        /\ worker.query = worker.jobNum /\ worker.query \in Id
        /\ asked' = asked /\ main' = main /\ answered' = Append(answered, worker.query)
    BY <1>5, WorkerCompleteEffect
  <2>2. Handled = worker.jobNum - 1 /\ Handled' = worker.jobNum
    BY <2>1 DEF Handled, Busy
  <2>3. worker.jobNum \in Int /\ worker.jobNum <= Len(asked)
    <3>1. /\ worker.jobNum \in Int /\ backup.jobNum \in Int /\ Len(asked) \in Int
          /\ worker.jobNum <= backup.jobNum /\ backup.jobNum <= Len(asked)
      BY Progress
    <3> QED
      BY <3>1
  <2>4. worker.query = Len(answered) + 1 /\ Len(answered) < Len(asked)
    BY <1>1, <2>1, <2>2, <2>3
  <2>5. Len(answered') = Len(answered) + 1
    BY <1>1, <2>1, AppendProperties
  <2>6. AnsweredInv'
    BY <2>1, <2>2, <2>4, <2>5 DEF AnsweredInv
  <2> QED
    BY <2>1, <2>4, <2>6
<1>6. ASSUME UNCHANGED <<asked, answer, answered>>, (main' = "stopped") = (main = "stopped")
      PROVE  Stutters /\ AnsweredInv'
  BY <1>2, <1>6
<1>7. OnShutdown => UNCHANGED <<asked, answer, answered>> /\ main = "running" /\ main' = "waiting"
  BY DEF OnShutdown, results
<1>8. BackupLook \/ BackupWrite => UNCHANGED <<asked, answer, answered, main>>
  BY BackupLookEffect, BackupWriteEffect
<1>9. WorkerTop \/ WorkerTake \/ WorkerAdd \/ WorkerRead =>
         UNCHANGED <<asked, answer, answered, main>>
  BY WorkerTopEffect, WorkerTakeEffect, WorkerAddEffect, WorkerReadEffect
<1>10. WorkerWrite \/ WorkerTidy \/ WorkerDrop \/ WorkerLoadBackup =>
          UNCHANGED <<asked, answer, answered, main>>
  BY DEF WorkerWrite, WorkerTidy, WorkerDrop, WorkerLoadBackup, queue, results
<1>11. UNCHANGED vars => UNCHANGED <<asked, answer, answered, main>>
  BY DEF vars, queue, results
<1>12. ASSUME Room, Register PROVE Asks /\ AnsweredInv'
  BY <1>3, <1>12, RegisterQueue
<1>13. ASSUME Room, NEW op \in Op, Execute(op) PROVE Asks /\ AnsweredInv'
  BY <1>3, <1>13, ExecuteQueue
<1>14. ASSUME OnShutdown PROVE Stutters /\ AnsweredInv'
  BY <1>6, <1>7, <1>14
<1>15. ASSUME \/ BackupLook \/ BackupWrite
              \/ WorkerTop \/ WorkerTake \/ WorkerAdd \/ WorkerRead
              \/ WorkerWrite \/ WorkerTidy \/ WorkerDrop \/ WorkerLoadBackup
              \/ UNCHANGED vars
       PROVE  Stutters /\ AnsweredInv'
  BY <1>6, <1>8, <1>9, <1>10, <1>11, <1>15
<1> DEFINE Goal == AnsweredInv' /\ (Answers \/ Closes \/ Asks \/ Stutters)
<1>16. Goal
  <2> HIDE DEF Answers, Closes, Asks, Stutters
  <2>1. (Answers \/ Closes \/ Asks \/ Stutters) /\ AnsweredInv' => Goal
    OBVIOUS
  <2> HIDE DEF Goal
  <2> QED
    BY <1>4, <1>5, <1>12, <1>13, <1>14, <1>15, <2>1 DEF Next
<1> QED
  BY <1>16

\* What is asked of the pool is answered one at a time, in order, each query once,
\* and OnShutdown returns when all of it is.
THEOREM ServiceImplemented == Spec => ImplementsService
<1>1. Init => Service!Init /\ ClosingInv /\ AnsweredInv
  BY DEF Init, Service!Init, ClosingInv, AnsweredInv, Handled, Busy
<1>2. QueueInv /\ ClosingInv /\ [Next]_vars => ClosingInv'
  BY ClosingStep
<1>3. QueueInv /\ QueueInv' /\ AnsweredInv /\ ClosingInv /\ [Next]_vars =>
         AnsweredInv' /\ [Service!Next]_<<asked, answered, main = "stopped">>
  BY ServiceStep DEF Service!Next, Service!Answer, Service!Close, Service!Ask
<1> QED
  BY <1>1, <1>2, <1>3, QueueAlways, PTL DEF Spec, ImplementsService, Service!Spec

=============================================================================
