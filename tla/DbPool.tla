------------------------------- MODULE DbPool -------------------------------
(***************************************************************************)
(* CDbConnectionPool (engine/server/databases/connection_pool.cpp) with    *)
(* the write functions of CScoreWorker (game/server/scoreworker.cpp): the  *)
(* main thread puts queries into a ring of slots, the backup thread looks  *)
(* at each of them first and stores writes in the sqlite file, the worker  *)
(* thread then takes it out of its slot, executes it on the database and   *)
(* tidies up in the sqlite file.  Every SQL statement can fail.            *)
(*                                                                         *)
(* Queries are numbered as they are asked.  A rank or a save is the number *)
(* of the query that writes it; saves are made under the generated code.   *)
(***************************************************************************)
EXTENDS Naturals, Sequences, FiniteSets

CONSTANTS
    Slots,     \* std::size(m_aQueries)
    Setup,     \* the possible sequences of databases registered at the start
    Op,        \* bound: what is asked after that
    MaxQueries \* bound: how many queries are asked

ASSUME DbPoolAssumption ==
    /\ Slots \in Nat /\ Slots > 1
    /\ Setup \subseteq Seq({"addRead", "addWrite", "addBackup"})
    /\ Op \subseteq {"read", "rank", "save", "load"}
    /\ MaxQueries \in Nat

VARIABLES
    setup,     \* the databases of this server
    asked,     \* history: the queries, in the order they were asked
    slots,     \* m_aQueries: the number of a query, or 0 for nullptr
    insertIdx, \* m_InsertIdx
    numBackup, \* m_NumBackup
    numWorker, \* m_NumWorker
    shutdown,  \* m_Shutdown of CSharedData
    main,      \* where the main thread is
    backup,    \* CBackup::ProcessQueries and its m_pWriteBackup
    worker,    \* CWorker::ProcessQueries, its connections and FailMode
    db,        \* the tables
    status,    \* m_Status of the result of each query
    answer,    \* m_Completed and m_Success of each result
    answered,  \* history: the queries, in the order their results were completed
    past       \* history: what has been stored, taken out by a load, gone wrong

queue == <<asked, slots, insertIdx, numBackup>>
tables == <<db, past>>
results == <<answer, answered>>
vars == <<setup, queue, numWorker, shutdown, main, backup, worker, tables, status, results>>

Id == 1 .. MaxQueries

Query == [op : {"addRead", "addWrite", "addBackup", "read", "rank", "save", "load"}, save : 0 .. MaxQueries]

Status == {"none", "SAVE_FAILED", "SAVE_FALLBACKFILE", "SAVE_SUCCESS", "LOAD_FAILED", "LOAD_SUCCESS"}

TypeOK ==
    /\ setup \in Setup
    /\ asked \in Seq(Query)
    /\ slots \in [0 .. Slots - 1 -> Nat]
    /\ insertIdx \in 0 .. Slots - 1
    /\ numBackup \in Nat /\ numWorker \in Nat
    /\ shutdown \in BOOLEAN
    /\ main \in {"running", "waiting", "stopped"}
    /\ backup \in [at : {"wait", "write", "done"}, jobNum : Nat, query : Nat, db : BOOLEAN]
    /\ worker \in [at : {"top", "wait", "execute", "tidy", "drop", "complete", "done"},
                   jobNum : Nat, query : Nat, failMode : BOOLEAN, success : BOOLEAN,
                   reads : Nat, write : BOOLEAN, backup : BOOLEAN]
    /\ db \in [write : SUBSET Id, copy : SUBSET Id, backup : SUBSET Id]
    /\ status \in [Id -> Status]
    /\ answer \in [Id -> {"open", "failed", "ok"}] /\ answered \in Seq(Id)
    /\ past \in [kept : SUBSET Id, taken : SUBSET Id, unheard : SUBSET Id,
                 lost : SUBSET Id, fault : SUBSET Id, first : SUBSET Id]

\* db.write is the table of the WRITE database; db.copy the _backup table and
\* db.backup the normal one of the WRITE_BACKUP file.
Init ==
    /\ setup \in Setup
    /\ asked = <<>>
    /\ slots = [i \in 0 .. Slots - 1 |-> 0]
    /\ insertIdx = 0
    /\ numBackup = 0 /\ numWorker = 0
    /\ shutdown = FALSE /\ main = "running"
    /\ backup = [at |-> "wait", jobNum |-> 0, query |-> 0, db |-> FALSE]
    /\ worker = [at |-> "top", jobNum |-> 0, query |-> 0, failMode |-> FALSE, success |-> FALSE,
                 reads |-> 0, write |-> FALSE, backup |-> FALSE]
    /\ db = [write |-> {}, copy |-> {}, backup |-> {}]
    /\ status = [q \in Id |-> "none"]
    /\ answer = [q \in Id |-> "open"] /\ answered = <<>>
    /\ past = [kept |-> {}, taken |-> {}, unheard |-> {}, lost |-> {}, fault |-> {}, first |-> {}]

OpOf(q) == asked[q].op

Stores(q) == OpOf(q) \in {"rank", "save"}

\* The places q is stored in.
Places(q) == {t \in DOMAIN db : q \in db[t]}

-----------------------------------------------------------------------------
(* The main thread *)

\* Queries that are still in their slots.
Outstanding == Len(asked) - worker.jobNum

\* The status a fresh CScoreSaveResult or the caller gives the result.
Fresh(op) == CASE op = "save" -> "SAVE_FAILED"
               [] op = "load" -> "LOAD_FAILED"
               [] OTHER -> "none"

\* m_aQueries[m_InsertIdx++] = query; m_NumBackup.Signal(), whatever is in the slot.
Insert(q) ==
    /\ main = "running" /\ Len(asked) < MaxQueries
    /\ asked' = Append(asked, q)
    /\ slots' = [slots EXCEPT ![insertIdx] = Len(asked) + 1]
    /\ insertIdx' = (insertIdx + 1) % Slots
    /\ numBackup' = numBackup + 1
    /\ status' = [status EXCEPT ![Len(asked) + 1] = Fresh(q.op)]
    /\ UNCHANGED <<setup, numWorker, shutdown, main, backup, worker, tables, results>>

\* RegisterSqliteDatabase and RegisterMysqlDatabase, from the configuration.
Register ==
    /\ Len(asked) < Len(setup)
    /\ Insert([op |-> setup[Len(asked) + 1], save |-> 0])

\* Execute and ExecuteWrite.  A save is loaded by the code its players were told.
Execute(op) ==
    /\ Len(asked) >= Len(setup)
    /\ \E s \in 0 .. Len(asked) :
          /\ IF op = "load" THEN s > 0 /\ OpOf(s) = "save" ELSE s = 0
          /\ Insert([op |-> op, save |-> s])

\* OnShutdown, up to its loop.
OnShutdown ==
    /\ main = "running"
    /\ main' = "waiting"
    /\ shutdown' = TRUE
    /\ numBackup' = numBackup + 1
    /\ UNCHANGED <<setup, asked, slots, insertIdx, numWorker, backup, worker, tables, status, results>>

\* Mutant: OnShutdown does not wait.
FinishedAtOnce == TRUE

\* The loop of OnShutdown finds m_Shutdown reset.
Finished == ~shutdown

ShutdownDone ==
    /\ main = "waiting" /\ Finished
    /\ main' = "stopped"
    /\ UNCHANGED <<setup, queue, numWorker, shutdown, backup, worker, tables, status, results>>

-----------------------------------------------------------------------------
(* The backup thread *)

\* Mutants: the nullptr is not passed on; the slot is left full; the worker is
\* woken for a write before it is stored.
KeptToItself(n) == n
LeftFull(i) == slots
WokenAtOnce(n) == n + 1

\* sphore_wait returns; the signal for the nullptr; std::move out of the slot;
\* the signal for a write comes after it.
Signalled(n) == n > 0
PassedOn(n) == n + 1
MovedOut(i) == [slots EXCEPT ![i] = 0]
Withheld(n) == n

\* NumBackup.Wait, then a look at the slot, the query stays in it.  Anything
\* but a write with a backup database goes on to the worker at once.
BackupLook ==
    LET q == slots[backup.jobNum % Slots]
    IN  /\ backup.at = "wait" /\ Signalled(numBackup)
        /\ numBackup' = numBackup - 1
        /\ \/ /\ q = 0
              /\ backup' = [backup EXCEPT !.at = "done"]
              /\ numWorker' = PassedOn(numWorker)
           \/ /\ q # 0 /\ backup.db /\ OpOf(q) \in {"rank", "save", "load"}
              /\ backup' = [backup EXCEPT !.at = "write", !.query = q]
              /\ numWorker' = Withheld(numWorker)
           \/ /\ q # 0 /\ ~(backup.db /\ OpOf(q) \in {"rank", "save", "load"})
              /\ backup' = [backup EXCEPT !.jobNum = @ + 1, !.db = @ \/ OpOf(q) = "addBackup"]
              /\ numWorker' = numWorker + 1
        /\ UNCHANGED <<setup, asked, slots, insertIdx, shutdown, main, worker, tables, status, results>>

\* Write::BACKUP_FIRST inserts into the _backup table; LoadTeam does nothing.
\* That the insert failed is logged and nothing else.
BackupWrite ==
    LET q == backup.query
    IN  /\ backup.at = "write"
        /\ \/ /\ Stores(q)
              /\ db' = [db EXCEPT !.copy = @ \cup {q}]
              /\ status' = [status EXCEPT ![q] = IF OpOf(q) = "save" THEN "SAVE_FALLBACKFILE" ELSE @]
              /\ past' = [past EXCEPT !.kept = @ \cup {q}, !.first = @ \cup {q}]
           \/ /\ Stores(q)
              /\ past' = [past EXCEPT !.fault = @ \cup {q}]
              /\ UNCHANGED <<db, status>>
           \/ ~Stores(q) /\ UNCHANGED <<tables, status>>
        /\ backup' = [backup EXCEPT !.at = "wait", !.jobNum = @ + 1]
        /\ numWorker' = numWorker + 1
        /\ UNCHANGED <<setup, queue, shutdown, main, worker, results>>

-----------------------------------------------------------------------------
(* The worker thread *)

\* Mutants: the copy stays; it goes before it is moved; a save that is loaded
\* stays; the status is set before the insert; an error counts as success.
CopyStays(q) == db
CopyGone(q) == [db EXCEPT !.copy = @ \ {q}]
SaveStays(t, s) == db
SuccessWhateverHappens(q, o) == "SAVE_SUCCESS"
ErrorsToo == {"ok", "refused", "error"}

\* DELETE of the copy; INSERT ... SELECT of the copy into the normal table;
\* DELETE of a save from the table t.
Dropped(q) == [db EXCEPT !.copy = @ \ {q}]
Moved(q) == [db EXCEPT !.backup = @ \cup (db.copy \cap {q})]
Taken(t, s) == [db EXCEPT ![t] = @ \ {s}]

\* m_Status after SaveTeam, after LoadTeam.
Saved(q, o) == IF o = "ok" THEN "SAVE_SUCCESS" ELSE status[q]

\* The outcomes for which ExecSqlFunc returns true.
Succeeded == {"ok", "refused"}

\* The top of the loop: fail mode ends when nothing is waiting.
WorkerTop ==
    /\ worker.at = "top"
    /\ worker' = [worker EXCEPT !.at = "wait", !.failMode = @ /\ numWorker # 0]
    /\ UNCHANGED <<setup, queue, numWorker, shutdown, main, backup, tables, status, results>>

\* NumWorker.Wait, then the query is moved out of its slot; nullptr ends the thread.
WorkerTake ==
    LET q == slots[worker.jobNum % Slots]
    IN  /\ worker.at = "wait" /\ Signalled(numWorker)
        /\ numWorker' = numWorker - 1
        /\ slots' = MovedOut(worker.jobNum % Slots)
        /\ \/ /\ q = 0
              /\ worker' = [worker EXCEPT !.at = "done"]
              /\ shutdown' = FALSE
           \/ /\ q # 0
              /\ worker' = [worker EXCEPT !.at = "execute", !.jobNum = @ + 1, !.query = q]
              /\ UNCHANGED shutdown
        /\ UNCHANGED <<setup, asked, insertIdx, numBackup, main, backup, tables, status, results>>

\* ADD_MYSQL and ADD_SQLITE
WorkerAdd ==
    LET op == OpOf(worker.query)
    IN  /\ worker.at = "execute" /\ op \in {"addRead", "addWrite", "addBackup"}
        /\ worker' = [worker EXCEPT !.at = "complete", !.success = TRUE,
                                    !.reads = IF op = "addRead" THEN @ + 1 ELSE @,
                                    !.write = @ \/ op = "addWrite",
                                    !.backup = @ \/ op = "addBackup"]
        /\ UNCHANGED <<setup, queue, numWorker, shutdown, main, backup, tables, status, results>>

\* READ_ACCESS tries the databases in turn, none in fail mode or at shutdown.
WorkerRead ==
    /\ worker.at = "execute" /\ OpOf(worker.query) = "read"
    /\ \E ok \in BOOLEAN :
          /\ ok => worker.reads > 0 /\ ~shutdown /\ ~worker.failMode
          /\ worker' = [worker EXCEPT !.at = "complete", !.success = ok, !.failMode = @ \/ ~ok]
    /\ UNCHANGED <<setup, queue, numWorker, shutdown, main, backup, tables, status, results>>

\* What can become of a write function on the WRITE database: an error, an
\* error after the statement had its effect (the answer got lost), success, and
\* for a load that the save does not suit the team.
Outcomes(op) == {"error", "lost", "ok"} \cup (IF op = "load" THEN {"refused"} ELSE {})

\* SaveScore and SaveTeam with Write::NORMAL, outcome o.
Store(q, o) ==
    /\ db' = IF o = "error" THEN db ELSE [db EXCEPT !.write = @ \cup {q}]
    /\ status' = [status EXCEPT ![q] = IF OpOf(q) = "save" THEN Saved(q, o) ELSE @]
    /\ past' = [past EXCEPT !.kept = IF o = "error" THEN @ ELSE @ \cup {q},
                            !.lost = IF o = "lost" THEN @ \cup {q} ELSE @]

\* LoadTeam on the table t, outcome o: the save is read and deleted.  When the answer to
\* the DELETE gets lost the save is gone and the team that asked for it never hears of it.
Load(q, t, o) ==
    LET s == asked[q].save
        found == s \in db[t] /\ o \in {"ok", "lost"}
    IN  /\ db' = IF found THEN Taken(t, s) ELSE db
        /\ status' = [status EXCEPT ![q] =
                         IF found /\ o = "ok" THEN "LOAD_SUCCESS" ELSE "LOAD_FAILED"]
        /\ past' = [past EXCEPT !.taken = IF found THEN @ \cup {s} ELSE @,
                                !.unheard = IF found /\ o = "lost" THEN @ \cup {s} ELSE @]

\* WRITE_ACCESS on the WRITE database; with a backup database it is skipped in
\* fail mode and at shutdown.
WorkerWrite ==
    LET q == worker.query
        skip == worker.backup /\ (shutdown \/ worker.failMode)
    IN  /\ worker.at = "execute" /\ OpOf(q) \in {"rank", "save", "load"}
        /\ \E o \in IF skip \/ ~worker.write THEN {"error"} ELSE Outcomes(OpOf(q)) :
              LET ok == o \in Succeeded
              IN  /\ IF skip \/ ~worker.write THEN UNCHANGED <<tables, status>>
                     ELSE IF Stores(q) THEN Store(q, o)
                     ELSE Load(q, "write", o)
                  /\ worker' = [worker EXCEPT !.at = IF worker.backup THEN "tidy" ELSE "complete",
                                              !.success = ok, !.failMode = @ \/ ~ok]
        /\ UNCHANGED <<setup, queue, numWorker, shutdown, main, backup, results>>

\* Write::NORMAL_SUCCEEDED on the backup database deletes the copy;
\* NORMAL_FAILED first inserts it into the normal table, then deletes it.
WorkerTidy ==
    LET q == worker.query
    IN  /\ worker.at = "tidy" /\ Stores(q)
        /\ \/ /\ db' = IF worker.success THEN Dropped(q) ELSE Moved(q)
              /\ worker' = [worker EXCEPT !.at = IF worker.success THEN "complete" ELSE "drop"]
              /\ UNCHANGED past
           \/ /\ worker' = [worker EXCEPT !.at = "complete"]
              /\ past' = [past EXCEPT !.fault = @ \cup {q}]
              /\ UNCHANGED db
        /\ UNCHANGED <<setup, queue, numWorker, shutdown, main, backup, status, results>>

\* The second statement of NORMAL_FAILED.
WorkerDrop ==
    LET q == worker.query
    IN  /\ worker.at = "drop"
        /\ \/ /\ db' = Dropped(q)
              /\ worker' = [worker EXCEPT !.at = "complete", !.success = TRUE]
              /\ UNCHANGED past
           \/ /\ worker' = [worker EXCEPT !.at = "complete"]
              /\ past' = [past EXCEPT !.fault = @ \cup {q}]
              /\ UNCHANGED db
        /\ UNCHANGED <<setup, queue, numWorker, shutdown, main, backup, status, results>>

\* LoadTeam with NORMAL_FAILED looks for the save in the backup database.
WorkerLoadBackup ==
    LET q == worker.query
    IN  /\ worker.at = "tidy" /\ ~Stores(q)
        /\ \/ /\ worker.success
              /\ worker' = [worker EXCEPT !.at = "complete"]
              /\ UNCHANGED <<tables, status>>
           \/ /\ ~worker.success
              /\ \E o \in {"error", "ok", "refused"} :
                    /\ Load(q, "backup", o)
                    /\ worker' = [worker EXCEPT !.at = "complete", !.success = o # "error"]
        /\ UNCHANGED <<setup, queue, numWorker, shutdown, main, backup, results>>

\* The result is filled in and handed to the main thread.
WorkerComplete ==
    /\ worker.at = "complete"
    /\ answer' = [answer EXCEPT ![worker.query] = IF worker.success THEN "ok" ELSE "failed"]
    /\ answered' = Append(answered, worker.query)
    /\ worker' = [worker EXCEPT !.at = "top"]
    /\ UNCHANGED <<setup, queue, numWorker, shutdown, main, backup, tables, status>>

\* Assumption on the game server, which no line of the pool checks: it only asks while a
\* slot is left over for the nullptr that OnShutdown relies on.
Room == Outstanding < Slots - 1

Next ==
    \/ Room /\ Register
    \/ Room /\ \E op \in Op : Execute(op)
    \/ OnShutdown \/ ShutdownDone
    \/ BackupLook \/ BackupWrite
    \/ WorkerTop \/ WorkerTake \/ WorkerAdd \/ WorkerRead \/ WorkerWrite
    \/ WorkerTidy \/ WorkerDrop \/ WorkerLoadBackup \/ WorkerComplete

Spec == Init /\ [][Next]_vars

\* The operating system runs every thread: a thread that can go on does so.
Fairness ==
    /\ WF_vars(BackupLook) /\ WF_vars(BackupWrite)
    /\ WF_vars(\/ WorkerTop \/ WorkerTake \/ WorkerAdd \/ WorkerRead \/ WorkerWrite
               \/ WorkerTidy \/ WorkerDrop \/ WorkerLoadBackup \/ WorkerComplete)
    /\ WF_vars(ShutdownDone)

FairSpec == Spec /\ Fairness

-----------------------------------------------------------------------------
(* What the pool promises *)

\* The query whose number i stands for the slot it was put into.
InSlot(i) == {q \in worker.jobNum + 1 .. Len(asked) : (q - 1) % Slots = i}

\* The queue of three threads without a lock: a slot holds the query that was
\* put there last until the worker takes it, so the backup thread never looks
\* at one that is gone, the worker never overtakes it, and the slot OnShutdown
\* ends the queue with is empty.
Pipeline ==
    /\ worker.jobNum <= backup.jobNum /\ backup.jobNum <= Len(asked)
    /\ Outstanding < Slots
    /\ insertIdx = Len(asked) % Slots
    /\ \A i \in DOMAIN slots : IF InSlot(i) = {} THEN slots[i] = 0 ELSE slots[i] \in InSlot(i)
    /\ backup.at = "write" => backup.query = slots[backup.jobNum % Slots] /\ backup.query # 0
    /\ numBackup = Len(asked) - backup.jobNum
          + (IF main # "running" /\ backup.at # "done" THEN 1 ELSE 0)
          - (IF backup.at = "write" THEN 1 ELSE 0)
    /\ numWorker = backup.jobNum - worker.jobNum
          + (IF backup.at = "done" /\ worker.at # "done" THEN 1 ELSE 0)

\* A rank or save that BACKUP_FIRST has stored, or the write database, is from
\* then on in one of the tables at every moment, whatever statement fails and
\* whenever the process dies: it goes only when a team loads its save and is told
\* so.  There is one exception, which is the code's: when the answer to the DELETE
\* of LoadTeam gets lost, the save is gone from the write database and the team is
\* told LOAD_FAILED (scoreworker.cpp:1876), so that nobody has it.
NeverInLimbo ==
    \A q \in past.kept :
        \/ Places(q) # {}
        \/ \E p \in 1 .. Len(asked) : asked[p].save = q /\ status[p] = "LOAD_SUCCESS"
        \/ q \in past.unheard

\* A write reported as successful is stored.  (If its first insert into the
\* backup database failed, NORMAL_FAILED moves nothing and still succeeds.)
SuccessMeansStored ==
    \A q \in 1 .. Len(asked) :
        Stores(q) /\ answer[q] = "ok" =>
            q \in past.kept \/ q \in past.fault

\* A write that is finished is in one table only, unless a statement on the
\* backup file failed or the answer of the write database got lost.
StoredOnce ==
    \A q \in 1 .. Len(asked) :
        Stores(q) /\ answer[q] # "open" /\ q \notin past.fault \cup past.lost =>
            \A t, u \in Places(q) : t = u

\* What the game server does with a team save: SAVE_FAILED gives the team back
\* to its players, so that the save should not exist; otherwise it must.  There is
\* one exception, which is the code's: the answer of the write database got lost and
\* there is no copy (no backup database, or its first insert failed).  Then the team
\* is given back although its save exists.  A save that has a copy is never reported
\* as failed, whatever becomes of it in the write database.
StatusTruthful ==
    \A q \in 1 .. Len(asked) :
        OpOf(q) = "save" /\ answer[q] # "open" =>
            IF status[q] = "SAVE_FAILED"
            THEN q \notin past.kept \/ (q \in past.lost /\ q \notin past.first)
            ELSE q \in past.kept

\* No save is loaded by two teams, unless it was written twice because an
\* answer got lost.
LoadedOnce ==
    \A p, q \in 1 .. Len(asked) :
        /\ status[p] = "LOAD_SUCCESS" /\ status[q] = "LOAD_SUCCESS"
        /\ asked[p].save = asked[q].save
        /\ asked[p].save \notin past.lost
        => p = q

\* Once m_Completed is set the main thread reads the result without a lock:
\* no thread writes to it any more.
AnswerFinal ==
    [][\A q \in Id : answer[q] # "open" =>
          answer'[q] = answer[q] /\ status'[q] = status[q]]_vars

\* "work through all database jobs after OnShutdown is called", in order, each
\* once: the pool is a queue of one server.
Service == INSTANCE QueryService WITH closed <- main = "stopped"

ImplementsService == Service!Spec

\* OnShutdown returns.
ShutdownReturns == main = "waiting" ~> main = "stopped"

=============================================================================
