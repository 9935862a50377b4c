# A TLA+ model of the DDNet engine under Pasta Client

Pasta Client is a DDNet client and server (`src/src/engine`, `src/src/game`)
with client add-ons on top.  This directory keeps specifications of the parts
of that program whose correctness depends on the order in which things happen:
the network session that everything else runs over, how a client gets into the
game and changes maps, its snapshots, the pool of worker threads, and the database
pool that keeps ranks and saved teams.  Paths are relative
to the repository; `network_conn.cpp` and its neighbours are in
`src/engine/shared/`.

Contents: inventory, the modules and how they correspond to the code, what
each run checks, what is proved, disagreements found, what is not modelled, plan.

## 1. Inventory

### Components, their state and how they interact

| Component | State | Operations | Talks to |
|---|---|---|---|
| **Connection** `CNetConnection` (`network_conn.cpp`), header and chunk codec, unpacker (`network.cpp`) | state, sequence, ack, last ack of the peer, resend buffer, packet under construction, two timeout flags | Connect, Connect7, DirectInit, QueueChunk, Flush, Resend, Feed, Update, Disconnect, ResumeConnection | its peer, over UDP; owned by a slot of the server or by the client |
| **Ring buffer** `CRingBufferBase` (`ringbuffer.cpp`) | blocks carved out of one piece of memory, two pointers | Allocate, PopFirst, First/Next, Last/Prev, Clear | holds the resend buffer; console, chat, graphs |
| **Server network** `CNetServer` (`network_server.cpp`) | slots (a connection each), per-IP limit, rate of new connections, token seed | Recv (handshakes, sessions), Send, Update, Drop, ResumeOldConnection | connections below; `CServer` above by callbacks (new, rejoin, delete client) |
| **Client network** `CNetClient` (`network_client.cpp`) | one connection, stun | Connect, Disconnect, Recv, Send, Update | connection, `CClient` |
| **Server clients** `CServer` (`engine/server/server.cpp`) | `m_aClients[i].m_State`, map download cursor, login | callbacks, `ProcessClientPacket`, SetTimedOut, map change | network server, game server |
| **Snapshots** `CSnapshotStorage`, `CSnapshotDelta`, `CSnapIdPool`, `CServer::DoSnapshot`, `CClient::ProcessServerPacket` | stored snapshots of both sides, last acked tick, rate, parts received, snapshots on the screen, free and timed ids | DoSnapshot, receive a part, ack in NETMSG_INPUT, purge, resync | non-vital chunks |
| **Map download** `CServer::SendMapData`, `CClient` | chunks asked for, chunks sent | request, data, finish | vital chunks |
| **Jobs** `CJobPool` (`jobs.cpp`) | queue, running list, shutdown flag, state of each job | Add, worker loop, Abort, Shutdown | all of the engine, threads |
| **Database pool** `CDbConnectionPool` (`engine/server/databases/connection_pool.cpp`), write functions of `CScoreWorker` (`scoreworker.cpp`) | ring of 512 queries, two semaphores, fail mode, shutdown flag, tables | Execute, ExecuteWrite, backup thread, worker thread, OnShutdown | game server, threads, mysql and sqlite |
| **Timeout codes** `/timeout`, `CServer::SetTimedOut` (`ddracechat.cpp`, `server.cpp`) | timeout code of each player | ConTimeout, ResumeConnection | server network |
| Bans, console, econ, fifo, http, register, storage, demo, datafile, huffman | | | |
| Game server, game client, prediction, editor, rendering, sound, add-ons (`components/pasta`, `components/tclient`) | | | |

The main thread of each program is a loop: receive every datagram and hand its
chunks to the handlers one at a time, then update the connections, then tick or
draw.  Handlers run inside `Recv`, so a handler may close or replace the
connection whose packet is still being unpacked.  The only true threads are in
jobs, database pool, http, sound and graphics.

### What is hard

* **Datagrams are lost, duplicated, reordered and late.**  Sequence numbers have
  ten bits; a resend, a duplicate or an ack can arrive when the window has moved.
* **Two programs disagree about a session.**  The server resets a live session on
  an `ACCEPT` with the right token (the token depends on the address only, so a
  late `ACCEPT` has it too); an `ACCEPT` or a `CLOSE` may be lost.
* **A slot changes its owner.**  A dead connection with timeout protection is kept
  (`ERROR`, but not dropped); a newcomer with the same code takes it over.  The
  newcomer's connection is copied field by field into the old slot.
* **Partial failure.**  The resend buffer is full; a chunk's sequence number has
  been taken although the chunk was refused.  A rank is inserted, moved and deleted in
  two databases; each statement may fail, and the answer of one that has worked may be lost.
* **Stale messages.**  Neither READY nor a request for map data says which map it is for;
  an ack of a snapshot may be overtaken by a later one.
* **Threads.**  A job is aborted, or the pool shut down, while a worker is anywhere
  between taking a job and finishing it; signals and jobs are counted apart; queues
  wrap around.

### What makes each component correct

* Connection: vital chunks arrive exactly once and in order; nothing is forgotten
  before it is acknowledged; a live session cannot lock itself out; every vital
  chunk is eventually delivered or the session ends.
* Ring buffer: a FIFO queue; iteration visits every item; a recycling buffer
  never refuses an item that fits.
* Network server and client: an address never has two live slots; the upper
  layer and the network agree on which slots are taken; a live player is never
  replaced; the limit per IP holds for live and resumable slots; a client that
  tries to connect gets an answer; half-open sessions end; slots are given back.
* Snapshots: a snapshot is put together from the parts of one tick; the client still has
  the base of a delta it accepts; a purge never frees what is on the screen, and the
  screen never goes back; an id is not given to another entity at once.
* Map download: the client enters the game with the map the server plays, and gets
  there whatever the server loads meanwhile; the number of chunks under way is bounded, since the
  resend buffer has to hold them (§5 says when it does not).
* Jobs: the list of jobs is never broken and loses none; a job is run once at most, an
  abort is not undone; every queued job ends, and shutdown returns with all of them
  ended.
* Database pool: every query is answered once and in order, also after shutdown has begun;
  a rank or save that has been stored once is in some table until somebody gets it; what is
  reported is what was stored; a save cannot be loaded twice.  Lost answers break the
  first two in the cases that §2 names.

## 2. Modules

| Module | What it models |
|---|---|
| `NetConnection` | one `CNetConnection` as a record, each method as an operator; unpacker, sequence arithmetic |
| `ReliableLink` | abstract: what a session promises, one FIFO channel in each direction |
| `NetLink` | an established session: two connections and the network between them; refines `ReliableLink` |
| `NetServer` | `CNetServer` with its slots, the clients that connect to it, `/timeout` and the takeover of slots |
| `BoundedFifo` | abstract: a queue that may refuse or recycle |
| `RingBuffer` | `CRingBufferBase`; refines `BoundedFifo` |
| `Jobs` | `CJobPool` and `IJob`: the main thread and the worker threads |
| `QueryService` | abstract: queries answered one at a time, in order |
| `DbPool` | `CDbConnectionPool`: main, backup and worker thread, and the tables that ranks and saves are in; refines `QueryService` |
| `Snapshots` | the snapshots of one client: both storages, parts, acks |
| `SnapIdPool` | `CSnapIdPool` |
| `MapChange` | a client's way into the game, the map download, map changes and rejoins in the middle of it |
| `MCNetLink`, `MCNetServer`, `MCJobs`, `MCDbPool` | constants for TLC |
| `NetConnectionProofs`, `NetLinkProofs`, `RingBufferProofs`, `NetServerProofs`, `JobsProofs`, `SnapshotsProofs`, `DbPoolProofs`, `MapChangeProofs` | proofs |

Layers: `NetLink` and `NetServer` EXTEND `NetConnection` and turn its operators
into actions.  `NetLink` takes one session and all that can happen to its
packets; `NetServer` takes many sessions, one chunk per packet, and all that can
happen to sessions.  `RingBuffer` is the memory behind `buffer` of a connection,
which the other modules see as a sequence with room for `BufCap` chunks.  `MapChange` runs on
top of the session as `ReliableLink` promises it, two reliable FIFO channels; `Snapshots` runs
beside it on non-vital chunks, that is, over a network that loses and reorders.  `Jobs` and
`DbPool` stand alone: their threads share nothing with the network.

### NetConnection

A connection is a record with the fields of the class that steer it: `state`
(`m_State`), `sequence`, `ack`, `peerAck`, `remoteClosed`, `unknownSeq`, `sixup`,
`timeoutProtected`, `timeoutSituation`, `buffer` (`m_Buffer`) and `construct`
(`m_Construct`: its chunks and its resend flag).  A method that sends yields the
new record and the set of packets.  Where one call of the code sends several
packets (a resend that overflows packets) the network sees them as a set: UDP may
reorder them anyway.

* `QueueChunk` takes the sequence number first and may fail after, as the code
  does; `Queue` is `QueueChunkEx` with its flush of a full packet, which also
  takes the resend flag with it.
* `Feed` is `Feed` for a packet from the peer's address with its token (a packet
  without the token changes nothing; `NetServer` decides who has it): the check
  of the ack, the resend the peer asked for, control messages, `AckChunks`.
* `UnpackNextChunk` is the unpacker's loop: skip, ask for a resend on a gap,
  stop at the first chunk that is delivered.
* `Update` is `Update` with the clock as an input (`Clock`): every combination of
  "timed out", "oldest chunk too old", "resend due", "idle half a second",
  "idle a second", "protection over" that makes a difference.

Abstractions: a packet holds `MaxChunks` chunks (the byte budget and the limit
of 255 chunks together), a payload is a number, stun, traffic statistics and error
texts are left out.  `PENDING` cannot be reached from an `OFFLINE` connection,
since nobody feeds one: that branch of `Feed` is dead code and left out.  The
constants `MaxSeq` and `BufCap` have the relation of the real ones: 32 KB hold at
most 455 of the smallest chunks, less than half of the 1024 sequence numbers.

### NetLink

`conn`, `inbox` (chunks of the packet being unpacked), `net` (datagrams in
flight), and the history variables `sent`, `unsaved`, `log`.  The payload of a
vital chunk is its number in the order of sending; no operator of the
connection looks at it, so the model can compare what arrives with what was sent.
Actions: `Send` (`CNetServer::Send`, `CNetClient::Send`), `Receive` and
`ReceiveNext` (`Recv` with a fresh datagram, and with chunks left), `UpdateConnection`,
`Close`, `Lose`.  A received datagram stays in flight, so it can arrive again.

`Fresh` is the one assumption about the network: a datagram is not overtaken by
more than `Lag` chunks, `Lag + BufCap < MaxSeq`.  Without it a ten-bit sequence
number cannot work at all: a datagram a whole turn old looks new.  With the real
numbers `Lag` is 568 chunks.

### NetServer

`slot`, `peer`, `token` (slots and whom they belong to), `joined` and `code` (what
`CServer` and the game know of the slot), `cl` and `round` (clients, each of which
may connect again from the same address), `toServer`, `toClient` (datagrams).  A
datagram says whether it carries the server's token for its address (`tok`) and
which client token (`own`).

Actions: `Connect`, `Say` (`/timeout` with a code), `Leave`, `UpdateClient`,
`ClientReceive`, and on the server `ReceiveNew` (`OnTokenCtrlMsg`,
`OnSixupCtrlMsg`, `TryAcceptClient`), `ReceiveInSession` (`OnConnCtrlMsg` with the reset
on `ACCEPT`, `Feed`, unpack, `/timeout`), `Resume` (`SetTimedOut` and
`ResumeOldConnection`), `Tell`, `UpdateSlot`, `Kick`.  The callbacks run inside the action
that calls them (`Emptied` is `Drop` with `DelClientCallback`).

`alias` records, for each resend entry copied by `ResumeConnection`, in whose
buffer its `m_pData` still lies; `Overwrite` lets a later allocation in that buffer
land on it, so that the model resends what the code would (§5).

### RingBuffer

Addresses in units of `sizeof(CItem)`, which `Init` and `Allocate` round to.  A block is
its size at its address; blocks tile the memory, so the linked list is the order
of addresses.  `Allocate` is the whole call: it recycles (`MakeRoom`), finds a block,
splits it (`Carve`), moves `m_pProduce`.  `PopFirst` merges with the block before
(`MergeBack`), and steps over free blocks (`SkipFree`).  `FirstItem`, `NextItem`, `PrevItem`, `LastItem` are
the four methods, `Walk` and `WalkBack` what a caller visits with them.  A loop of the code is
`Loop`: its step, which changes nothing when the loop is over, as often as there are units of
memory.  No loop needs more turns, since each turn takes away an item or a free block or
goes on to another one; that is proved too.

`call` is a history variable: the size the last call asked for, and whether it returned null.
`BoundedFifo` has it too, and `ImplementsFifo` is `[][Fifo!Next]_vars`, with the variables of the
ring as subscript and not those of the queue: an `Allocate` that refuses leaves the queue as it
is, and would otherwise pass for a stutter.  So a refusal has to be one that `BoundedFifo`
allows: the item is too large, or the buffer does not recycle.

### Jobs

The variables are the members: `shutdown`, `sem`, the linked list `first`, `last`, `next`,
`state` of each job, `running`; and where each thread is: `main` with `cur` and `prev`
(the locals of `Shutdown`), `at` and `job` for each worker.  What a thread does under one lock,
and each access to an atomic, is one action; what it does to its own variables goes with
the action before.  The loop of `Shutdown` over the queue is one action per job
(`Drain`) with `m_Lock` held, so workers go on but for `Fetch`.  A worker goes `Wait`,
`Fetch`, `Claim` (exchange to `RUNNING`), `Enter`, `Run`, `Leave`, `Finish` (exchange to `DONE`).

`Init` and `Shutdown` are called on the main thread (`jobs.h:153`, `jobs.h:160`), and so are `Add` and
`Abort` by all their callers; a job is added once, and every class of jobs decides in its
constructor whether it is abortable.  The classes that override `Abort` call the original and then
abort their download; the download is not modelled.

### DbPool

The members are variables: `slots` (`m_aQueries`), `insertIdx`, the two semaphores `numBackup`
and `numWorker`, `shutdown`; `backup` and `worker` hold where each thread is and its locals;
`db` the rows of the three tables a rank or save may be in (the WRITE database; the `_backup`
table and the normal one of the backup file); `status` and `answer` the result object of each
query.  A query, and the rank or save it stores, is its number in the order of asking.
`past` is history: what has ever been stored (`kept`), by the first insert into the backup file
(`first`), taken out by a load (`taken`), and of these what the team was told it could not load
(`unheard`); what lost its answer (`lost`) or failed on the backup file (`fault`).

The main thread: `Register`, `Execute`, `OnShutdown`, `ShutdownDone`.  The backup thread:
`BackupLook` (wait, look at the slot, pass on what is not a write), `BackupWrite` (`Write::BACKUP_FIRST`).
The worker: `WorkerTop` (leave fail mode), `WorkerTake` (move the query out of its slot), `WorkerAdd`,
`WorkerRead`, `WorkerWrite` (`Write::NORMAL`), `WorkerTidy`, `WorkerDrop`, `WorkerLoadBackup` (`NORMAL_SUCCEEDED`
and `NORMAL_FAILED` on the backup file), `WorkerComplete`.  Each SQL statement is a step of its
own and may fail; one on the WRITE database may also take effect and its answer be lost.
A statement of `LoadTeam` that reads before it deletes is one step with it: no other thread
writes that row.

`Register` and `Execute` are the code's: they compare `m_InsertIdx` with nothing and overwrite
whatever is in the slot.  That the game server asks only while a slot is left over for the `nullptr` of
`OnShutdown` is an assumption on it, `Room`, which stands in `Next`.  So everything the module
shows holds while at most 510 queries wait; that nothing in the code ensures this is a hazard
of its own, which no property covers.

`answered` is a history variable, the queries in the order in which their results were completed.
`QueryService` appends to it the number of the oldest query without an answer and nothing else, so
that an answer out of turn or a second one to the same query is no step of it.

Two properties except a case in which the code goes wrong, and say so.  When the answer to the `DELETE` of
`LoadTeam` is lost, the save is gone and the team is told `LOAD_FAILED` (`past.unheard` in
`NeverInLimbo`).  When the answer to the insert of `SaveTeam` is lost and there is no copy in the backup
file, the team is given back although its save exists (`past.lost`, without `past.first`, in
`StatusTruthful`).

### Snapshots and SnapIdPool

`server` holds the game tick and the slot's `m_Snapshots`, `m_LastAckedSnapshot`, `m_SnapRate`;
`client` the `CSnapshotStorage`, `m_aCurrentRecvTick`, `m_aAckGameTick`, the parts received, the crc
errors, the two snapshots on the screen.  A storage is the sequence of the ticks of its
holders; the content of a snapshot is its tick, and a received part remembers the tick it
was made for, so that a mixture would show.  Actions: `DoSnapshot`, `SkipTick`, `HandleInput` (the
ack in `NETMSG_INPUT`, any of those in flight), `ReceivePart` (the whole handler of the three
messages: assembly, delta base, crc, purge, store, ack, resync), `ClientInput`, `NextSnapshot`
(`Update`), and loss.  A part stays in flight when it has been received, so it can arrive
again; inputs overtake each other, and `swapped` remembers that one has.

`SnapIdPool` has the operations of the pool.  Its lists are sequences; `AsInt` is the
conversion of the timeout to an `int`.

### MapChange

`server` is the slot (`m_State`, `m_NextMapChunk`, `m_IsReady` of the player) and the loaded map, `client` the
`CClient` (state, map, files on disk, the download and how it is done, snapshots received).  `toClient`
and `toServer` are the vital messages under way.  Snapshots are not vital: once there has been a game
(`server.played`) one may arrive at any time, also a late one of a game that a new map has ended.  The client
looks at nothing but its own state (`client.cpp:2068`) and counts it, so two of them show ONLINE in the middle of
a download; no property says that this does not happen, and loading the map ends it.  `turn` numbers the
`MAP_CHANGE`s: client messages carry the number of the last one their sender has seen, the
code sends no such thing, and no handler looks at it.  It is there for `confused`: the server
has acted on a READY or a request that was meant for an earlier map, or a client process has
come back while its slot was already READY or INGAME.  Actions: a handler per message on either side, `HttpDone`,
`HttpFails`, `LoadMap` and `Rejoin`.

## 3. Runs

| Run | Checks | Instance |
|---|---|---|
| `link` | `NothingForgotten`, `NeverLockedOut`, `InOrder` | 4 sequence numbers, the client sends 4 chunks: numbers wrap; 2 datagrams to the server, 1 back; both send non-vital chunks |
| `link_live` | `EventuallyAcked`, `ImplementsReliableLink` | under fairness, 2 chunks, two per packet |
| `ring` | `TypeOK`, `WalkComplete`, `ImplementsFifo` | 9 units of memory, items of 2, 3, 5, 9 and (too large) 10 units, with and without recycling |
| `server_takeover` | `OneSlotPerAddress`, `JoinedIffOpen`, `NeverHandedOver` | 2 clients with the same code, 2 slots |
| `server_handshake` | `PerIpLimit` | a 0.6 and a 0.7 client from one IP, limit 1, one reconnect |
| `server_live` | `ConnectResolves`, `SlotsFreed`, `HalfOpenEnds` | under fairness, one client, two sessions |
| `jobs` | `QueueIntact`, `OneWorkerPerJob`, `CompleteAfterShutdown`, `AbortsReach`, `AbortSticks`, `ShutdownReturns`, `JobEnds` | under fairness, 2 workers, 3 jobs, two of them abortable; the pool is started twice |
| `dbpool` | `Pipeline`, `NeverInLimbo`, `SuccessMeansStored`, `StoredOnce`, `StatusTruthful`, `LoadedOnce`, `AnswerFinal`, `ImplementsService`, `ShutdownReturns` | under fairness, 3 slots, 5 queries, in mysql mode (database and backup file) and in sqlite mode |
| `snapshots` | `StoresSorted`, `PointersAlive`, `NeverMixed`, `BaseHeld`, `ScreenAdvances` | 9 ticks, 2 parts, 2 parts and 2 inputs in flight |
| `map_change` | `InGameOnMap`, `WindowKept`, `EntersOnLoadedMap`, `EventuallyPlays` | under fairness, 2 maps of 7 chunks, window 2, 2 loads, 1 rejoin |
| `map_stale` | `CalledWhenMapLoaded` is violated | one map change |
| `ids_early` | `HeldBack` is violated | 2 ids; an `int` of 4 units, five seconds are 10 |

Types are proved (§4); `ring` checks them too, since its `TypeOK` says where the pointers stand.

**Bounds.**  `MaxSent`, `MaxSay`, `MaxTell`, `MaxRounds` bound what is sent and how often
a client connects; `NonVital` says who sends non-vital chunks; `MaxNet` bounds
datagrams in flight.  They are small but reach what matters: in `link` the
buffer fills, refuses chunks, the sequence numbers wrap around, and two datagrams
overtake each other; in the server runs a client
leaves, comes back while its slot is live, a slot parks, is taken over, and the
per-IP limit is hit.  A datagram beyond `MaxNet` is lost, which UDP may do at any
time: `NetLink` loses the new one, `NetServer` the older ones.  The two clients of
`server_takeover` have the same code, protocol and bounds, so that run uses symmetry
between them; it checks no liveness.  Three jobs are enough for `Shutdown` to take one from
the head, the middle and the end of the list while a worker holds another; `MaxInits`, the
number of times the pool is started, is two, so that a second life meets what the first
has left.  Vital chunks in both directions at
once are too many for TLC beside reordering; that order is kept then as well is proved (§4).

In `dbpool` the ring of `Slots` goes around; two of the five queries register the
databases, the three left are enough to store a save, have it fall back to the file,
and load it twice.  In `snapshots`, with `Keep` 4 and 9 ticks both storages purge, the
server finds the base of a silent client gone and recovers with a full snapshot, and it
skips ticks while the client joins (`InitEvery` 2).  In `map_change` a map has more chunks than
two windows, so that chunks of two maps can be under way; the two loads may each come at any moment of
a download, and of the one before it.  In `ids_early` the relation of the real numbers is
kept: five seconds are more than twice the range of the `int`.

**Deadlock** is not checked: a session that has ended, or a client that has used up
its `MaxRounds`, has nothing left to do, a pool of jobs rests when its owner does, the database
pool ends with the shutdown, and the game with `MaxTick`.
`ring` does not stop and is checked.  In `jobs` and `dbpool`, that no thread waits for ever for
another is what `ShutdownReturns` and `JobEnds` say.

**Mutants.**  Beside some definitions stands a faulty variant, marked "Mutant": a
dropped guard, a missing assignment, a stale pointer.  With the variant in place
of the original the property it is meant for fails; no property is listed that
no such fault breaks.  `PROJECT.json` pairs them.

**Fairness.**  `NetLink`: the main loop keeps calling `Recv` until nothing is left
(weak fairness of `ReceiveNext`) and then `Update` (strong fairness of an update at
which a resend is due and there is room for the packet: a second passes again and
again); datagrams do not stay in flight for ever (weak fairness of `Lose`); and a
chunk or an ack that is sent again and again arrives (strong fairness of its
`Receive`), which is the least one can ask of a network.  `NetServer`: the same,
and a side that hears nothing for `conn_timeout` notices it, as does `Update` when
the protection is over.  Users are not fair: nobody has to connect, talk or leave.
`Jobs`: each thread goes on while it can (weak fairness of the steps of `Add` and `Shutdown` once
they have begun, and of each worker), as the scheduler of the operating system provides, and `Run`
returns.  Nobody has to start the pool, add, abort or shut down; `m_Lock` needs no
strong fairness, since no worker can be kept from it for ever by the finite loop of
`Shutdown`.  `DbPool`: each of the three threads goes on while it can (weak fairness of the
backup thread's two steps, of the worker's steps together, and of the end of the loop in
`OnShutdown`); no statement blocks for ever; nobody has to ask or shut down.  `MapChange`: what is
in a channel is handled (weak fairness of `ServerStep` and `ClientStep`), which is what the session
promises, HTTP requests end (`http.cpp` sets timeouts), and an INGAME slot gets its
snapshots (weak fairness of `ReceiveSnapshot` in INGAME only: late snapshots need not come).
The server need not load maps.

## 4. Proofs

`NetConnectionProofs` has the lemmas about the operators: sequence arithmetic, and what
`Queue`, `QueueChunk`, `Flush`, `Feed`, `AckChunks`, `UnpackNextChunk` and `Update` do to the
types and to the contents of a connection.  `NetLinkProofs` has the theorems, for every
`MaxSeq`, `MaxChunks`, `BufCap`, `Lag`, `MaxSent`, `MaxNet` that satisfy the assumptions
`NetConnectionAssumption` and `NetLinkAssumption`:

| Theorem | Says |
|---|---|
| `TypeCorrect` | `Spec => []TypeOK` |
| `InductiveHolds` | `Spec => [](TypeOK /\ Inductive)` |
| `OrderKept` | `Spec => []InOrder`: exactly once, in order |
| `NothingLost` | `Spec => []NothingForgotten` |
| `WindowOpen` | `Spec => []NeverLockedOut` |
| `Implements` | `Spec => ImplementsReliableLink` |

**The argument.**  `InOrder` is not inductive: it says nothing of what is in the buffer,
under construction or on the wire.  `Inductive` adds this.  `Labelled`: every vital chunk,
wherever it is, carries the sequence number that belongs to its place in the order
of sending.  `Sender`: the buffer holds the last chunks sent, without a gap, back
to something the peer has delivered.  `Receiver`: the peer has delivered a prefix,
at most a buffer behind; what it is unpacking is not too old.  `Acks`: an ack on the
wire was really sent, with the number of chunks delivered then.  From this a
sequence number stands for one chunk only: sender, receiver and datagrams in flight
together never span `MaxSeq` chunks (`Lag + BufCap < MaxSeq`), so "the next sequence number"
means "the next chunk".  `AckChunks` is right because the backroom of half the sequence
space is larger than the buffer (`BufCap < MaxSeq \div 2`).  `Implements` follows: each step
of the session submits a chunk, hands over the next one, or changes neither.

All of this holds as long as the resend buffer has never refused a chunk (`Intact`).
When it has, the chunk has been sent once under its own sequence number and cannot
be sent again ("hope nobody will ask for resend", `network_conn.cpp:168`): if that packet is
lost the peer waits for the number for ever, and what is promised is only that
delivered chunks were sent (`ReliableLink`).

`RingBufferProofs` has everything the run `ring` checks, for any size of memory, any sizes of items and
any values (`RingBufferAssumption`):

| Theorem | Says |
|---|---|
| `RingTiled` | `Spec => []Tiled` |
| `RingTypeCorrect` | `Spec => []TypeOK` |
| `WalkCompleteHolds` | `Spec => []WalkComplete` |
| `FifoImplemented` | `Spec => ImplementsFifo` |

**The argument.**  None of the four is inductive, since what `PopFirst` merges and what `Allocate`
finds depends on where all blocks are.  `Holds` says it: the ring is empty and one free block, or it
has a `Layout`.  The items follow one another through the memory, at most once around its end, and
the rest is free in at most two pieces, before the first item and behind the last one at the end of
the memory.  In particular two free blocks are never neighbours, which is why the
`MergeBack` calls of `PopFirst` are needed, the last one too.  `PopHolds`: `PopFirst` takes away the first item; it
has to merge its block with what is free before it, and with what is free behind it when
the last item at the end of the memory goes (`PopLayoutNear`, `PopLayoutFar`), or with both when it was the only one
(`PopLayoutLast`).  `CarveHolds`: the block that was found becomes the last item.  `MakeRoomHolds`: what
recycling leaves are the last items, and if none is left there is room.  `WalkIs`: in a ring that `Holds` a sequence of
items, `Walk` is that sequence, and `WalkBack` its reverse.  So a step of the ring drops items at the front and
appends one at the back, which is what `BoundedFifo` allows.  An allocation of a recycling buffer
only ends without a block when it has popped all items, and then there is room for whatever is not
larger than the memory (`RoomMade`): it is never refused (`AllocateStep`).

The prover has no induction rule that can be used here (see below), so the lemmas about loops
(`LoopIs`, `LoopEnds`, `WalkEnds`) rest on `LeastNumber`: if a statement about numbers were wrong there
would be a first number for which it is, and one less leads to a contradiction.

`NetServerProofs` has the theorems about the server, for any set of clients, any number
of slots, any limit per IP, any codes, and any bounds (`NetServerAssumption`):

| Theorem | Says |
|---|---|
| `ServerTypeCorrect` | `Spec => []TypeOK` |
| `JoinedIffOpenHolds` | `Spec => []JoinedIffOpen` |
| `OneSlotPerAddressHolds` | `Spec => []OneSlotPerAddress` |
| `NeverHandedOverHolds` | `Spec => NeverHandedOver` |
| `PerIpLimitHolds` | `Spec => []PerIpLimit` |

**The argument.**  `StepKind` goes through the actions once and shows that each does one of
four things to the slots: none is opened, closed or handed over, and connections at most die
or lose their protection (`Kept`); one is closed (`Closed`); a free one is opened for an address
without a live slot, and below the limit (`Opened`); or a dead one takes over the connection
of a live one with its code, which is closed (`Moved`).  Types and `JoinedIffOpen` are inductive
together (`Inv`): the code sends to the address of a slot that is joined, so the type of what
is in flight depends on the slot being open.  The other theorems follow from the four
kinds; the limit per IP by counting: a takeover swaps one slot that counts for another.

`JobsProofs` has the theorems about the job pool, for any finite sets of jobs and workers, any
choice of the abortable ones and any `MaxInits` (`JobsAssumption`):

| Theorem | Says |
|---|---|
| `JobsTypeCorrect` | `Spec => []TypeOK` |
| `JobsInductive` | `Spec => []Inductive` |
| `QueueIntactHolds` | `Spec => []QueueIntact` |
| `OneWorkerPerJobHolds` | `Spec => []OneWorkerPerJob` |
| `CompleteAfterShutdownHolds` | `Spec => []CompleteAfterShutdown` |
| `AbortsReachHolds` | `Spec => []AbortsReach` |
| `AbortSticksHolds` | `Spec => AbortSticks` |

**The argument.**  `Inductive` says there is a sequence of jobs that the pointers `first`, `next`,
`last` spell out (`Listed`), and what holds of it (`QueueOK`): its jobs have been added, are not
started and are with no worker; while the pool is up its length is the number of signals given
plus the workers that have taken one and not yet looked at the list.  So a worker finds the
list empty only while the pool is being shut down and after the loop of `Shutdown`, and one that
has gone has left nothing behind, which is why `CompleteAfterShutdown` holds.  Each action gives the new
sequence: `Add` appends, `Fetch` takes the head, `Drain` takes out the job at the cursor.  While `Drain` goes
through the list `prev` is the job before the cursor, and no job up to it is abortable: at the
end none is left, which is `AbortsReach`.
`WorkersOK` ties the state of a job to the place of its worker, `JobsOK` and `MainOK` the rest.

`SnapshotsProofs` has every property of the run `snapshots`, for any `Second`, `Keep`, `InitEvery`,
`MaxErrors`, `MaxParts` and any bounds (`SnapshotsAssumption`):

| Theorem | Says |
|---|---|
| `TypeCorrect` | `Spec => []TypeOK` |
| `StoresSortedCorrect` | `Spec => []StoresSorted` |
| `PointersAliveCorrect` | `Spec => []PointersAlive` |
| `NeverMixedCorrect` | `Spec => []NeverMixed` |
| `ScreenAdvancesCorrect` | `Spec => ScreenAdvances` |
| `BaseHeldCorrect` | `Spec => []BaseHeld` |

**The argument.**  `StorageInv`: every tick in a storage is older than the one being made or
received, or it is that one and has been acked, so that what arrives again is not taken
again and the lists stay sorted; the parts received are all of the tick being received; the
snapshots on the screen are neighbours in the list.  `PurgeUntil` takes away a prefix below
both of them.  On top of that `OrderInv`: as long as inputs are not swapped, the acks under way and
the last one handled rise, every base under way is one of these or older, and no base the
client would still accept is older than what it has purged.

`DbPoolProofs` has every safety property of the run `dbpool` and its refinement, for any number
of slots above one, any databases, operations and number of queries (`DbPoolAssumption`):

| Theorem | Says |
|---|---|
| `TypeCorrect` | `Spec => []TypeOK` |
| `PipelineCorrect` | `Spec => []Pipeline` |
| `AnswerFinalCorrect` | `Spec => AnswerFinal` |
| `NeverInLimboCorrect` | `Spec => []NeverInLimbo` |
| `SuccessMeansStoredCorrect` | `Spec => []SuccessMeansStored` |
| `StoredOnceCorrect` | `Spec => []StoredOnce` |
| `StatusTruthfulCorrect` | `Spec => []StatusTruthful` |
| `LoadedOnceCorrect` | `Spec => []LoadedOnce` |
| `ServiceImplemented` | `Spec => ImplementsService` |

**The argument.**  `QueueInv` is about the ring: query `q` is in slot `(q - 1) % Slots` from when it
is asked to when the worker takes it, and since fewer than `Slots` queries are between
these two points no two of them share a slot; the worker is behind the backup thread, which is
behind the main thread; each semaphore counts what lies between its two threads, plus one
for the `nullptr`; the queries answered are the first ones, and `answered` is as long as their number, which with
`results` gives the order.  `TablesInv` is about the rows: the backup
thread writes rows only ahead of the worker, the worker touches only the row of the query in
its hands or of a save made earlier, and a case for each place of the worker says which tables
that row may be in.  `ToldInv` is about the statuses: a save is reported as failed only if no copy of it was
there to be moved, and who took a save out of the tables is told so, unless the answer was lost
(`past.unheard`).  All five statements about ranks and saves follow from these two.  For the refinement `ClosingInv` says
that the flag `OnShutdown` waits for is reset only by the worker that found the `nullptr`, when every query is answered.

`MapChangeProofs` has the safety properties of the run `map_change`, for any maps, any size and window, and any number of loads and rejoins (`MapChangeAssumption`):

| Theorem | Says |
|---|---|
| `TypeCorrect` | `Spec => []TypeOK` |
| `InGameOnMapCorrect` | `Spec => []InGameOnMap` |
| `EntersOnLoadedMapCorrect` | `Spec => EntersOnLoadedMap` |
| `WindowKeptCorrect` | `Spec => []WindowKept` |

**The argument.**  `StepKind` sorts the actions into six kinds: the server handles a message, sends a map,
or loads one before the client has had any; the client comes back, hears of a map, or goes on.
`TurnInv`: the maps under way to the client were sent after the one it was told last, in order, and
every READY under way is for that one or an older one.  `MapInv`: whatever carries the number of the
server's last map is about that map, so a READY with this number says the client is on it.  From these
`GameInv` (a slot that is READY or INGAME has a client on the server's map) and `EnterInv` (while a
READY_TO_ENTER is under way, the map is loaded and no other is ahead of it) are inductive.  They
need `~confused`: the code has no such number, and `map_stale` shows what follows.

`WindowKept` needs an invariant of its own, `WindowInv`.  Its core, `Budget`, splits what is on its way
into two batches of `Window + 1` chunks each.  The oldest `k` messages to the client bring what was
asked for an earlier map; the chunks behind them and the requests for a later chunk come to one batch
together, because the client asks for one only when it has taken one.  A new batch is opened by the
server's answer to a request for chunk 0, so the other half of `Budget` is about the oldest of these,
at place `z`: if no map was sent since, the client waits for its answer, and the batch before can be
retired (all of it is of an earlier map); if one was sent, `m_NextMapChunk` is 0 and taking the
request for the new map would be the confusion.  What is behind it is then never answered, which is why
one place is enough however many maps are loaded meanwhile.  `AskedInTurn`, `AheadInTurn` and
`FirstIsNew` say that requests, the server's position and the first chunk are not of a map the client
has not heard of or has left; `HelloFirst`, that no request comes before INFO has sent a map.
`DownloadStep` sorts the actions by what they do to a download.  TLC has the bound reached with small
sizes, so it is exact.

**Model-checked only**: liveness (`EventuallyAcked`, the three of `server_live`, `ShutdownReturns` of both
pools, `JobEnds`, `EventuallyPlays`), which the prover does not do.  The library's
induction theorems are about operators, which the provers cannot instantiate; where an induction is
needed it is done by a first counterexample, as for the ring buffer.

## 5. Where code and comment disagree

Two disagreements have a run:

* `map_stale`: `client.cpp:463` "called when the map is loaded" (of `OnEnterGame`).  A READY for the
  map before finds the slot in CONNECTING for the new one, which makes it READY, and the client is
  sent into the game while it downloads.  It may stay in the loading screen for ever then: ONLINE
  is set only by the second snapshot after `OnEnterGame` (`client.cpp:2273`).
* `ids_early`: `snap_id_pool.cpp:83` "`time_get() + time_freq() * 5`" goes into an `int` (`snap_id_pool.h:27`), and
  time is in nanoseconds.  Two seconds after the start of the server freed ids wait no more.

Others were met while modelling; the models behave as the code does, without a run of their own:

* `network_conn.cpp:578` "send a new connect every 500ms".  For a 0.7
  client the repeated `CONNECT` carries `SECURITY_TOKEN_MAGIC` where the first one had
  its token (`SendConnect`, lines 183-191), and a server that has opened a slot answers a
  0.7 `CONNECT` no more (`OnConnCtrlMsg`).  When the first `CONNECT` or its answer is lost the
  client stays in `CONNECT`; that state has no timeout (lines 532-534).
* `network_conn.cpp:346` "check if actual ack value is valid(own
  sequence..latest peer ack)".  `ResumeConnection` takes over the sequence but not
  `m_PeerAck`, so after a takeover the window begins at an ack of another session.
* `network_conn.cpp:607` "copy resend buffer".  The copied entries
  keep `m_pData`, which points into the other slot's buffer; when that slot is used
  again a resend sends what lies there now.
* `jobs.h:157` "Aborts all abortable jobs. Then waits for all worker threads".
  A worker takes a job from the queue under one lock (`jobs.cpp:78`) and enters it into
  `m_RunningJobs` under another (`jobs.cpp:106`); `Shutdown` looks at each under its lock.  A job
  between the two is not aborted, and `Shutdown` waits until it has run to its end.  `AbortsReach`
  states what does hold.
* `connection_pool.cpp:236` logs that the insert of `BACKUP_FIRST` failed and goes on.  If the write
  fails too, `NORMAL_FAILED` moves no row, which is no error: the rank is reported as stored
  in the backup file and is nowhere.  `SuccessMeansStored` excepts this (`fault`).
* `connection_pool.h:68` "Returns false on success" is the opposite of what `ExecSqlFunc` does.
* A request for chunk 0 of the map before opens the window for the new one
  (`server.cpp:1789`); the client's own requests are then out of turn and the download stops. TLC
  finds it when `EventuallyPlays` is stated without `confused`.
* The window is sent at once and the resend buffer has 32 KB (`NET_CONN_BUFFERSIZE`).  Sixteen chunks of
  about 1.3 KB fit, the 32 of two maps that `WindowKept` allows do not, and `sv_map_window` may be
  100.  `MapChange` has reliable channels and refuses no chunk.
* A client process that comes back on the address of a slot that is READY or INGAME finds the slot in that
  state (`ClientRejoinCallback`, `server.cpp:1153`), and its START_INFO is ignored.

## 6. Not modelled

* The handshake of vanilla 0.6 without tokens (`OnPreConnMsg`, `sv_vanilla_antispoof`), bans, the
  rate limit of new connections (`Connlimit` is the choice `refuse`), stun, huffman, websockets.
* Header bits, sizes in bytes and malformed packets: the codec is assumed to be exact
  for what these programs send.
* In `NetLink`, sessions that begin again (they are in `NetServer`), and the handlers' answers
  (an answer is a `Send`).
* In `Snapshots`, the delta and its coding (the crc compares ticks), ticks that start over when a map is
  loaded, demos, the dummy.  In `MapChange`, the refusals at INFO, rcon, 0.7 clients, disconnects
  (the server's are in `NetServer`), failures to write the file.
* In `DbPool`, several read databases, the points table, saves under a code chosen by a player
  (a unique key may refuse them), and more queries than slots (`Room`).
* Gameplay, prediction, rendering, sound, editor, console, storage, demo, register, http and
  the add-ons: either no state that depends on ordering or pure computation and I/O.  They are
  nine tenths of the 268 000 lines of the program (editor, graphics backends, game client and
  game server alone have more than 100 000), so the share of lines the models stand for is
  small by nature: they stand for the protocol and thread code.
* `src/engine/external`, `src/rust-bridge`: third-party and glue code.

## 7. Plan

1. *Done*: connection, session, ring buffer, server slots, job pool; snapshots with the id
   pool; database pool; a client's way into the game with the map download; proofs of the safety
   properties of all of these but `SnapIdPool`, whose one run shows a violation.
2. The vanilla handshake and `Connlimit` in `NetServer`; 0.7 clients in `MapChange`.
3. `Snapshots` across a map change: ticks start over while `m_aCurrentRecvTick` of the client
   does not until `OnEnterGame`, and nothing in the message says which game it is of.
4. Saving and loading of teams in the game server on top of `DbPool` (`teams.cpp`, the state of a
   team between the request and its result).
5. The register's state per protocol over HTTP.
