----------------------------- MODULE Snapshots -----------------------------
(***************************************************************************)
(* The snapshots of one client in the game: CServer::DoSnapshot and        *)
(* NETMSG_INPUT on the server, NETMSG_SNAP, NETMSG_SNAPSINGLE,             *)
(* NETMSG_SNAPEMPTY and Update on the client, each end with its            *)
(* CSnapshotStorage.  A snapshot goes out as the difference to one that    *)
(* the client has acknowledged, in parts; neither parts nor acks are       *)
(* vital: the network loses and reorders both and duplicates parts.        *)
(*                                                                         *)
(* The content of a snapshot is its tick.  A part carries the tick it was  *)
(* made for, so that what the client puts together can be compared with    *)
(* what the server cut up; the crc finds a difference.  Without            *)
(* sv_high_bandwidth the ticks here are the even ones, the global ones.    *)
(***************************************************************************)
EXTENDS Integers, Sequences, FiniteSets

CONSTANTS
    Second,     \* TickSpeed()
    Keep,       \* TickSpeed() * 3
    InitEvery,  \* how often a snapshot is made at SNAPRATE_INIT
    MaxErrors,  \* how many crc errors make the client ask for a full snapshot
    MaxParts,   \* CSnapshot::MAX_PARTS
    MaxTick,    \* bound: the ticks of the game
    MaxNet,     \* bound: parts in flight
    MaxInputNet \* bound: inputs in flight

ASSUME SnapshotsAssumption ==
    /\ Second \in Nat \ {0} /\ InitEvery \in Nat \ {0} /\ Keep \in Nat
    /\ MaxErrors \in Nat /\ MaxParts \in Nat \ {0}
    /\ MaxTick \in Nat /\ MaxNet \in Nat /\ MaxInputNet \in Nat

VARIABLES
    server,  \* m_CurrentGameTick and the CClient of the slot
    client,  \* the snapshot members of CClient
    parts,   \* snapshot messages on their way to the client
    inputs,  \* acks in NETMSG_INPUTs on their way to the server, oldest first
    swapped  \* history: the server has handled an input before an older one

vars == <<server, client, parts, inputs, swapped>>

Tick == 1 .. MaxTick

Ack == Tick \cup {-1}

\* A message of num parts; SNAPEMPTY has none, and neither data nor crc.
Message == [tick : Tick, base : Ack, num : 0 .. MaxParts, part : 0 .. MaxParts - 1]

TypeOK ==
    /\ server \in [tick : 0 .. MaxTick, store : Seq(Tick), lastAcked : Ack,
                   rate : {"INIT", "FULL", "RECOVER"}]
    /\ client \in [store : Seq(Tick), recvTick : 0 .. MaxTick, ackTick : Ack,
                   data : [0 .. MaxParts - 1 -> 0 .. MaxTick], crcErrors : 0 .. MaxErrors,
                   prev : 0 .. MaxTick, current : 0 .. MaxTick, received : 0 .. 2]
    /\ parts \subseteq Message /\ \A m \in parts : m.part < m.num \/ m.part = 0
    /\ inputs \in Seq(Ack)
    /\ swapped \in BOOLEAN

\* m_aSnapshotParts and the incoming data: for each part the tick it came with, 0
\* where the bit is not set.
NoParts == [p \in 0 .. MaxParts - 1 |-> 0]

\* CServer::CClient::Reset and CClient::OnEnterGame.  A snapshot pointer is the
\* tick of its holder, 0 for nullptr; m_aReceivedSnapshots counts to two.
Init ==
    /\ server = [tick |-> 0, store |-> <<>>, lastAcked |-> -1, rate |-> "INIT"]
    /\ client = [store |-> <<>>, recvTick |-> 0, ackTick |-> -1, data |-> NoParts,
                 crcErrors |-> 0, prev |-> 0, current |-> 0, received |-> 0]
    /\ parts = {} /\ inputs = <<>> /\ swapped = FALSE

-----------------------------------------------------------------------------
(* CSnapshotStorage: the ticks of the holders, oldest first *)

\* Get
Holds(store, tick) == \E i \in 1 .. Len(store) : store[i] = tick

\* PurgeUntil: the leading holders older than tick are freed.
PurgeUntil(store, tick) ==
    LET old == {n \in 0 .. Len(store) : \A i \in 1 .. n : store[i] < tick}
        n == CHOOSE n \in old : \A m \in old : m <= n
    IN  SubSeq(store, n + 1, Len(store))

\* Add
Add(store, tick) == Append(store, tick)

-----------------------------------------------------------------------------
(* The server *)

\* DoSnapshot sends nothing on most ticks while the client recovers or joins.
DueAt(tick) ==
    /\ server.rate = "RECOVER" => tick % Second = 0
    /\ server.rate = "INIT" => tick % InitEvery = 0

\* SNAPEMPTY and SNAPSINGLE are one packet.
Packets(num) == IF num = 0 THEN {0} ELSE 0 .. num - 1

\* One turn of the main loop: the next tick and DoSnapshot for this client.  The
\* compressed difference takes num parts, none if nothing differs.  What exceeds
\* MaxNet is lost.
DoSnapshot(num) ==
    LET tick == server.tick + 1
        store == Add(PurgeUntil(server.store, tick - Keep), tick)
        known == Holds(store, server.lastAcked)
        new == {[tick |-> tick, base |-> IF known THEN server.lastAcked ELSE -1,
                 num |-> num, part |-> p] : p \in Packets(num)}
    IN  /\ tick <= MaxTick /\ DueAt(tick)
        /\ server' = [server EXCEPT !.tick = tick, !.store = store,
                        !.rate = IF ~known /\ @ = "FULL" THEN "RECOVER" ELSE @]
        /\ parts' = IF Cardinality(parts \cup new) <= MaxNet THEN parts \cup new ELSE parts
        /\ UNCHANGED <<client, inputs, swapped>>

\* A tick without a snapshot: none is due, or only every other tick has one, or the
\* main loop is late and makes several ticks before it calls DoSnapshot.
SkipTick ==
    /\ server.tick < MaxTick
    /\ server' = [server EXCEPT !.tick = @ + 1]
    /\ UNCHANGED <<client, parts, inputs, swapped>>

Without(q, i) == SubSeq(q, 1, i - 1) \o SubSeq(q, i + 1, Len(q))

\* NETMSG_INPUT: any input moves m_LastAckedSnapshot, forwards or back.
HandleInput(i) ==
    /\ server' = [server EXCEPT !.lastAcked = inputs[i],
                                !.rate = IF inputs[i] > 0 THEN "FULL" ELSE @]
    /\ inputs' = Without(inputs, i)
    /\ swapped' = (swapped \/ i > 1)
    /\ UNCHANGED <<client, parts>>

-----------------------------------------------------------------------------
(* The client *)

\* CClient::SendInput, once m_aPredTick is set.  What exceeds MaxInputNet is lost.
SendInput(ack) ==
    inputs' = IF client.received = 2 /\ Len(inputs) < MaxInputNet
              THEN Append(inputs, ack) ELSE inputs

\* The regular input.
ClientInput ==
    /\ client.received = 2
    /\ SendInput(client.ackTick)
    /\ UNCHANGED <<server, client, parts, swapped>>

\* Mutants: what is stored is taken again; older ticks are taken; the parts of two
\* ticks get mixed; a purge looks at the base alone; the base goes too.
AgainAndAgain(c, m) == m.tick >= c.recvTick
AnyTick(c, m) == m.tick # c.ackTick
GoOn(m) == client.data
PurgeBelowBase(base) == base
PurgeBelowScreen(base) == client.prev

\* Did we already get a snapshot for that tick, or begin with a later one?
Acceptable(c, m) == m.tick >= c.recvTick /\ m.tick > c.ackTick

\* The parts so far: another tick starts from nothing.
Begun(m) == IF m.tick = client.recvTick THEN client.data ELSE NoParts

Received(m) ==
    [client EXCEPT !.recvTick = m.tick, !.data = [Begun(m) EXCEPT ![m.part] = m.tick]]

Complete(c, m) ==
    {p \in DOMAIN c.data : c.data[p] # 0} = IF m.num = 0 THEN {0} ELSE 0 .. m.num - 1

\* UnpackDelta and Crc: what the client has put together is the snapshot of m.
Right(c, m) == m.num = 0 \/ \A p \in 0 .. m.num - 1 : c.data[p] = m.tick

\* The oldest snapshot still needed: the base, and those on the screen.
PurgeTick(base) ==
    LET needed == {base} \cup ({client.prev, client.current} \ {0})
    IN  CHOOSE t \in needed : \A u \in needed : t <= u

\* The crc is right: the client lets go of what it no longer needs.
Verified(c, m) ==
    [c EXCEPT !.data = NoParts, !.store = PurgeUntil(@, PurgeTick(m.base)),
              !.crcErrors = IF @ > 0 THEN @ - 1 ELSE 0]

\* The snapshot is stored and acknowledged; the second one puts the client online.
Stored(c, m) ==
    LET store == Add(c.store, m.tick)
        second == c.received = 1
    IN  [c EXCEPT !.store = store, !.ackTick = m.tick, !.received = IF @ < 2 THEN @ + 1 ELSE 2,
                  !.prev = IF second THEN store[1] ELSE @,
                  !.current = IF second THEN store[Len(store)] ELSE @]

\* The client cannot use what it got: with lost, it asks for a full snapshot.
Discarded(c, lost) ==
    /\ client' = [c EXCEPT !.data = NoParts, !.ackTick = IF lost THEN -1 ELSE @]
    /\ IF lost THEN SendInput(-1) ELSE UNCHANGED inputs

\* NETMSG_SNAP, NETMSG_SNAPSINGLE and NETMSG_SNAPEMPTY.  The message stays in
\* flight, for a duplicate of it, as long as the client would take it.
ReceivePart(m) ==
    LET c == Received(m)
        baseFound == m.base >= 0 => Holds(c.store, m.base)
        many == c.crcErrors = MaxErrors
    IN  /\ Acceptable(client, m)
        /\ \/ /\ ~Complete(c, m)
              /\ client' = c
              /\ UNCHANGED inputs
           \/ /\ Complete(c, m) /\ ~baseFound
              /\ Discarded(c, TRUE)
           \/ /\ Complete(c, m) /\ baseFound /\ Right(c, m)
              /\ \/ client' = Stored(Verified(c, m), m)
                 \/ client' = Verified(c, m) \* UnpackAndValidateSnapshot or TranslateSnap fails
              /\ UNCHANGED inputs
           \/ /\ Complete(c, m) /\ baseFound /\ ~Right(c, m)
              /\ Discarded([c EXCEPT !.crcErrors = IF many THEN 0 ELSE @ + 1], many)
        /\ parts' = {n \in parts : Acceptable(client', n)}
        /\ UNCHANGED <<server, swapped>>

\* Update: time has passed and the next snapshot comes on the screen.
NextSnapshot ==
    /\ client.received = 2
    /\ \E i \in 1 .. Len(client.store) - 1 :
          /\ client.store[i] = client.current
          /\ client' = [client EXCEPT !.prev = client.current, !.current = client.store[i + 1]]
    /\ UNCHANGED <<server, parts, inputs, swapped>>

-----------------------------------------------------------------------------

LosePart(m) == parts' = parts \ {m} /\ UNCHANGED <<server, client, inputs, swapped>>

LoseInput(i) == inputs' = Without(inputs, i) /\ UNCHANGED <<server, client, parts, swapped>>

Next ==
    \/ \E num \in 0 .. MaxParts : DoSnapshot(num)
    \/ SkipTick
    \/ \E i \in 1 .. Len(inputs) : HandleInput(i) \/ LoseInput(i)
    \/ \E m \in parts : ReceivePart(m) \/ LosePart(m)
    \/ ClientInput
    \/ NextSnapshot

Spec == Init /\ [][Next]_vars

-----------------------------------------------------------------------------
(* What the two ends rely on *)

Increasing(store) == \A i, j \in 1 .. Len(store) : i < j => store[i] < store[j]

\* Get, PurgeUntil and the walk of Update need both lists in the order of the
\* ticks, each tick once, whatever arrives twice or late.
StoresSorted == Increasing(server.store) /\ Increasing(client.store)

\* The snapshots on the screen are holders that PurgeUntil has not freed, and
\* nothing comes between them.
PointersAlive ==
    client.received = 2 =>
        \E i \in 1 .. Len(client.store) - 1 :
            client.prev = client.store[i] /\ client.current = client.store[i + 1]

\* No part of one tick is ever taken for one of another: without corruption on
\* the way the crc never finds an error.
NeverMixed == client.crcErrors = 0

\* The client still has the base of every difference it would accept, so that
\* it asks for a full snapshot only if the network swaps inputs.
BaseHeld ==
    ~swapped =>
        \A m \in parts : Acceptable(client, m) /\ m.base > 0 => Holds(client.store, m.base)

\* The screen never goes back to an older tick.
ScreenAdvances ==
    [][client'.current >= client.current /\ client'.prev >= client.prev]_vars

=============================================================================
